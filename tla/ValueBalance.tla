---------------------------- MODULE ValueBalance ----------------------------
(***************************************************************************)
(* The skeleton circuit, src/circuit/value_balance.rs, with the prover     *)
(* around it, src/prover.rs, and its two calls of the C interface: sums of *)
(* anchored values are equal, each is in range, and the proof is bound to  *)
(* a sighash.  Who proves chooses every cell; halo2 does not look whether  *)
(* a witness holds, so prove has to refuse what no verifier will take.     *)
(***************************************************************************)
EXTENDS Naturals, Sequences, SequencesExt

CONSTANTS
  PRIME,           (* the order of the field                               *)
  LIMB, N_LIMBS,   (* 2^LIMB_BITS, and the limbs of a value                *)
  N_IN, N_OUT,
  Sighash

VARIABLES
  values,     (* cells of region 1: inputs, then outputs                   *)
  sighash,    (* the cell below them                                       *)
  limbs,      (* the range check regions filled so far                     *)
  takenFor    (* sighashes that grdzk_verify took the proof for            *)

balanceVars == <<values, sighash, limbs, takenFor>>

(* "No wraparound": no sum of values in range reaches the field's order.   *)
ASSUME LimbAssumption ==
  /\ {PRIME, LIMB, N_LIMBS, N_IN, N_OUT} \subseteq Nat \ {0}
  /\ N_IN * LIMB^N_LIMBS < PRIME /\ N_OUT * LIMB^N_LIMBS < PRIME
(* What there is to know of LIMB^j, as the provers know nothing of powers.  *)
ASSUME WeightAssumption ==
  /\ \A j \in 0..N_LIMBS : LIMB^j \in Nat \ {0}
  /\ LIMB^0 = 1 /\ \A j \in 0..(N_LIMBS - 1) : LIMB^(j + 1) = LIMB^j * LIMB

Cells == 1..(N_IN + N_OUT)
Inputs(all) == SubSeq(all, 1, N_IN)
Outputs(all) == SubSeq(all, N_IN + 1, N_IN + N_OUT)
Total(seq) == FoldLeft(LAMBDA a, b : a + b, 0, seq)

-----------------------------------------------------------------------------
(* The gates.                                                              *)
BalanceGate(all) == Total(Inputs(all)) % PRIME = Total(Outputs(all)) % PRIME

(* Deviation: the table has one row more than a limb has values.           *)
TableTooLong(limb) == limb \in 0..LIMB
RangeTable(limb) == limb \in 0..(LIMB - 1)

DecomposeGate(value, row) ==
  value = Total([j \in 1..N_LIMBS |-> row[j] * LIMB^(j - 1)]) % PRIME

(* The limbs that synthesize assigns: the low bytes of the value.          *)
Honest(value) == [j \in 1..N_LIMBS |-> (value \div LIMB^(j - 1)) % LIMB]

-----------------------------------------------------------------------------
(* Deviation: only the balance is looked at.                               *)
CheckBalanceOnly(inputs, outputs) ==
  IF Total(inputs) % PRIME # Total(outputs) % PRIME THEN "Unbalanced" ELSE "Ok"
check_witness(inputs, outputs) ==
  IF \E v \in ToSet(inputs \o outputs) : v >= LIMB^N_LIMBS THEN "ValueOutOfRange"
  ELSE IF Total(inputs) % PRIME # Total(outputs) % PRIME THEN "Unbalanced"
  ELSE "Ok"

-----------------------------------------------------------------------------
BalanceInit ==
  /\ values \in [Cells -> 0..(PRIME - 1)]
  /\ sighash \in Sighash
  /\ limbs = <<>>
  /\ takenFor = {}

RangeCheck ==
  /\ Len(limbs) < N_IN + N_OUT
  /\ \E row \in [1..N_LIMBS -> 0..LIMB] :
       /\ \A j \in 1..N_LIMBS : RangeTable(row[j])
       /\ DecomposeGate(values[Len(limbs) + 1], row)
       /\ limbs' = Append(limbs, row)
  /\ UNCHANGED <<values, sighash, takenFor>>

Proven == BalanceGate(values) /\ Len(limbs) = N_IN + N_OUT

(* The sighash cell is constrained to the instance.                        *)
Verify(public) ==
  /\ Proven /\ public = sighash
  /\ takenFor' = takenFor \cup {public}
  /\ UNCHANGED <<values, sighash, limbs>>

BalanceNext == RangeCheck \/ \E public \in Sighash : Verify(public)

BalanceSpec == BalanceInit /\ [][BalanceNext]_balanceVars

-----------------------------------------------------------------------------
(* "Equality in the field therefore implies equality over the integers"
   (value_balance.rs): what a verifier takes balances as numbers, and every
   value is in range.                                                      *)
VerifiedBalances ==
  takenFor # {} =>
    /\ Total(Inputs(values)) = Total(Outputs(values))
    /\ \A i \in Cells : values[i] < LIMB^N_LIMBS

(* check_witness mirrors "the in-circuit constraints" (prover.rs): prove
   refuses no witness the circuit has a proof for, and returns Ok for none
   that its own limbs do not satisfy.                                      *)
ProveRefusesExactly ==
  LET code == check_witness(Inputs(values), Outputs(values))
  IN  /\ Proven => code = "Ok"
      /\ code = "Ok" =>
           /\ BalanceGate(values)
           /\ \A i \in Cells : DecomposeGate(values[i], Honest(values[i]))
=============================================================================
