------------------------------ MODULE NetValue ------------------------------
(***************************************************************************)
(* The numbers of a bundle, on their way through two fields: packed into   *)
(* the elements a note commitment hashes (src/circuit/note_chip.rs,        *)
(* src/note.rs), subtracted in the base field by the gate "action"         *)
(* (src/circuit/action_slice.rs), committed to and summed in the scalar    *)
(* field (src/signature.rs), while bundle::build sums them as u64.  Who    *)
(* proves chooses every cell; each action passes once, then the binding    *)
(* signature decides.                                                      *)
(*                                                                         *)
(* Curve points are known by how often they hold V, which is what the      *)
(* binding signature is about: nobody knows V as a multiple of R.          *)
(***************************************************************************)
EXTENDS Integers

CONSTANTS
  FIELD, ORDER,                    (* of the base field, the scalar field  *)
  VALUE_LIMIT, TIME_LIMIT,         (* 2^63, 2^40                           *)
  KIND_LIMIT, EXPIRY_LIMIT,        (* 2, 2^16                              *)
  Decayed(_, _),                   (* a value after a duration             *)
  NumActions                       (* bundle::ACTIONS                      *)

VARIABLES
  now,                 (* a public input                                   *)
  stage,               (* the part of an action that is proved next        *)
  count,               (* actions that are through                         *)
  note, worth,         (* the cells of a note; what the spent one is worth *)
  cv,                  (* V in the action's value commitment               *)
  bvk,                 (* V in the sum of the commitments                  *)
  spent, created,      (* the same amounts as `build` sums them            *)
  verified

vars == <<now, stage, count, note, worth, cv, bvk, spent, created, verified>>

U64 == 2 * VALUE_LIMIT
Field == 0..(FIELD - 1)
NoNote == [value |-> 0, t_note |-> 0, kind |-> 0, expiry |-> 0, amount |-> 0, meta |-> 0]

ASSUME ParameterAssumption ==
  /\ {FIELD, ORDER, NumActions} \subseteq Nat \ {0}
  /\ {VALUE_LIMIT, TIME_LIMIT, KIND_LIMIT, EXPIRY_LIMIT} \subseteq Nat \ {0}
ASSUME DecayAssumption ==
  \A value \in 0..(VALUE_LIMIT - 1), duration \in Field :
    Decayed(value, duration) \in 0..value
(* The fields are large enough for what is put into an element, for a
   difference of values and for the sum of all differences.                *)
ASSUME FieldAssumption ==
  /\ VALUE_LIMIT * TIME_LIMIT <= FIELD /\ KIND_LIMIT * EXPIRY_LIMIT <= FIELD
  /\ VALUE_LIMIT + U64 <= FIELD
  /\ U64 <= ORDER /\ NumActions * VALUE_LIMIT <= ORDER
(* "two of the largest values" fit a u64: the code has two actions.        *)
ASSUME SumAssumption == NumActions * VALUE_LIMIT <= U64

-----------------------------------------------------------------------------
(* Deviation: a bound of one bit more.                                     *)
CheckBitsLoosely(cell, limit) == cell < 2 * limit
(* What check_bits leaves of a cell (RangeCheck).                          *)
CheckBits(cell, limit) == cell < limit

(* The cells that pass.                                                    *)
Checked(limit) == {cell \in Field : CheckBits(cell, limit)}

(* NoteChipConfig::commit, "pack note fields": the gate gives the two
   elements that are hashed; the four parts are range checked before.      *)
PackedNote(value, t_note, kind, expiry) ==
  [value |-> value, t_note |-> t_note, kind |-> kind, expiry |-> expiry,
   amount |-> (value + t_note * VALUE_LIMIT) % FIELD,
   meta |-> (kind + expiry * KIND_LIMIT) % FIELD]

(* "action": decayed(v_old) - v_new = magnitude * sign, with what a short
   signed scalar may be (ScalarFixedShort): 64 bits and a sign.            *)
NetGate(decayed, v_new, magnitude, sign) ==
  /\ magnitude < U64 /\ sign \in {1, -1}
  /\ (decayed - v_new - magnitude * sign) % FIELD = 0

(* The cells synthesize assigns.                                           *)
HonestSign(decayed, v_new) == IF decayed >= v_new THEN 1 ELSE -1
HonestMagnitude(decayed, v_new) ==
  IF decayed >= v_new THEN decayed - v_new ELSE v_new - decayed

(* Deviation: the sign is lost.                                            *)
ToScalarUnsigned(value) == IF value < 0 THEN -value ELSE value
(* signature.rs, for the value_commitment that `build` publishes.          *)
to_scalar(value) ==
  IF value < 0 THEN (-((-value) % U64)) % ORDER ELSE (value % U64) % ORDER

(* Deviation: the sums are int64, as the values are.                       *)
SumErrorSigned(spends, outputs) ==
  IF spends >= VALUE_LIMIT \/ outputs >= VALUE_LIMIT THEN "Overflow"
  ELSE IF spends # outputs THEN "Unbalanced" ELSE "Ok"
(* build: two checked sums of u64, then the comparison.                    *)
SumError(spends, outputs) ==
  IF spends >= U64 \/ outputs >= U64 THEN "Overflow"
  ELSE IF spends # outputs THEN "Unbalanced" ELSE "Ok"

-----------------------------------------------------------------------------
Init ==
  /\ now \in Field
  /\ stage = "old" /\ count = 0
  /\ note = NoNote /\ worth = 0 /\ cv = 0
  /\ bvk = 0 /\ spent = 0 /\ created = 0
  /\ verified = FALSE

(* What both notes of an action have.                                      *)
Committed(value, t_note) ==
  \E kind \in Checked(KIND_LIMIT), expiry \in Checked(EXPIRY_LIMIT) :
    note' = PackedNote(value, t_note, kind, expiry)

(* The spent note, and the decay chip's value of it, which is its decay
   since t_note (DecayChip); it has no solution for a later t_note.        *)
ProveOld(value, t_note) ==
  /\ stage = "old" /\ count < NumActions
  /\ t_note <= now
  /\ Committed(value, t_note)
  /\ worth' = Decayed(value, now - t_note)
  /\ stage' = "new"
  /\ UNCHANGED <<now, count, cv, bvk, spent, created, verified>>

(* The created note is dated `now`.                                        *)
ProveNew(value) ==
  /\ stage = "new"
  /\ CheckBits(now, TIME_LIMIT)
  /\ Committed(value, now)
  /\ stage' = "net"
  /\ UNCHANGED <<now, count, worth, cv, bvk, spent, created, verified>>

(* The net value's cells, and what they add to the sums.                   *)
ProveNet(magnitude, sign) ==
  /\ stage = "net"
  /\ NetGate(worth, note.value, magnitude, sign)
  /\ cv' = (magnitude * sign) % ORDER
  /\ bvk' = (bvk + cv') % ORDER
  /\ spent' = spent + worth
  /\ created' = created + note.value
  /\ stage' = "netted"
  /\ UNCHANGED <<now, count, note, worth, verified>>

NextAction ==
  /\ stage = "netted"
  /\ count' = count + 1
  /\ stage' = "old" /\ note' = NoNote /\ worth' = 0 /\ cv' = 0
  /\ UNCHANGED <<now, bvk, spent, created, verified>>

(* The binding signature verifies if the key holds no V: value_balance is
   0 where the code calls binding_verification_key.                        *)
Bind ==
  /\ stage = "old" /\ count = NumActions
  /\ verified' = ((bvk - to_scalar(0)) % ORDER = 0)
  /\ stage' = "bound"
  /\ UNCHANGED <<now, count, note, worth, cv, bvk, spent, created>>

Next ==
  \/ \E value \in Checked(VALUE_LIMIT), t_note \in Checked(TIME_LIMIT) : ProveOld(value, t_note)
  \/ \E value \in Checked(VALUE_LIMIT) : ProveNew(value)
  \/ \E magnitude \in Field, sign \in {1, -1} : ProveNet(magnitude, sign)
  \/ NextAction \/ Bind

Spec == Init /\ [][Next]_vars

-----------------------------------------------------------------------------
(* "the parts that sit below another part in a packed element must have
   their exact width, or two different notes could pack to the same element"
   (note_chip.rs): the elements of a note that was proved tell all parts.  *)
ElementsReadBack ==
  /\ note.value = note.amount % VALUE_LIMIT /\ note.t_note = note.amount \div VALUE_LIMIT
  /\ note.kind = note.meta % KIND_LIMIT /\ note.expiry = note.meta \div KIND_LIMIT

(* The circuit's value commitment and the one `build` computes outside it
   are of the same number, whichever magnitude and sign a prover chooses,
   and the cells that synthesize assigns satisfy the gate.                 *)
CommitsToNet ==
  /\ stage = "net" =>
       NetGate(worth, note.value, HonestMagnitude(worth, note.value),
               HonestSign(worth, note.value))
  /\ stage = "netted" => cv = to_scalar(worth - note.value)

(* A bundle's binding signature verifies exactly if `build` sums up both
   sides to the same u64: neither field wraps around where u64 does not,
   and two of the largest values do not overflow.                          *)
VerifiedAsBuilt ==
  /\ SumError(spent, created) # "Overflow"
  /\ stage = "bound" => (verified <=> SumError(spent, created) = "Ok")
=============================================================================
