---------------------------- MODULE SkeletonFfi ----------------------------
(***************************************************************************)
(* The skeleton's calls of the C interface, src/ffi.rs with src/prover.rs: *)
(* threads call grdzk_init, grdzk_prove and grdzk_verify as they like, the *)
(* keys are built by whoever needs them first, and a proof is a buffer the *)
(* caller has to give back.  bundle::setup keeps its keys in the same way. *)
(*                                                                         *)
(* OnceLock is external: who comes while another thread builds waits, and  *)
(* a builder that panics leaves it empty for the next.  NodeFfi has the    *)
(* other half of ffi.rs; the names here are told apart from those there.   *)
(***************************************************************************)
EXTENDS Naturals, Sequences, SequencesExt, Functions

CONSTANTS
  FIELD, LIMB, N_LIMBS, N_IN, N_OUT,   (* as in ValueBalance               *)
  Thread,
  RawWitness,      (* raw numbers: [inputs, outputs], two sequences         *)
  RawSighash,      (* raw numbers                                          *)
  Length,          (* what verify is told of its proof's: "short" of one,
                      "enough" for one, or "huge", above isize::MAX         *)
  Address          (* of buffers on the heap                               *)

VARIABLES
  setup,           (* the OnceLock: "empty", "building" or "built"         *)
  calls,           (* what each thread is in                               *)
  answer,          (* the call that the last step returned from, its code   *)
  outs,            (* data of each thread's own grdzk_buffer               *)
  heap,            (* the proofs in the buffers handed out                 *)
  sent,            (* the proofs made, of which anyone may have a copy     *)
  panicked         (* threads that have; the bound is once each            *)

skeletonVars == <<setup, calls, answer, outs, heap, sent, panicked>>

Balance == INSTANCE ValueBalance
             WITH PRIME <- FIELD, Sighash <- RawSighash,
                  values <- <<>>, sighash <- 0, limbs <- <<>>, takenFor <- {}

(* Addresses are told from what is no address.                             *)
ASSUME AddressAssumption ==
  "null" \notin Address /\ "uninitialised" \notin Address
(* The sizes are as in ValueBalance, and arguments are lists of numbers.   *)
ASSUME ArgumentAssumption ==
  /\ {FIELD, LIMB, N_LIMBS, N_IN, N_OUT} \subseteq Nat \ {0}
  /\ LIMB^N_LIMBS \in Nat
  /\ N_IN * LIMB^N_LIMBS < FIELD /\ N_OUT * LIMB^N_LIMBS < FIELD
  /\ RawSighash \subseteq Nat
  /\ \A w \in RawWitness : w.inputs \in Seq(Nat) /\ w.outputs \in Seq(Nat)

None == [fn |-> "none"]
Garbage == [sighash |-> 0, values |-> <<>>]   (* bytes that are no proof   *)

-----------------------------------------------------------------------------
(* What is refused before any keys are needed; "Ok" goes on.               *)
NotCanonical(call) ==
  call.sighash >= FIELD \/ (call.fn = "prove" /\ \E v \in ToSet(call.values) : v >= FIELD)

refusal(call) ==
  IF call.given = "null" THEN "NullPointer"
  ELSE IF call.fn = "prove" /\ ~call.arity THEN "BadArity"
  ELSE IF NotCanonical(call) THEN "BadValue"
  ELSE IF call.fn = "prove"
       THEN Balance!check_witness(Balance!Inputs(call.values), Balance!Outputs(call.values))
       ELSE "Ok"

Return(t, call, code) ==
  /\ calls' = [calls EXCEPT ![t] = None]
  /\ answer' = [by |-> t, call |-> call, code |-> code]

Begin(t, call) ==
  IF refusal(call) = "Ok"
  THEN calls' = [calls EXCEPT ![t] = [fn |-> call.fn, at |-> "setup", call |-> call]]
       /\ answer' = None
  ELSE Return(t, call, refusal(call))

-----------------------------------------------------------------------------
SkeletonInit ==
  /\ setup = "empty"
  /\ calls = [t \in Thread |-> None]
  /\ answer = None
  /\ outs = [t \in Thread |-> "uninitialised"]
  /\ heap = <<>> /\ sent = {} /\ panicked = {}

CallInit(t) ==
  /\ calls[t] = None
  /\ calls' = [calls EXCEPT ![t] = [fn |-> "init", at |-> "setup", call |-> [fn |-> "init"]]]
  /\ answer' = None
  /\ UNCHANGED <<setup, outs, heap, sent, panicked>>

(* With a null pointer among them, the other arguments do not matter.      *)
ProveCalls ==
  {[fn |-> "prove", given |-> "bytes", sighash |-> s,
    arity |-> Len(w.inputs) = N_IN /\ Len(w.outputs) = N_OUT,
    values |-> w.inputs \o w.outputs] : w \in RawWitness, s \in RawSighash}
  \cup {[fn |-> "prove", given |-> "null", sighash |-> 0, arity |-> FALSE, values |-> <<>>]}
VerifyCalls ==
  {[fn |-> "verify", given |-> "bytes", sighash |-> s, proof |-> proof, length |-> length] :
     proof \in sent \cup {Garbage}, s \in RawSighash, length \in Length}
  \cup {[fn |-> "verify", given |-> "null", sighash |-> 0, proof |-> Garbage, length |-> "short"]}

(* The buffer passed as out is one whose proof was given back.             *)
CallProve(t) ==
  /\ calls[t] = None /\ outs[t] \notin Address
  /\ \E call \in ProveCalls :
       /\ Begin(t, call)
       /\ outs' = IF refusal(call) \in {"NullPointer", "BadArity"} THEN outs
                  ELSE [outs EXCEPT ![t] = "null"]
  /\ UNCHANGED <<setup, heap, sent, panicked>>

(* The length goes to from_raw_parts as it is.                             *)
CallVerify(t) ==
  /\ calls[t] = None
  /\ \E call \in VerifyCalls : Begin(t, call)
  /\ UNCHANGED <<setup, outs, heap, sent, panicked>>

(* SETUP.get_or_init.                                                      *)
GetSetup(t) ==
  /\ calls[t] # None /\ calls[t].at = "setup"
  /\ \/ setup = "built" /\ calls' = [calls EXCEPT ![t].at = "work"] /\ UNCHANGED setup
     \/ setup = "empty" /\ calls' = [calls EXCEPT ![t].at = "keygen"] /\ setup' = "building"
  /\ answer' = None
  /\ UNCHANGED <<outs, heap, sent, panicked>>

(* Every entry point catches what its call panics with.                    *)
Caught(t) ==
  /\ t \notin panicked
  /\ panicked' = panicked \cup {t}
  /\ Return(t, calls[t].call, "Panic")

(* Deviation: a panic leaves the others waiting for keys.                  *)
AfterPanicStuck(was) == was
AfterPanic(was) == "empty"

Keygen(t) ==
  /\ calls[t] # None /\ calls[t].at = "keygen"
  /\ \/ /\ setup' = "built" /\ calls' = [calls EXCEPT ![t].at = "work"]
        /\ answer' = None /\ UNCHANGED panicked
     \/ setup' = AfterPanic(setup) /\ Caught(t)
  /\ UNCHANGED <<outs, heap, sent>>

(* Deviation: the sighash is no instance of the proof.                     *)
VerifyUnbound(proof, s) == proof # Garbage
verify(proof, s) == proof # Garbage /\ proof.sighash = s

(* halo2 reads a proof from the front: part of one is none, and what is
   behind it is not looked at.  A slice above isize::MAX is undefined; a
   build without debug assertions does with it as with any other.          *)
ProofIn(call) == IF call.length = "short" THEN Garbage ELSE call.proof

Work(t) ==
  /\ calls[t] # None /\ calls[t].at = "work"
  /\ LET call == calls[t].call IN
     \/ call.fn = "init" /\ Return(t, call, "Ok") /\ UNCHANGED <<outs, heap, sent, panicked>>
     \/ /\ call.fn = "prove"
        /\ \E a \in Address \ DOMAIN heap :
             /\ heap' = [b \in DOMAIN heap \cup {a} |->
                           IF b = a THEN [sighash |-> call.sighash, values |-> call.values]
                           ELSE heap[b]]
             /\ outs' = [outs EXCEPT ![t] = a]
             /\ sent' = sent \cup {heap'[a]}
        /\ Return(t, call, "Ok") /\ UNCHANGED panicked
     \/ /\ call.fn = "prove"                     (* create_proof gave an error *)
        /\ Return(t, call, "ProveFailed")
        /\ UNCHANGED <<outs, heap, sent, panicked>>
     \/ /\ call.fn = "verify"
        /\ Return(t, call, IF verify(ProofIn(call), call.sighash) THEN "Ok" ELSE "VerifyFailed")
        /\ UNCHANGED <<outs, heap, sent, panicked>>
     \/ call.fn \in {"prove", "verify"} /\ Caught(t) /\ UNCHANGED <<outs, heap, sent>>
  /\ UNCHANGED setup

(* Deviation: the buffer keeps its pointer.                                *)
FreedKeepsData(data) == data
Freed(data) == "null"
(* grdzk_buffer_free, as often as the caller likes.                        *)
BufferFree(t) ==
  /\ calls[t] = None /\ outs[t] # "uninitialised"
  /\ heap' = Restrict(heap, DOMAIN heap \ {outs[t]})
  /\ outs' = [outs EXCEPT ![t] = Freed(@)]
  /\ answer' = None
  /\ UNCHANGED <<setup, calls, sent, panicked>>

(* A call goes on by itself, unless it waits for another one's keys.       *)
Proceed(t) == GetSetup(t) \/ Keygen(t) \/ Work(t)

SkeletonNext == \E t \in Thread :
  CallInit(t) \/ CallProve(t) \/ CallVerify(t) \/ Proceed(t) \/ BufferFree(t)

SkeletonSpec == SkeletonInit /\ [][SkeletonNext]_skeletonVars

(* The scheduler runs every thread; nobody has to call anything.           *)
FairSkeletonSpec == SkeletonSpec /\ \A t \in Thread : WF_skeletonVars(Proceed(t))

-----------------------------------------------------------------------------
(* A code says what was wrong first: a null pointer, a number of values, a
   number that is no field element, one out of range, sums that differ,
   with sums over the numbers themselves.  With all of that right prove
   succeeds, unless create_proof fails, and verify does exactly for a whole
   proof that prove gave out for this very sighash, on any thread and
   whoever built the keys.  Only a thread whose call panicked is told so.
   Of a length above isize::MAX nothing is claimed: the head of ffi.rs says
   that it is rejected, grdzk_verify does not look (see README).           *)
Canonical(call) ==
  /\ call.sighash < FIELD
  /\ call.fn = "prove" => \A v \in ToSet(call.values) : v < FIELD
InRange(call) == \A v \in ToSet(call.values) : v < LIMB^N_LIMBS
SumsDiffer(call) == Balance!Total(Balance!Inputs(call.values)) # Balance!Total(Balance!Outputs(call.values))
Proved(call) == call.proof \in sent /\ call.proof.sighash = call.sighash /\ call.length # "short"

Codes(call) ==
  IF call.fn = "init" THEN {"Ok"}
  ELSE IF call.given = "null" THEN {"NullPointer"}
  ELSE IF call.fn = "prove" /\ ~call.arity THEN {"BadArity"}
  ELSE IF ~Canonical(call) THEN {"BadValue"}
  ELSE IF call.fn = "verify" THEN {IF Proved(call) THEN "Ok" ELSE "VerifyFailed"}
  ELSE IF ~InRange(call) THEN {"ValueOutOfRange"}
  ELSE IF SumsDiffer(call) THEN {"Unbalanced"}
  ELSE {"Ok", "ProveFailed"}

TooLong(call) == call.fn = "verify" /\ call.length = "huge"

Right(t, call, code) ==
  \/ code = "Panic" /\ t \in panicked
  \/ TooLong(call)
  \/ code \in Codes(call)

AnswersAreRight == answer # None => Right(answer.by, answer.call, answer.code)

(* "Release a buffer returned by grdzk_prove. Safe to call on an already-
   empty buffer" (ffi.rs): whatever calls fail, panic or are repeated, each
   buffer on the heap is owned by one caller, and what a caller would give
   back is on the heap or null.                                            *)
BuffersAreOwned ==
  \A a \in Address :
    LET owners == {t \in Thread : outs[t] = a}
    IN  IF a \in DOMAIN heap THEN \E t \in Thread : owners = {t} ELSE owners = {}

(* Every call returns, whoever built the keys and whoever panicked at it.  *)
EveryCallReturns ==
  \A t \in Thread : (calls[t] # None) ~> (calls[t] = None)
=============================================================================
