--------------------------- MODULE ActionCircuit ---------------------------
(***************************************************************************)
(* The statement one action proves: ActionSliceCircuit::synthesize of      *)
(* src/circuit/action_slice.rs, with its gates as conjuncts.  A public     *)
(* instance is what the verifier sees, a witness what the prover holds.    *)
(* Curve points are named by what they commit to: rk by the key and its    *)
(* rerandomiser, cv by the net value and its randomness.                   *)
(***************************************************************************)
EXTENDS Notes, CommitmentTree

Instance(community, anchor, nf, rk, cm, cv_net, now) ==
  [community |-> community, anchor |-> anchor, nullifier |-> nf, rk |-> rk,
   cm |-> cm, cv_net |-> cv_net, now |-> now]

Rerandomized(ak, alpha) == [ak |-> ak, alpha |-> alpha]
value_commitment(value, rcv) == [value |-> value, rcv |-> rcv]

Witnessed(old, fvk, position, path, new, rcv, alpha) ==
  [old |-> old, fvk |-> fvk, position |-> position, path |-> path, new |-> new,
   rcv |-> rcv, alpha |-> alpha]

InRange(note) == note.value < VALUE_LIMIT /\ note.t_note < TIME_LIMIT

(* Deviation: nothing ties the witnessed address to the key.                          *)
OldNoteAtAnyAddress(instance, w) ==
  [w.old EXCEPT !.community = instance.community, !.coin_community = instance.community]
(* The note the circuit commits to: of the public community, at the address
   of the witnessed key.                                                   *)
OldNote(instance, w) ==
  [w.old EXCEPT !.community = instance.community, !.coin_community = instance.community,
                !.address = address_of(w.fvk)]

(* The created note: dated now, with the spent note's nullifier as rho.    *)
NewNote(instance, w, nf) ==
  [w.new EXCEPT !.community = instance.community, !.coin_community = instance.community,
                !.t_note = instance.now, !.rho = nf]

(* Deviation: padding needs a path too.                                    *)
SpendsFromTreeAlways(instance, w, old) ==
  PathLeadsTo(commitment(old), w.position, w.path, instance.anchor)
(* Gate "action": a spent note of any value stands in the tree of the anchor. *)
SpendsFromTree(instance, w, old) ==
  old.value = 0 \/ PathLeadsTo(commitment(old), w.position, w.path, instance.anchor)

Statement(instance, w) ==
  LET old == OldNote(instance, w)
      nf  == nullifier(w.fvk.nk, old)
      new == NewNote(instance, w, nf)
  IN  /\ InRange(old) /\ InRange(new)
      /\ ~FromTheFuture(old, instance.now)
      /\ SpendsFromTree(instance, w, old)
      /\ instance.nullifier = nf
      /\ instance.rk = Rerandomized(w.fvk.ak, w.alpha)
      /\ instance.cm = commitment(new)
      /\ instance.cv_net = value_commitment(Worth(old, instance.now) - new.value, w.rcv)
=============================================================================
