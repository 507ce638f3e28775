------------------------------ MODULE NodeFfi ------------------------------
(***************************************************************************)
(* The node behind the C interface, src/ffi.rs: the tree lives in memory   *)
(* behind an opaque handle, anchors, nullifiers and commitments live in    *)
(* the node's database.  What Ledger::apply does in one call is a row of   *)
(* calls here, by one owner of the tree, and the node may stop between any *)
(* two of them; "a node rebuilds it at startup by appending the stored     *)
(* commitments in order".  Verifying is thread-safe and done ahead.        *)
(*                                                                         *)
(* The node itself is another repository: how it uses its database is      *)
(* modelled as ffi.rs, its header and Ledger::verify say it has to.        *)
(***************************************************************************)
EXTENDS Naturals, Sequences, FiniteSets, CommitmentTree

CONSTANTS
  Bundle, Sighash,
  VerifyBundleCrypto(_, _),   (* proof and signatures of a decoded bundle  *)
  Creation,                   (* the published fields of a creation        *)
  Openable(_),                (* from_parts and Address::from_raw accept   *)
  NumActions, Capacity

VARIABLES
  tree,        (* the GrdzkTree: {} while there is none, or one tree       *)
  store,       (* the database: commitments, roots, nullifiers             *)
  verified,    (* effects the node got from grdzk_bundle_verify            *)
  task,        (* what the owner of the tree is at                         *)
  accepted,    (* whether the last transaction was taken                   *)
  log          (* history, as in ShieldedLog                               *)

vars == <<tree, store, verified, task, accepted, log>>

Elements(seq) == {seq[i] : i \in DOMAIN seq}
Entry(nfs, root, under) == [nfs |-> nfs, root |-> root, under |-> under]
Idle == [stage |-> "idle"]

(* What a call on the handle works on.                                     *)
Held == CHOOSE held \in tree : TRUE

ASSUME ParameterAssumption == {NumActions, Capacity} \subseteq Nat
(* The commitment of a transfer's note is no creation's: it hashes the rho
   of a spent note.                                                        *)
ASSUME BundleAssumption ==
  \A bundle \in Bundle :
    /\ Len(bundle.actions) \in Nat
    /\ DOMAIN bundle.actions = 1..Len(bundle.actions)
    /\ \A i \in DOMAIN bundle.actions : "creation" \notin DOMAIN bundle.actions[i].cm

-----------------------------------------------------------------------------
(* Deviation: the commitments come out in the wrong order.                 *)
EffectsSwapped(bundle) ==
  [anchor |-> bundle.anchor,
   nfs |-> [i \in DOMAIN bundle.actions |-> bundle.actions[i].nullifier],
   cms |-> [i \in DOMAIN bundle.actions |->
              bundle.actions[Len(bundle.actions) + 1 - i].cm]]
(* out_effects of grdzk_bundle_verify: anchor | nf_0 | cm_0 | nf_1 | cm_1  *)
Effects(bundle) ==
  [anchor |-> bundle.anchor,
   nfs |-> [i \in DOMAIN bundle.actions |-> bundle.actions[i].nullifier],
   cms |-> [i \in DOMAIN bundle.actions |-> bundle.actions[i].cm]]

(* The return code; a bundle of another length does not decode.            *)
BundleVerifyCode(bundle, sighash) ==
  IF \/ Len(bundle.actions) # NumActions
     \/ Len(bundle.spend_auth_sigs) # NumActions
  THEN "WIRE" ELSE VerifyBundleCrypto(bundle, sighash)

(* Deviation: creations of the same fields get the same commitment.        *)
CreationCommitmentAnywhere(creation, position) == [creation |-> creation, rho |-> 0]
(* grdzk_creation_commitment, for fields a note can have.                  *)
CreationCommitment(creation, position) == [creation |-> creation, rho |-> position]

(* Deviation: a full tree takes the note and then says it is full.         *)
TreeAppendThenCheck(held, cm) ==
  [tree |-> Appended(held, cm, FALSE),
   code |-> IF HasRoomFor(held, 1) THEN "OK" ELSE "TREE_FULL"]
(* grdzk_tree_append; the node keeps no witnesses.                         *)
TreeAppend(held, cm) ==
  IF HasRoomFor(held, 1)
  THEN [tree |-> Appended(held, cm, FALSE), code |-> "OK"]
  ELSE [tree |-> held, code |-> "TREE_FULL"]

-----------------------------------------------------------------------------
Init ==
  /\ tree = {EmptyTree}
  /\ store = [commitments |-> <<>>, roots |-> <<TreeRoot(EmptyTree)>>, nullifiers |-> {}]
  /\ verified = {}
  /\ task = Idle
  /\ accepted = TRUE
  /\ log = <<Entry(<<>>, TreeRoot(EmptyTree), {})>>

(* grdzk_bundle_verify, at any time, by any thread.                        *)
Verify(bundle, sighash) ==
  /\ IF BundleVerifyCode(bundle, sighash) = "Ok"
     THEN verified' = verified \cup {Effects(bundle)} /\ UNCHANGED accepted
     ELSE accepted' = FALSE /\ UNCHANGED verified
  /\ UNCHANGED <<tree, store, task, log>>

(* Deviation: one anchor fewer than the window holds.                      *)
RecentRootsShort(roots) ==
  {roots[i] : i \in {j \in DOMAIN roots : j + Capacity > Len(roots) + 1}}
RecentRoots(roots) ==
  {roots[i] : i \in {j \in DOMAIN roots : j + Capacity > Len(roots)}}

(* Deviation: the room in the tree is left to grdzk_tree_append.           *)
FitsWithoutRoom(effects) ==
  /\ effects.anchor \in RecentRoots(store.roots)
  /\ \A i, j \in DOMAIN effects.nfs : effects.nfs[i] = effects.nfs[j] => i = j
  /\ \A i \in DOMAIN effects.nfs : effects.nfs[i] \notin store.nullifiers
(* The node's checks against its own state, in the order of Ledger::verify. *)
Fits(effects) ==
  /\ HasRoomFor(Held, NumActions)
  /\ effects.anchor \in RecentRoots(store.roots)
  /\ \A i, j \in DOMAIN effects.nfs : effects.nfs[i] = effects.nfs[j] => i = j
  /\ \A i \in DOMAIN effects.nfs : effects.nfs[i] \notin store.nullifiers

(* The owner of the tree takes up a verified transfer.                     *)
Admit(effects) ==
  /\ tree # {} /\ task = Idle
  /\ verified' = verified \ {effects}
  /\ IF Fits(effects)
     THEN /\ task' = [stage |-> "append", cms |-> effects.cms, added |-> effects.cms,
                      nfs |-> effects.nfs, under |-> {effects.anchor}]
          /\ UNCHANGED accepted
     ELSE accepted' = FALSE /\ UNCHANGED task
  /\ UNCHANGED <<tree, store, log>>

(* A creation: grdzk_tree_size gives the position, which the commitment is
   computed with in a call of its own.                                     *)
AskSize(creation) ==
  /\ tree # {} /\ task = Idle
  /\ task' = [stage |-> "sized", creation |-> creation, position |-> Size(Held)]
  /\ UNCHANGED <<tree, store, verified, accepted, log>>

Commit ==
  /\ task.stage = "sized"
  /\ task' = IF Openable(task.creation)
             THEN LET cm == CreationCommitment(task.creation, task.position)
                  IN  [stage |-> "append", cms |-> <<cm>>, added |-> <<cm>>,
                       nfs |-> <<>>, under |-> {}]
             ELSE Idle
  /\ UNCHANGED <<tree, store, verified, accepted, log>>

(* One grdzk_tree_append for each note; the node gives up on an error.     *)
AppendOne ==
  /\ task.stage = "append" /\ task.cms # <<>>
  /\ LET result == TreeAppend(Held, Head(task.cms))
     IN  /\ tree' = {result.tree}
         /\ IF result.code = "OK"
            THEN task' = [task EXCEPT !.cms = Tail(@)] /\ UNCHANGED accepted
            ELSE task' = Idle /\ accepted' = FALSE
  /\ UNCHANGED <<store, verified, log>>

(* grdzk_tree_checkpoint, once per transaction.                            *)
Checkpoint ==
  /\ task.stage = "append" /\ task.cms = <<>>
  /\ tree' = {Checkpointed(Held)}
  /\ task' = [task EXCEPT !.stage = "store"]
  /\ UNCHANGED <<store, verified, accepted, log>>

(* grdzk_tree_root, and one transaction of the database with all of it.    *)
Store ==
  /\ task.stage = "store"
  /\ store' = [commitments |-> store.commitments \o task.added,
               roots |-> Append(store.roots, TreeRoot(Held)),
               nullifiers |-> store.nullifiers \cup Elements(task.nfs)]
  /\ log' = Append(log, Entry(task.nfs, TreeRoot(Held), task.under))
  /\ accepted' = TRUE
  /\ task' = Idle
  /\ UNCHANGED <<tree, verified>>

(* The process ends: what it had in memory is gone.                        *)
Crash ==
  /\ tree' = {} /\ verified' = {} /\ task' = Idle
  /\ UNCHANGED <<store, accepted, log>>

(* grdzk_tree_new, then the stored commitments one by one.                 *)
Restart ==
  /\ tree = {}
  /\ tree' = {EmptyTree}
  /\ task' = [stage |-> "rebuild", cms |-> store.commitments]
  /\ UNCHANGED <<store, verified, accepted, log>>

Rebuild ==
  /\ task.stage = "rebuild"
  /\ IF task.cms = <<>>
     THEN task' = Idle /\ UNCHANGED tree
     ELSE /\ tree' = {TreeAppend(Held, Head(task.cms)).tree}
          /\ task' = [task EXCEPT !.cms = Tail(@)]
  /\ UNCHANGED <<store, verified, accepted, log>>

Next ==
  \/ \E bundle \in Bundle, sighash \in Sighash : Verify(bundle, sighash)
  \/ \E effects \in verified : Admit(effects)
  \/ \E creation \in Creation : AskSize(creation)
  \/ Commit \/ AppendOne \/ Checkpoint \/ Store
  \/ Crash \/ Restart \/ Rebuild

Spec == Init /\ [][Next]_vars

(* What the owner of the tree does of its own accord: it is one program, in
   which every call of the interface returns, with a code if need be, and is
   followed by the next; a node that stopped is started again.  Nothing says
   that a transfer or a creation arrives, or that the process never ends.  *)
OwnerStep == Commit \/ AppendOne \/ Checkpoint \/ Store \/ Restart \/ Rebuild
FairSpec == Spec /\ WF_vars(OwnerStep)

-----------------------------------------------------------------------------
(* There is at most one tree, never with more notes than it may hold, and
   no task without it.                                                     *)
TypeOK ==
  /\ Cardinality(tree) <= 1
  /\ \A held \in tree : Size(held) <= MAX_NOTES
  /\ task.stage \in {"idle", "sized", "append", "store", "rebuild"}
  /\ tree = {} => task = Idle

(* Whenever the node is between two transactions, its tree is the one the
   database describes, however often it stopped and rebuilt it, and after
   refused appends (grdzk_tree_append, "rebuilds it at startup").          *)
TreeIsStored ==
  tree # {} /\ task.stage \in {"idle", "sized"} =>
    /\ TreeRoot(Held) = store.commitments
    /\ TreeRoot(Held) = store.roots[Len(store.roots)]

(* "rho comes from the position, so identical creations stay distinct"
   (grdzk_creation_commitment, gradido_blockchain_zk.h): no two creations of
   the stored tree share a commitment, and each was computed for the place
   it stands at.                                                           *)
CreationsStayDistinct ==
  \A i \in DOMAIN store.commitments :
    "creation" \in DOMAIN store.commitments[i] =>
      /\ store.commitments[i].rho = i - 1
      /\ \A j \in DOMAIN store.commitments :
           store.commitments[j] = store.commitments[i] => j = i

(* With calls of its own for every step, verification ahead of time and
   stops in between, the node still keeps what Ledger keeps in one call: a
   log of whole transactions, each good when it is taken up.  What it may
   not refuse is NodeAcceptsExactly's.                                     *)
Promise == INSTANCE ShieldedLog WITH
  Commitment <- {CreationCommitment(c, p) : c \in Creation, p \in 0..MAX_NOTES}
ImplementsShieldedLog == Promise!Spec

(* Nothing is refused without reason, in either of the calls that Ledger
   makes one of: a verified transfer is taken up exactly if the log, as it
   is by then, takes a bundle with these effects; and an append is refused
   to creations alone, and only by a full tree (Ledger::verify,
   grdzk_tree_append).                                                     *)
NodeAcceptsExactly ==
  [][ /\ \A effects \in verified \ verified' :
           tree' # {} =>
             (task' # Idle
                <=> \E bundle \in Bundle, sighash \in Sighash :
                      /\ bundle.anchor = effects.anchor
                      /\ Promise!Nullifiers(bundle) = effects.nfs
                      /\ Promise!Commitments(bundle) = effects.cms
                      /\ Promise!Acceptable(bundle, sighash))
      /\ task.stage = "append" /\ task' = Idle /\ tree' # {} =>
           /\ task.nfs = <<>>
           /\ Len(Promise!LastRoot) + 1 > MAX_NOTES ]_vars

(* What the node took up it carries through: the nullifiers of an admitted
   transfer get into the database, unless the process ends before they are
   there.  None of its appends may be refused, since nothing takes back
   those that were made (ffi.rs has no call for it).                       *)
AdmittedIsStored ==
  \A bundle \in Bundle : \A i \in DOMAIN bundle.actions :
    LET nf == bundle.actions[i].nullifier
    IN  (task.stage = "append" /\ nf \in Elements(task.nfs))
          ~> (nf \in store.nullifiers \/ tree = {})
=============================================================================
