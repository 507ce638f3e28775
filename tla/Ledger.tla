------------------------------- MODULE Ledger -------------------------------
(***************************************************************************)
(* The ledger a node keeps for one community: struct Ledger of             *)
(* src/bundle.rs with the commitment tree, the anchor history and the      *)
(* nullifier set of src/tree.rs.  Its calls take &mut self, so each is one *)
(* step; the calls of different clients come in any order, and a bundle    *)
(* may be handed in again, late, or never.                                 *)
(*                                                                         *)
(* What the proof and the signatures of a bundle say is a parameter:       *)
(* VerifyBundleCrypto(bundle, sighash) is "Ok" or the error.               *)
(***************************************************************************)
EXTENDS Naturals, Sequences, FiniteSets, CommitmentTree

CONSTANTS
  Commitment,                 (* Note commitments.                         *)
  Nullifier,                  (* Nullifiers.                               *)
  Bundle,                     (* The bundles that may be handed in.        *)
  Sighash,                    (* The hashes they are checked under.        *)
  VerifyBundleCrypto(_, _),
  NumActions,                 (* bundle::ACTIONS, 2 in the code.           *)
  Capacity                    (* bundle::ANCHOR_HISTORY, 20000 in the code *)

VARIABLES
  tree,         (* Ledger.tree                                             *)
  roots, counts,(* Ledger.anchors, an AnchorHistory                        *)
  nullifiers,   (* Ledger.nullifiers                                       *)
  outcome,      (* what the last call returned, or "panic"                 *)
  log           (* history: an Entry for every accepted transaction        *)

Anchors == INSTANCE AnchorHistory WITH Root <- Seq(Commitment)

anchors == <<roots, counts>>
state == <<tree, roots, counts, nullifiers>>
vars == <<tree, roots, counts, nullifiers, outcome, log>>

NullifiersOf(bundle) == [i \in DOMAIN bundle.actions |-> bundle.actions[i].nullifier]
CommitmentsOf(bundle) == [i \in DOMAIN bundle.actions |-> bundle.actions[i].cm]
Elements(seq) == {seq[i] : i \in DOMAIN seq}

ASSUME ParameterAssumption == {NumActions, Capacity} \subseteq Nat \ {0}
ASSUME BundleAssumption ==
  \A bundle \in Bundle :
    /\ NullifiersOf(bundle) \in Seq(Nullifier)
    /\ CommitmentsOf(bundle) \in Seq(Commitment)
    /\ DOMAIN bundle.actions = 1..Len(bundle.actions)
ASSUME CryptoAssumption ==
  \A bundle \in Bundle, sighash \in Sighash :
    VerifyBundleCrypto(bundle, sighash) \in {"Ok", "WrongActionCount", "SpendAuth", "Binding", "Proof"}

(* Deviation: two actions of one bundle are not compared.                  *)
InsertableUnlessSpent(spent, nfs) == Elements(nfs) \cap spent = {}
(* NullifierSet::insert_all succeeds: nothing spent before, nothing twice. *)
Insertable(spent, nfs) ==
  /\ \A i \in DOMAIN nfs : nfs[i] \notin spent
  /\ \A i, j \in DOMAIN nfs : nfs[i] = nfs[j] => i = j

(* Deviations: verify without one of its checks, the anchor or the room.   *)
VerifyWithoutAnchor(bundle, sighash) ==
  IF Len(bundle.actions) # NumActions \/ Len(bundle.spend_auth_sigs) # NumActions
  THEN "WrongActionCount"
  ELSE IF ~HasRoomFor(tree, NumActions) THEN "TreeFull"
  ELSE IF ~Insertable(nullifiers, NullifiersOf(bundle)) THEN "DoubleSpend"
  ELSE VerifyBundleCrypto(bundle, sighash)

VerifyWithoutRoom(bundle, sighash) ==
  IF Len(bundle.actions) # NumActions \/ Len(bundle.spend_auth_sigs) # NumActions
  THEN "WrongActionCount"
  ELSE IF ~Anchors!Contains(bundle.anchor) THEN "UnknownAnchor"
  ELSE IF ~Insertable(nullifiers, NullifiersOf(bundle)) THEN "DoubleSpend"
  ELSE VerifyBundleCrypto(bundle, sighash)

(* Ledger::verify, the checks in the order of the code: the nullifiers
   first against each other (a probe set), then against the spent ones.    *)
Verify(bundle, sighash) ==
  IF Len(bundle.actions) # NumActions \/ Len(bundle.spend_auth_sigs) # NumActions
  THEN "WrongActionCount"
  ELSE IF ~HasRoomFor(tree, NumActions) THEN "TreeFull"
  ELSE IF ~Anchors!Contains(bundle.anchor) THEN "UnknownAnchor"
  ELSE IF \/ ~Insertable({}, NullifiersOf(bundle))
          \/ \E i \in DOMAIN bundle.actions : bundle.actions[i].nullifier \in nullifiers
  THEN "DoubleSpend"
  ELSE VerifyBundleCrypto(bundle, sighash)

(* What the history keeps of a transaction: its nullifiers, the root it
   left, and the anchor it was verified under; a creation has none.        *)
Entry(nfs, root, under) == [nfs |-> nfs, root |-> root, under |-> under]

(* Ledger::new: the empty tree's root is the first anchor.                 *)
Init ==
  /\ tree = EmptyTree
  /\ roots = <<TreeRoot(EmptyTree)>>
  /\ counts = [root \in {TreeRoot(EmptyTree)} |-> 1]
  /\ nullifiers = {}
  /\ outcome = "Ok"
  /\ log = <<Entry(<<>>, TreeRoot(EmptyTree), {})>>

(* Deviation: the root is taken before the appends.                        *)
SealTooEarly(newTree, nfs, under) ==
  /\ tree' = Checkpointed(newTree)
  /\ Anchors!Push(TreeRoot(tree))
  /\ log' = Append(log, Entry(nfs, TreeRoot(newTree), under))

(* A transaction is through: seal the tree and accept its root.            *)
Seal(newTree, nfs, under) ==
  /\ tree' = Checkpointed(newTree)
  /\ Anchors!Push(TreeRoot(newTree))
  /\ log' = Append(log, Entry(nfs, TreeRoot(newTree), under))

(* Ledger::add_note, for a note from outside a bundle.                     *)
AddNote(cm) ==
  IF HasRoomFor(tree, 1)
  THEN /\ Seal(Appended(tree, cm, TRUE), <<>>, {})
       /\ outcome' = "Ok"
       /\ UNCHANGED nullifiers
  ELSE /\ outcome' = "TreeFull"
       /\ UNCHANGED <<tree, anchors, nullifiers, log>>

(* Ledger::apply after verify: insert_all may still refuse, then the
   appends, whose `expect` unwinds with what was done so far left behind.  *)
Write(bundle) ==
  LET nfs     == NullifiersOf(bundle)
      newTree == AppendedAll(tree, CommitmentsOf(bundle))
  IN  IF ~Insertable(nullifiers, nfs)
      THEN /\ outcome' = "DoubleSpend"
           /\ UNCHANGED <<tree, anchors, nullifiers, log>>
      ELSE /\ nullifiers' = nullifiers \cup Elements(nfs)
           /\ IF Size(newTree) = Size(tree) + Len(nfs)
              THEN Seal(newTree, nfs, {bundle.anchor}) /\ outcome' = "Ok"
              ELSE tree' = newTree /\ outcome' = "panic" /\ UNCHANGED <<anchors, log>>

Apply(bundle, sighash) ==
  IF Verify(bundle, sighash) = "Ok"
  THEN Write(bundle)
  ELSE /\ outcome' = Verify(bundle, sighash)
       /\ UNCHANGED <<tree, anchors, nullifiers, log>>

Next ==
  \/ \E cm \in Commitment : AddNote(cm)
  \/ \E bundle \in Bundle, sighash \in Sighash : Apply(bundle, sighash)

Spec == Init /\ [][Next]_vars

-----------------------------------------------------------------------------
SpentIn(entry) == Elements(entry.nfs)
RecentRoots == {log[i].root : i \in {j \in DOMAIN log : j + Capacity > Len(log)}}

(* Without "panic": the `expect` of `apply` never fires.                   *)
Outcomes == {"Ok", "WrongActionCount", "TreeFull", "UnknownAnchor",
             "DoubleSpend", "Proof", "SpendAuth", "Binding"}

(* The parts of the ledger keep their types, the anchor history its bound,
   and no call unwinds half done.                                          *)
TypeOK ==
  /\ tree \in [leaves : Seq(Commitment), marked : SUBSET Nat, checkpoints : Nat]
  /\ Anchors!TypeOK
  /\ nullifiers \subseteq Nullifier
  /\ outcome \in Outcomes
  /\ log \in Seq([nfs : Seq(Nullifier), root : Seq(Commitment),
                 under : SUBSET Seq(Commitment)])

(* No nullifier stands twice in all that was ever accepted, neither in two
   transactions nor in two actions of one (Ledger::verify, insert_all).    *)
NoDoubleSpend ==
  \A i, k \in DOMAIN log : \A j \in DOMAIN log[i].nfs, l \in DOMAIN log[k].nfs :
    log[i].nfs[j] = log[k].nfs[l] => i = k /\ j = l

(* Exactly the roots after the last Capacity transactions are accepted as
   anchors, whatever was rejected in between (Ledger::add_note and apply,
   AnchorHistory::push).                                                   *)
AnchorWindow == \A root \in RecentRoots \cup Elements(roots) \cup DOMAIN counts :
  Anchors!Contains(root) <=> root \in RecentRoots

(* What the ledger keeps is what its accepted transactions add up to: the
   last root, every nullifier, one checkpoint and one queued root each.    *)
StateFollowsLog ==
  /\ TreeRoot(tree) = log[Len(log)].root
  /\ Size(tree) <= MAX_NOTES
  /\ tree.checkpoints + 1 = Len(log)
  /\ nullifiers = UNION {SpentIn(log[i]) : i \in DOMAIN log}
  /\ Len(roots) = IF Len(log) <= Capacity THEN Len(log) ELSE Capacity
  /\ \A i \in DOMAIN roots : roots[i] = log[Len(log) - Len(roots) + i].root

(* "Every check runs in `verify`, so nothing below can fail halfway"
   (src/bundle.rs, Ledger::apply): a call that does not end with Ok has
   changed nothing.                                                        *)
AllOrNothing == [][outcome' # "Ok" => UNCHANGED state]_vars

(* The abstract ledger: only the log of the accepted transactions.         *)
Promise == INSTANCE ShieldedLog WITH accepted <- (outcome = "Ok")

(* verify, which looks at a set, a queue's hash map and the tree's size,
   lets a bundle through exactly when the log of what was accepted so far
   says it is good: nothing wrong is accepted, nothing good is refused.    *)
AcceptsExactly ==
  \A bundle \in Bundle, sighash \in Sighash :
    Verify(bundle, sighash) = "Ok" <=> Promise!Acceptable(bundle, sighash)

(* Every behaviour of the ledger is one of the abstract log: it grows by
   whole transactions, each under an anchor, with nullifiers and with room
   as the log itself defines them.                                         *)
ImplementsShieldedLog == Promise!Spec
=============================================================================
