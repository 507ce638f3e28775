----------------------------- MODULE Ffi_proofs -----------------------------
(***************************************************************************)
(* Proofs about the two halves of the C interface.                         *)
(*                                                                         *)
(* NodeFfi, for every size of tree, window and bundle, and however often   *)
(* the node stops: what is left of a transaction after each of its calls   *)
(* is known from the database and the task at hand.                        *)
(*                                                                         *)
(* SkeletonFfi, for any number of threads, any heap and any arguments: no  *)
(* call that fails, panics or is repeated loses a buffer or leaves a       *)
(* caller with one that is gone, and every code is the one promised.       *)
(***************************************************************************)
EXTENDS NodeFfi, SkeletonFfi, Basics, FiniteSetTheorems

Note ==
  {CreationCommitment(c, p) : c \in Creation, p \in Nat}
  \cup UNION {{bundle.actions[i].cm : i \in DOMAIN bundle.actions} : bundle \in Bundle}
NoteNullifier ==
  UNION {{bundle.actions[i].nullifier : i \in DOMAIN bundle.actions} : bundle \in Bundle}
Anchor == {bundle.anchor : bundle \in Bundle}

TreeType == [leaves : Seq(Note), marked : SUBSET Nat, checkpoints : Nat]
StoreType == [commitments : Seq(Note), roots : Seq(Seq(Note)), nullifiers : SUBSET NoteNullifier]
EntryType == [nfs : Seq(NoteNullifier), root : Seq(Note), under : SUBSET Anchor]

(* There is a tree, and these are its leaves.                              *)
TreeHolds(leaves) ==
  \E held \in TreeType : tree = {held} /\ held.leaves = leaves /\ Len(leaves) <= MAX_NOTES

Verifies(bundle) == \E sighash \in Sighash : BundleVerifyCode(bundle, sighash) = "Ok"

(* A bundle that the node's checks let through.                            *)
Admissible(bundle) ==
  /\ Verifies(bundle)
  /\ Len(store.commitments) + NumActions <= MAX_NOTES
  /\ bundle.anchor \in RecentRoots(store.roots)
  /\ \A i, j \in DOMAIN bundle.actions :
       bundle.actions[i].nullifier = bundle.actions[j].nullifier => i = j
  /\ \A i \in DOMAIN bundle.actions : bundle.actions[i].nullifier \notin store.nullifiers

(* What the node may be adding: an admissible bundle's notes, or a creation
   computed for the next place.                                            *)
IsTransfer(added, nfs, under) ==
  \E bundle \in Bundle :
    /\ Admissible(bundle)
    /\ added = Effects(bundle).cms /\ nfs = Effects(bundle).nfs /\ under = {bundle.anchor}
IsCreation(added, nfs, under) ==
  \E c \in Creation :
    /\ added = <<CreationCommitment(c, Len(store.commitments))>>
    /\ nfs = <<>> /\ under = {}
Taken(added, nfs, under) == IsTransfer(added, nfs, under) \/ IsCreation(added, nfs, under)

Adding(stage, cms, added, nfs, under) ==
  [stage |-> stage, cms |-> cms, added |-> added, nfs |-> nfs, under |-> under]

(* The tree is what the stages of the task have left to do short of what
   the database will hold.                                                 *)
AtIdle == task = Idle /\ (tree = {} \/ TreeHolds(store.commitments))
AtSized ==
  \E c \in Creation :
    /\ task = [stage |-> "sized", creation |-> c, position |-> Len(store.commitments)]
    /\ TreeHolds(store.commitments)
AtAppend ==
  \E cms, added, leaves \in Seq(Note) : \E nfs, under :
    /\ task = Adding("append", cms, added, nfs, under)
    /\ Taken(added, nfs, under)
    /\ TreeHolds(leaves) /\ leaves \o cms = store.commitments \o added
AtStore ==
  \E added \in Seq(Note) : \E nfs, under :
    /\ task = Adding("store", <<>>, added, nfs, under)
    /\ Taken(added, nfs, under)
    /\ TreeHolds(store.commitments \o added)
AtRebuild ==
  \E cms \in Seq(Note), leaves \in Seq(Note) :
    /\ task = [stage |-> "rebuild", cms |-> cms]
    /\ TreeHolds(leaves) /\ leaves \o cms = store.commitments

StageInv == AtIdle \/ AtSized \/ AtAppend \/ AtStore \/ AtRebuild

(* The database is what the log adds up to.                                *)
StoreInv ==
  /\ store \in StoreType /\ log \in Seq(EntryType) /\ log # <<>>
  /\ Len(store.roots) = Len(log)
  /\ \A i \in DOMAIN log : store.roots[i] = log[i].root
  /\ store.roots[Len(store.roots)] = store.commitments
  /\ store.nullifiers = UNION {Elements(log[i].nfs) : i \in DOMAIN log}
  /\ Len(store.commitments) <= MAX_NOTES
  /\ \A i \in DOMAIN store.commitments :
       "creation" \in DOMAIN store.commitments[i] => store.commitments[i].rho = i - 1

VerifiedInv == \A effects \in verified :
  \E bundle \in Bundle : Verifies(bundle) /\ effects = Effects(bundle)

(* The inductive invariant.                                                *)
NInv == StoreInv /\ StageInv /\ VerifiedInv /\ accepted \in BOOLEAN

-----------------------------------------------------------------------------
(* The tree behind the handle is the one there is.                         *)
LEMMA HeldIsTheTree ==
  ASSUME NEW held, tree = {held}
  PROVE  Held = held
BY DEF Held

(* What grdzk_bundle_verify writes has a nullifier and a commitment of each
   action.                                                                 *)

LEMMA EffectsTyped ==
  ASSUME NEW bundle \in Bundle
  PROVE  /\ Effects(bundle).cms \in Seq(Note)
         /\ Len(Effects(bundle).cms) = Len(bundle.actions)
         /\ Effects(bundle).nfs \in Seq(NoteNullifier)
         /\ Len(Effects(bundle).nfs) = Len(bundle.actions)
         /\ bundle.anchor \in Anchor
         /\ \A i \in 1..Len(bundle.actions) :
              /\ Effects(bundle).cms[i] = bundle.actions[i].cm
              /\ Effects(bundle).nfs[i] = bundle.actions[i].nullifier
<1> DEFINE n == Len(bundle.actions)
           cms == [i \in DOMAIN bundle.actions |-> bundle.actions[i].cm]
           nfs == [i \in DOMAIN bundle.actions |-> bundle.actions[i].nullifier]
<1>1. n \in Nat /\ DOMAIN bundle.actions = 1..n
  BY BundleAssumption
<1>2. cms \in [1..n -> Note] /\ nfs \in [1..n -> NoteNullifier]
  BY <1>1 DEF Note, NoteNullifier
<1>3. cms \in Seq(Note) /\ nfs \in Seq(NoteNullifier)
  BY <1>1, <1>2, SeqDef
<1>4. Len(cms) = n /\ Len(nfs) = n
  BY <1>1, <1>2, <1>3, LenProperties
<1> QED
  BY <1>1, <1>3, <1>4 DEF Effects, Anchor

(* An append to a tree with room, and to a full one.                       *)
LEMMA AppendIntoRoom ==
  ASSUME NEW held \in TreeType, NEW cm \in Note, Len(held.leaves) <= MAX_NOTES
  PROVE  LET result == TreeAppend(held, cm)
         IN  IF Len(held.leaves) + 1 <= MAX_NOTES
             THEN /\ result.code = "OK" /\ result.tree \in TreeType
                  /\ result.tree.leaves = Append(held.leaves, cm)
                  /\ Len(result.tree.leaves) <= MAX_NOTES
             ELSE result.code = "TREE_FULL" /\ result.tree = held
<1>1. /\ held.leaves \in Seq(Note) /\ Len(held.leaves) \in Nat
      /\ Append(held.leaves, cm) \in Seq(Note)
      /\ Len(Append(held.leaves, cm)) = Len(held.leaves) + 1
  BY AppendProperties, LenProperties DEF TreeType
<1> QED
  BY <1>1 DEF TreeAppend, Appended, HasRoomFor, Size, TreeType

(* The notes of the last transaction, put behind those of the log.         *)
LEMMA MovesOver ==
  ASSUME NEW S, NEW leaves \in Seq(S), NEW cms \in Seq(S), cms # <<>>
  PROVE  /\ Head(cms) \in S /\ Tail(cms) \in Seq(S)
         /\ Append(leaves, Head(cms)) \in Seq(S)
         /\ Append(leaves, Head(cms)) \o Tail(cms) = leaves \o cms
         /\ Len(leaves \o cms) = Len(leaves) + Len(cms)
         /\ Len(leaves) + 1 <= Len(leaves \o cms)
<1>1. /\ Head(cms) \in S /\ Tail(cms) \in Seq(S) /\ Head(cms) = cms[1]
      /\ Len(cms) \in Nat \ {0} /\ Len(leaves) \in Nat
  BY HeadTailProperties, EmptySeq, LenProperties
<1>2. <<Head(cms)>> \o Tail(cms) = cms
  <2>1. SubSeq(cms, 1, Len(cms)) = <<cms[1]>> \o SubSeq(cms, 1 + 1, Len(cms))
    BY <1>1, SubSeqRecursiveFirst
  <2> QED
    BY <2>1, <1>1, SubSeqFull, TailIsSubSeq
<1>3. <<Head(cms)>> \in Seq(S)
  BY <1>1
<1>4. Append(leaves, Head(cms)) = leaves \o <<Head(cms)>>
  BY <1>1, AppendIsConcat
<1>5. Append(leaves, Head(cms)) \o Tail(cms) = leaves \o cms
  BY <1>1, <1>2, <1>3, <1>4, ConcatAssociative
<1>6. Append(leaves, Head(cms)) \in Seq(S) /\ Len(leaves \o cms) = Len(leaves) + Len(cms)
  BY <1>1, AppendProperties, ConcatProperties
<1> QED
  BY <1>1, <1>5, <1>6

-----------------------------------------------------------------------------
(* Steps that leave the database alone keep what it holds, and what may be
   added to it.                                                            *)

LEMMA StoreUnchanged ==
  ASSUME StoreInv, UNCHANGED <<store, log>>
  PROVE  /\ StoreInv'
         /\ \A bundle \in Bundle : Admissible(bundle) => Admissible(bundle)'
         /\ \A added, nfs, under : Taken(added, nfs, under) => Taken(added, nfs, under)'
<1>1. StoreInv'
  BY DEF StoreInv
<1>2. \A bundle \in Bundle : Admissible(bundle) => Admissible(bundle)'
  BY DEF Admissible, Verifies, BundleVerifyCode, RecentRoots
<1>3. \A added, nfs, under : Taken(added, nfs, under) => Taken(added, nfs, under)'
  BY <1>2 DEF Taken, IsTransfer, IsCreation
<1> QED
  BY <1>1, <1>2, <1>3

(* A task at a stage is at no other.                                       *)
LEMMA StageIsOne ==
  ASSUME StageInv
  PROVE  /\ task = Idle => AtIdle
         /\ task.stage = "sized" => AtSized
         /\ task.stage = "append" => AtAppend
         /\ task.stage = "store" => AtStore
         /\ task.stage = "rebuild" => AtRebuild
         /\ tree = {} => task = Idle
<1>1. CASE AtIdle
  BY <1>1 DEF AtIdle, Idle
<1>2. CASE AtSized
  <2>1. task.stage = "sized" /\ tree # {}
    BY <1>2 DEF AtSized, TreeHolds
  <2> QED
    BY <1>2, <2>1 DEF Idle
<1>3. CASE AtAppend
  <2>1. task.stage = "append" /\ tree # {}
    BY <1>3 DEF AtAppend, Adding, TreeHolds
  <2> QED
    BY <1>3, <2>1 DEF Idle
<1>4. CASE AtStore
  <2>1. task.stage = "store" /\ tree # {}
    BY <1>4 DEF AtStore, Adding, TreeHolds
  <2> QED
    BY <1>4, <2>1 DEF Idle
<1>5. CASE AtRebuild
  <2>1. task.stage = "rebuild" /\ tree # {}
    BY <1>5 DEF AtRebuild, TreeHolds
  <2> QED
    BY <1>5, <2>1 DEF Idle
<1> QED
  BY <1>1, <1>2, <1>3, <1>4, <1>5 DEF StageInv

(* NInv holds in the beginning.                                            *)
LEMMA InitNInv == Init => NInv
<1> SUFFICES ASSUME Init PROVE NInv
  OBVIOUS
<1>1. <<>> \in Seq(Note) /\ <<>> \in Seq(NoteNullifier) /\ Len(<<>>) = 0
  BY EmptySeq
<1>2. EmptyTree \in TreeType /\ EmptyTree.leaves = <<>> /\ TreeRoot(EmptyTree) = <<>>
  BY <1>1 DEF EmptyTree, TreeType, TreeRoot
<1>3. StoreInv
  <2>1. store \in StoreType
    BY <1>1, <1>2 DEF Init, StoreType
  <2>2. log \in Seq(EntryType) /\ log # <<>> /\ Len(log) = 1 /\ DOMAIN log = {1}
        /\ log[1].root = <<>> /\ log[1].nfs = <<>>
    BY <1>1, <1>2 DEF Init, Entry, EntryType
  <2>3. /\ Len(store.roots) = 1 /\ store.roots[1] = <<>> /\ store.commitments = <<>>
        /\ store.nullifiers = {} /\ DOMAIN store.commitments = {}
    BY <1>2 DEF Init
  <2>4. UNION {Elements(log[i].nfs) : i \in DOMAIN log} = {}
    BY <2>2 DEF Elements
  <2> QED
    BY <1>1, <2>1, <2>2, <2>3, <2>4, MaxNotesAssumption DEF StoreInv
<1>4. StageInv
  BY <1>1, <1>2, MaxNotesAssumption DEF Init, StageInv, AtIdle, TreeHolds
<1> QED
  BY <1>3, <1>4 DEF Init, NInv, VerifiedInv

-----------------------------------------------------------------------------
(* The steps, one by one.                                                  *)
LEMMA VerifyNInv ==
  ASSUME NInv, NEW bundle \in Bundle, NEW sighash \in Sighash, Verify(bundle, sighash)
  PROVE  NInv'
<1>1. StoreInv' /\ \A added, nfs, under : Taken(added, nfs, under) => Taken(added, nfs, under)'
  BY StoreUnchanged DEF NInv, Verify
<1>2. StageInv'
  BY <1>1 DEF NInv, Verify, StageInv, AtIdle, AtSized, AtAppend, AtStore, AtRebuild, TreeHolds
<1>3. VerifiedInv' /\ accepted' \in BOOLEAN
  BY DEF NInv, Verify, VerifiedInv, Verifies, BundleVerifyCode, Effects
<1> QED
  BY <1>1, <1>2, <1>3 DEF NInv

(* Taking up a verified bundle keeps NInv.                                 *)
LEMMA AdmitNInv ==
  ASSUME NInv, NEW effects \in verified, Admit(effects)
  PROVE  NInv'
<1>1. StoreInv' /\ \A added, nfs, under : Taken(added, nfs, under) => Taken(added, nfs, under)'
  BY StoreUnchanged DEF NInv, Admit
<1>2. VerifiedInv' /\ accepted' \in BOOLEAN
  BY DEF NInv, Admit, VerifiedInv, Verifies, BundleVerifyCode, Effects
<1>3. TreeHolds(store.commitments)
  BY StageIsOne DEF NInv, Admit, AtIdle
<1>4. ASSUME ~Fits(effects) PROVE StageInv'
  BY <1>3, <1>4 DEF Admit, StageInv, AtIdle, TreeHolds
<1>5. ASSUME Fits(effects) PROVE StageInv'
  <2>1. PICK bundle \in Bundle : Verifies(bundle) /\ effects = Effects(bundle)
    BY DEF NInv, VerifiedInv
  <2>2. /\ effects.cms \in Seq(Note) /\ effects.nfs \in Seq(NoteNullifier)
        /\ effects.anchor = bundle.anchor
        /\ DOMAIN effects.nfs = DOMAIN bundle.actions
        /\ \A i \in DOMAIN bundle.actions : effects.nfs[i] = bundle.actions[i].nullifier
    BY <2>1, EffectsTyped DEF Effects
  <2>3. Len(store.commitments) + NumActions <= MAX_NOTES
    <3>1. PICK held \in TreeType : tree = {held} /\ held.leaves = store.commitments
      BY <1>3 DEF TreeHolds
    <3> QED
      BY <3>1, <1>5, HeldIsTheTree DEF Fits, HasRoomFor, Size
  <2>4. Admissible(bundle)
    BY <2>1, <2>2, <2>3, <1>5 DEF Admissible, Fits
  <2>5. Taken(effects.cms, effects.nfs, {effects.anchor})
    BY <2>1, <2>2, <2>4 DEF Taken, IsTransfer
  <2>6. task' = Adding("append", effects.cms, effects.cms, effects.nfs, {effects.anchor})
    BY <1>5 DEF Admit, Adding
  <2>7. TreeHolds(store.commitments)' /\ store' = store
    BY <1>3 DEF Admit, TreeHolds
  <2>8. store.commitments \in Seq(Note)
    BY DEF NInv, StoreInv, StoreType
  <2>9. AtAppend'
    BY <1>1, <2>2, <2>5, <2>6, <2>7, <2>8 DEF AtAppend
  <2> QED
    BY <2>9 DEF StageInv
<1>6. StageInv'
  BY <1>4, <1>5
<1> QED
  BY <1>1, <1>2, <1>6 DEF NInv

(* Asking the tree for its size, before a creation, keeps NInv.            *)
LEMMA AskSizeNInv ==
  ASSUME NInv, NEW creation \in Creation, AskSize(creation)
  PROVE  NInv'
<1>1. StoreInv' /\ VerifiedInv' /\ accepted' \in BOOLEAN
  BY StoreUnchanged DEF NInv, AskSize, VerifiedInv, Verifies, BundleVerifyCode, Effects
<1>2. PICK held \in TreeType :
        tree = {held} /\ held.leaves = store.commitments /\ Len(store.commitments) <= MAX_NOTES
  BY StageIsOne DEF NInv, AskSize, AtIdle, TreeHolds
<1>3. task' = [stage |-> "sized", creation |-> creation, position |-> Len(store.commitments)]
  BY <1>2, HeldIsTheTree DEF AskSize, Size
<1>4. AtSized'
  BY <1>2, <1>3 DEF AskSize, AtSized, TreeHolds
<1> QED
  BY <1>1, <1>4 DEF NInv, StageInv

(* Writing to the database keeps NInv: what was written becomes the task
   of the calls that follow.                                               *)
LEMMA CommitNInv ==
  ASSUME NInv, Commit
  PROVE  NInv'
<1>1. StoreInv' /\ \A added, nfs, under : Taken(added, nfs, under) => Taken(added, nfs, under)'
  BY StoreUnchanged DEF NInv, Commit
<1>2. VerifiedInv' /\ accepted' \in BOOLEAN
  BY DEF NInv, Commit, VerifiedInv, Verifies, BundleVerifyCode, Effects
<1>3. AtSized
  BY StageIsOne DEF NInv, Commit
<1>4. PICK c \in Creation :
        task = [stage |-> "sized", creation |-> c, position |-> Len(store.commitments)]
  BY <1>3 DEF AtSized
<1>5. store.commitments \in Seq(Note) /\ Len(store.commitments) \in Nat
  BY LenProperties DEF NInv, StoreInv, StoreType
<1>6. ASSUME ~Openable(c) PROVE StageInv'
  BY <1>3, <1>4, <1>6 DEF Commit, AtSized, StageInv, AtIdle, TreeHolds
<1>7. ASSUME Openable(c) PROVE StageInv'
  <2> DEFINE cm == CreationCommitment(c, Len(store.commitments))
  <2>1. cm \in Note /\ <<cm>> \in Seq(Note)
    BY <1>5 DEF Note
  <2>2. task' = Adding("append", <<cm>>, <<cm>>, <<>>, {})
    BY <1>4, <1>7 DEF Commit, Adding
  <2>3. Taken(<<cm>>, <<>>, {})
    BY DEF Taken, IsCreation
  <2>4. TreeHolds(store.commitments)' /\ store' = store
    BY <1>3 DEF AtSized, Commit, TreeHolds
  <2> HIDE DEF cm
  <2>5. AtAppend'
    BY <1>1, <1>5, <2>1, <2>2, <2>3, <2>4 DEF AtAppend
  <2> QED
    BY <2>5 DEF StageInv
<1>8. StageInv'
  BY <1>6, <1>7
<1> QED
  BY <1>1, <1>2, <1>8 DEF NInv

-----------------------------------------------------------------------------
(* What a task adds: typed, of a bundle's length with room for it, or one;
   no creation among it that is not for the next place.                    *)

LEMMA TakenTyped ==
  ASSUME StoreInv, NEW added, NEW nfs, NEW under, Taken(added, nfs, under)
  PROVE  /\ added \in Seq(Note) /\ nfs \in Seq(NoteNullifier) /\ under \subseteq Anchor
         /\ \/ Len(added) = NumActions /\ Len(store.commitments) + NumActions <= MAX_NOTES
            \/ Len(added) = 1
         /\ \A i \in 1..Len(added) :
              "creation" \in DOMAIN added[i] => added[i].rho = Len(store.commitments) + i - 1
<1>1. store.commitments \in Seq(Note) /\ Len(store.commitments) \in Nat
  BY LenProperties DEF StoreInv, StoreType
<1>2. CASE IsTransfer(added, nfs, under)
  <2>1. PICK bundle \in Bundle :
          /\ Admissible(bundle)
          /\ added = Effects(bundle).cms /\ nfs = Effects(bundle).nfs /\ under = {bundle.anchor}
    BY <1>2 DEF IsTransfer
  <2>2. Len(bundle.actions) = NumActions
    BY <2>1 DEF Admissible, Verifies, BundleVerifyCode
  <2> QED
    BY <2>1, <2>2, EffectsTyped, BundleAssumption, SMTT(30) DEF Admissible
<1>3. CASE IsCreation(added, nfs, under)
  <2>1. PICK c \in Creation :
          /\ added = <<CreationCommitment(c, Len(store.commitments))>>
          /\ nfs = <<>> /\ under = {}
    BY <1>3 DEF IsCreation
  <2>2. CreationCommitment(c, Len(store.commitments)) \in Note
    BY <1>1 DEF Note
  <2>3. /\ Len(added) = 1 /\ added[1] = CreationCommitment(c, Len(store.commitments))
        /\ added \in Seq(Note) /\ nfs \in Seq(NoteNullifier)
    BY <2>1, <2>2, EmptySeq
  <2>4. added[1].rho = Len(store.commitments)
    BY <2>3 DEF CreationCommitment
  <2> QED
    BY <1>1, <2>1, <2>3, <2>4
<1> QED
  BY <1>2, <1>3 DEF Taken

(* Equal sequences have equal beginnings.                                  *)
LEMMA SameBeginning ==
  ASSUME NEW S, NEW a \in Seq(S), NEW b \in Seq(S), NEW c \in Seq(S), NEW d \in Seq(S),
         a \o b = c \o d, Len(a) = Len(c)
  PROVE  a = c
<1>1. Len(a) \in Nat /\ Len(b) \in Nat /\ Len(c) \in Nat /\ Len(d) \in Nat
  BY LenProperties
<1>2. \A i \in 1..Len(a) : (a \o b)[i] = a[i]
  BY <1>1, ConcatProperties
<1>3. \A i \in 1..Len(c) : (c \o d)[i] = c[i]
  BY <1>1, ConcatProperties
<1>4. \A i \in 1..Len(a) : a[i] = c[i]
  BY <1>2, <1>3
<1> QED
  BY <1>4, SeqEqual

(* A tree without room, short of the database's notes and one task.        *)
LEMMA NoRoomLeft ==
  ASSUME NEW leaves \in Nat, NEW left \in Nat, NEW stored \in Nat, NEW added \in Nat,
         NEW max \in Nat, NEW actions \in Nat,
         leaves + left = stored + added, left >= 1, leaves <= max, max < leaves + 1,
         stored <= max, (added = actions /\ stored + actions <= max) \/ added = 1
  PROVE  leaves = stored
OBVIOUS

(* Appending one commitment to the tree keeps NInv.                        *)
LEMMA AppendOneNInv ==
  ASSUME NInv, AppendOne
  PROVE  NInv'
<1>1. StoreInv' /\ \A added, nfs, under : Taken(added, nfs, under) => Taken(added, nfs, under)'
  BY StoreUnchanged DEF NInv, AppendOne
<1>2. VerifiedInv' /\ accepted' \in BOOLEAN
  BY DEF NInv, AppendOne, VerifiedInv, Verifies, BundleVerifyCode, Effects
<1>3. AtAppend
  BY StageIsOne DEF NInv, AppendOne
<1>4. PICK cms, added, leaves \in Seq(Note) : \E nfs, under :
        /\ task = Adding("append", cms, added, nfs, under)
        /\ Taken(added, nfs, under)
        /\ TreeHolds(leaves) /\ leaves \o cms = store.commitments \o added
  BY <1>3 DEF AtAppend
<1>5. PICK nfs, under :
        task = Adding("append", cms, added, nfs, under) /\ Taken(added, nfs, under)
  BY <1>4
<1>6. PICK held \in TreeType :
        tree = {held} /\ held.leaves = leaves /\ Len(leaves) <= MAX_NOTES
  BY <1>4 DEF TreeHolds
<1> DEFINE result == TreeAppend(held, Head(cms))
<1>7. cms # <<>> /\ tree' = {result.tree} /\ store' = store
      /\ task' = IF result.code = "OK" THEN Adding("append", Tail(cms), added, nfs, under)
                 ELSE Idle
  BY <1>5, <1>6, HeldIsTheTree DEF AppendOne, Adding
<1>8. /\ Head(cms) \in Note /\ Tail(cms) \in Seq(Note)
      /\ Append(leaves, Head(cms)) \in Seq(Note)
      /\ Append(leaves, Head(cms)) \o Tail(cms) = leaves \o cms
      /\ Len(leaves \o cms) = Len(leaves) + Len(cms)
      /\ Len(leaves) + 1 <= Len(leaves \o cms)
      /\ Len(leaves) \in Nat /\ Len(cms) \in Nat
  BY <1>7, MovesOver, LenProperties
<1>9. IF Len(leaves) + 1 <= MAX_NOTES
      THEN /\ result.code = "OK" /\ result.tree \in TreeType
           /\ result.tree.leaves = Append(leaves, Head(cms))
           /\ Len(result.tree.leaves) <= MAX_NOTES
      ELSE result.code = "TREE_FULL" /\ result.tree = held
  BY <1>6, <1>8, AppendIntoRoom
<1> HIDE DEF result
<1>10. ASSUME Len(leaves) + 1 <= MAX_NOTES
       PROVE  StageInv'
  <2>1. TreeHolds(Append(leaves, Head(cms)))'
    BY <1>7, <1>9, <1>10 DEF TreeHolds
  <2>2. task' = Adding("append", Tail(cms), added, nfs, under)
    BY <1>7, <1>9, <1>10
  <2>3. Taken(added, nfs, under)'
    BY <1>1, <1>5
  <2>4. AtAppend'
    BY <1>4, <1>7, <1>8, <2>1, <2>2, <2>3 DEF AtAppend
  <2> QED
    BY <2>4 DEF StageInv
<1>11. ASSUME ~(Len(leaves) + 1 <= MAX_NOTES)
       PROVE  StageInv'
  <2>1. /\ store.commitments \in Seq(Note) /\ Len(store.commitments) \in Nat
        /\ Len(store.commitments) <= MAX_NOTES /\ Len(added) \in Nat
        /\ Len(store.commitments \o added) = Len(store.commitments) + Len(added)
    BY LenProperties, ConcatProperties DEF NInv, StoreInv, StoreType
  <2>2. \/ Len(added) = NumActions /\ Len(store.commitments) + NumActions <= MAX_NOTES
        \/ Len(added) = 1
    BY <1>5, TakenTyped DEF NInv
  <2>3. Len(leaves) = Len(store.commitments)
    <3>1. Len(leaves) + Len(cms) = Len(store.commitments) + Len(added) /\ Len(cms) >= 1
      BY <1>4, <1>8, <2>1
    <3>2. Len(leaves) <= MAX_NOTES /\ MAX_NOTES < Len(leaves) + 1
      BY <1>6, <1>8, <1>11, MaxNotesAssumption
    <3>3. MAX_NOTES \in Nat /\ NumActions \in Nat
      BY MaxNotesAssumption, ParameterAssumption
    <3>4. Len(leaves) \in Nat /\ Len(cms) \in Nat /\ Len(store.commitments) \in Nat
          /\ Len(added) \in Nat /\ Len(store.commitments) <= MAX_NOTES
      BY <1>8, <2>1
    <3> QED
      BY <2>2, <3>1, <3>2, <3>3, <3>4, NoRoomLeft
  <2>4. leaves = store.commitments
    BY <1>4, <2>1, <2>3, SameBeginning
  <2>5. TreeHolds(store.commitments)'
    BY <1>6, <1>7, <1>9, <1>11, <2>4 DEF TreeHolds
  <2> QED
    BY <1>7, <1>9, <1>11, <2>5 DEF StageInv, AtIdle
<1> QED
  BY <1>1, <1>2, <1>10, <1>11 DEF NInv

(* The checkpoint after the last commitment keeps NInv.                    *)
LEMMA CheckpointNInv ==
  ASSUME NInv, Checkpoint
  PROVE  NInv'
<1>1. StoreInv' /\ \A added, nfs, under : Taken(added, nfs, under) => Taken(added, nfs, under)'
  BY StoreUnchanged DEF NInv, Checkpoint
<1>2. VerifiedInv' /\ accepted' \in BOOLEAN
  BY DEF NInv, Checkpoint, VerifiedInv, Verifies, BundleVerifyCode, Effects
<1>3. AtAppend
  BY StageIsOne DEF NInv, Checkpoint
<1>4. PICK cms, added, leaves \in Seq(Note) : \E nfs, under :
        /\ task = Adding("append", cms, added, nfs, under)
        /\ Taken(added, nfs, under)
        /\ TreeHolds(leaves) /\ leaves \o cms = store.commitments \o added
  BY <1>3 DEF AtAppend
<1>5. PICK nfs, under :
        task = Adding("append", cms, added, nfs, under) /\ Taken(added, nfs, under)
  BY <1>4
<1>6. PICK held \in TreeType :
        tree = {held} /\ held.leaves = leaves /\ Len(leaves) <= MAX_NOTES
  BY <1>4 DEF TreeHolds
<1>7. cms = <<>> /\ task' = Adding("store", <<>>, added, nfs, under)
  BY <1>5 DEF Checkpoint, Adding
<1>8. leaves = store.commitments \o added
  BY <1>4, <1>7, ConcatEmptySeq
<1>9. Checkpointed(held) \in TreeType /\ Checkpointed(held).leaves = leaves
  BY <1>6, SMTT(30) DEF Checkpointed, TreeType
<1>10. TreeHolds(store.commitments \o added)' /\ store' = store
  BY <1>6, <1>8, <1>9, HeldIsTheTree DEF Checkpoint, TreeHolds
<1>11. AtStore'
  BY <1>1, <1>5, <1>7, <1>10 DEF AtStore
<1> QED
  BY <1>1, <1>2, <1>11 DEF NInv, StageInv

(* One database transaction: one more entry of the log, with the notes, the
   root and the nullifiers of the task.                                    *)

LEMMA StoreKeepsStore ==
  ASSUME NInv, Store
  PROVE  StoreInv' /\ TreeHolds(store.commitments)' /\ task' = Idle
<1>1. AtStore
  BY StageIsOne DEF NInv, Store
<1>2. PICK added \in Seq(Note) : \E nfs, under :
        /\ task = Adding("store", <<>>, added, nfs, under)
        /\ Taken(added, nfs, under)
        /\ TreeHolds(store.commitments \o added)
  BY <1>1 DEF AtStore
<1>3. PICK nfs, under :
        task = Adding("store", <<>>, added, nfs, under) /\ Taken(added, nfs, under)
  BY <1>2
<1>4. PICK held \in TreeType :
        /\ tree = {held} /\ held.leaves = store.commitments \o added
        /\ Len(store.commitments \o added) <= MAX_NOTES
  BY <1>2 DEF TreeHolds
<1> DEFINE before == store.commitments
           after == before \o added
           e == Entry(nfs, after, under)
<1>5. /\ store' = [commitments |-> after, roots |-> Append(store.roots, after),
                   nullifiers |-> store.nullifiers \cup Elements(nfs)]
      /\ log' = Append(log, e) /\ task' = Idle /\ tree' = tree
  BY <1>3, <1>4, HeldIsTheTree DEF Store, Adding, TreeRoot
<1>6. /\ nfs \in Seq(NoteNullifier) /\ under \subseteq Anchor
      /\ \A i \in 1..Len(added) :
           "creation" \in DOMAIN added[i] => added[i].rho = Len(before) + i - 1
  BY <1>3, TakenTyped DEF NInv
<1>7. /\ before \in Seq(Note) /\ Len(before) \in Nat /\ DOMAIN before = 1..Len(before)
      /\ Len(added) \in Nat /\ after \in Seq(Note)
      /\ Len(after) = Len(before) + Len(added) /\ DOMAIN after = 1..Len(after)
      /\ \A i \in 1..Len(before) + Len(added) :
           after[i] = IF i <= Len(before) THEN before[i] ELSE added[i - Len(before)]
  BY ConcatProperties, LenProperties DEF NInv, StoreInv, StoreType
<1>8. /\ log \in Seq(EntryType) /\ Len(log) \in Nat \ {0} /\ DOMAIN log = 1..Len(log)
      /\ store.roots \in Seq(Seq(Note)) /\ Len(store.roots) = Len(log)
      /\ store.nullifiers \subseteq NoteNullifier
      /\ \A i \in DOMAIN log : store.roots[i] = log[i].root
      /\ store.nullifiers = UNION {Elements(log[i].nfs) : i \in DOMAIN log}
  BY EmptySeq, LenProperties DEF NInv, StoreInv, StoreType
<1>9. e \in EntryType /\ e.root = after /\ e.nfs = nfs
  BY <1>6, <1>7 DEF Entry, EntryType
<1> HIDE DEF e, after
<1>10. /\ log' \in Seq(EntryType) /\ log' # <<>> /\ Len(log') = Len(log) + 1
       /\ DOMAIN log' = 1..Len(log) + 1
       /\ \A i \in 1..Len(log) : log'[i] = log[i]
       /\ log'[Len(log) + 1] = e
  <2>1. log \in Seq(EntryType) /\ e \in EntryType /\ log' = Append(log, e)
    BY <1>5, <1>8, <1>9
  <2>2. /\ log' \in Seq(EntryType) /\ log' # <<>> /\ Len(log') = Len(log) + 1
        /\ \A i \in 1..Len(log) : log'[i] = log[i]
        /\ log'[Len(log) + 1] = e
    BY <2>1, AppendProperties
  <2> QED
    BY <2>2, LenProperties
<1>11. /\ store'.roots \in Seq(Seq(Note)) /\ Len(store'.roots) = Len(log) + 1
       /\ \A i \in 1..Len(log) : store'.roots[i] = store.roots[i]
       /\ store'.roots[Len(log) + 1] = after
  BY <1>5, <1>7, <1>8, AppendProperties
<1>12. \A i \in DOMAIN log' : store'.roots[i] = log'[i].root
  <2> SUFFICES ASSUME NEW i \in 1..Len(log) + 1 PROVE store'.roots[i] = log'[i].root
    BY <1>10
  <2>1. CASE i \in 1..Len(log)
    BY <2>1, <1>8, <1>10, <1>11
  <2>2. CASE i = Len(log) + 1
    BY <2>2, <1>9, <1>10, <1>11
  <2> QED
    BY <2>1, <2>2, <1>8
<1>13. Elements(nfs) \subseteq NoteNullifier
  BY <1>6, LenProperties, ElementOfSeq DEF Elements
<1>14. store'.nullifiers = UNION {Elements(log'[i].nfs) : i \in DOMAIN log'}
  <2>1. DOMAIN log' = DOMAIN log \cup {Len(log) + 1}
    BY <1>8, <1>10
  <2>2. \A i \in DOMAIN log : log'[i].nfs = log[i].nfs
    BY <1>8, <1>10
  <2>3. log'[Len(log) + 1].nfs = nfs
    BY <1>9, <1>10
  <2>4. UNION {Elements(log'[i].nfs) : i \in DOMAIN log'} =
          (UNION {Elements(log[i].nfs) : i \in DOMAIN log}) \cup Elements(nfs)
    BY <2>1, <2>2, <2>3
  <2> QED
    BY <1>5, <1>8, <2>4
<1>15. \A i \in DOMAIN after :
         "creation" \in DOMAIN after[i] => after[i].rho = i - 1
  <2> SUFFICES ASSUME NEW i \in 1..Len(before) + Len(added), "creation" \in DOMAIN after[i]
               PROVE  after[i].rho = i - 1
    BY <1>7
  <2>1. CASE i <= Len(before)
    <3>1. i \in DOMAIN before /\ after[i] = before[i]
      BY <2>1, <1>7
    <3> QED
      BY <3>1 DEF NInv, StoreInv
  <2>2. CASE i > Len(before)
    <3>1. i - Len(before) \in 1..Len(added) /\ after[i] = added[i - Len(before)]
      BY <2>2, <1>7
    <3>2. added[i - Len(before)].rho = Len(before) + (i - Len(before)) - 1
      BY <3>1, <1>6
    <3> QED
      BY <3>1, <3>2, <1>7
  <2> QED
    BY <2>1, <2>2, <1>7
<1>16. store' \in StoreType /\ store'.commitments = after
  BY <1>5, <1>7, <1>8, <1>11, <1>13 DEF StoreType
<1>17. Len(after) <= MAX_NOTES
  BY <1>4 DEF after
<1>18. StoreInv'
  BY <1>10, <1>11, <1>12, <1>14, <1>15, <1>16, <1>17 DEF StoreInv
<1>19. TreeHolds(store.commitments)'
  BY <1>4, <1>5, <1>16, <1>17 DEF TreeHolds, after
<1> QED
  BY <1>5, <1>18, <1>19

(* Storing the tree keeps NInv.                                            *)
LEMMA StoreNInv ==
  ASSUME NInv, Store
  PROVE  NInv'
<1>1. VerifiedInv' /\ accepted' \in BOOLEAN
  BY DEF NInv, Store, VerifiedInv, Verifies, BundleVerifyCode, Effects
<1> QED
  BY <1>1, StoreKeepsStore DEF NInv, StageInv, AtIdle

(* A crash, at any of the calls, keeps NInv: only the database is left.    *)
LEMMA CrashNInv ==
  ASSUME NInv, Crash
  PROVE  NInv'
<1>1. StoreInv'
  BY StoreUnchanged DEF NInv, Crash
<1> QED
  BY <1>1 DEF NInv, Crash, StageInv, AtIdle, VerifiedInv

(* Starting again from the database keeps NInv.                            *)
LEMMA RestartNInv ==
  ASSUME NInv, Restart
  PROVE  NInv'
<1>1. StoreInv' /\ VerifiedInv' /\ accepted' \in BOOLEAN
  BY StoreUnchanged DEF NInv, Restart, VerifiedInv, Verifies, BundleVerifyCode, Effects
<1>2. /\ <<>> \in Seq(Note) /\ Len(<<>>) = 0
      /\ store.commitments \in Seq(Note) /\ <<>> \o store.commitments = store.commitments
  BY EmptySeq, ConcatEmptySeq DEF NInv, StoreInv, StoreType
<1>3. EmptyTree \in TreeType /\ EmptyTree.leaves = <<>>
  BY <1>2 DEF EmptyTree, TreeType
<1>4. TreeHolds(<<>>)'
  BY <1>2, <1>3, MaxNotesAssumption DEF Restart, TreeHolds
<1>5. AtRebuild'
  BY <1>2, <1>4 DEF Restart, AtRebuild
<1> QED
  BY <1>1, <1>5 DEF NInv, StageInv

(* Rebuilding the tree from the database keeps NInv.                       *)
LEMMA RebuildNInv ==
  ASSUME NInv, Rebuild
  PROVE  NInv'
<1>1. StoreInv' /\ VerifiedInv' /\ accepted' \in BOOLEAN
  BY StoreUnchanged DEF NInv, Rebuild, VerifiedInv, Verifies, BundleVerifyCode, Effects
<1>2. AtRebuild
  BY StageIsOne DEF NInv, Rebuild
<1>3. PICK cms, leaves \in Seq(Note) :
        /\ task = [stage |-> "rebuild", cms |-> cms]
        /\ TreeHolds(leaves) /\ leaves \o cms = store.commitments
  BY <1>2 DEF AtRebuild
<1>4. ASSUME cms = <<>>
      PROVE  StageInv'
  <2>1. leaves = store.commitments
    BY <1>3, <1>4, ConcatEmptySeq
  <2>2. TreeHolds(store.commitments)' /\ task' = Idle
    BY <1>3, <1>4, <2>1 DEF Rebuild, TreeHolds
  <2> QED
    BY <2>2 DEF StageInv, AtIdle
<1>5. ASSUME cms # <<>>
      PROVE  StageInv'
  <2>1. PICK held \in TreeType :
          tree = {held} /\ held.leaves = leaves /\ Len(leaves) <= MAX_NOTES
    BY <1>3 DEF TreeHolds
  <2> DEFINE result == TreeAppend(held, Head(cms))
  <2>2. /\ tree' = {result.tree} /\ store' = store
        /\ task' = [stage |-> "rebuild", cms |-> Tail(cms)]
    BY <1>3, <1>5, <2>1, HeldIsTheTree DEF Rebuild
  <2>3. /\ Head(cms) \in Note /\ Tail(cms) \in Seq(Note)
        /\ Append(leaves, Head(cms)) \in Seq(Note)
        /\ Append(leaves, Head(cms)) \o Tail(cms) = store.commitments
        /\ Len(leaves) + 1 <= Len(store.commitments)
        /\ Len(leaves) \in Nat /\ Len(store.commitments) \in Nat
        /\ Len(store.commitments) <= MAX_NOTES
    <3>1. /\ store.commitments \in Seq(Note) /\ Len(store.commitments) \in Nat
          /\ Len(store.commitments) <= MAX_NOTES /\ Len(leaves) \in Nat
      BY LenProperties DEF NInv, StoreInv, StoreType
    <3>2. leaves \in Seq(Note) /\ cms \in Seq(Note) /\ leaves \o cms = store.commitments
      BY <1>3
    <3> QED
      BY <1>5, <3>1, <3>2, MovesOver, SMTT(30)
  <2>4. Len(leaves) + 1 <= MAX_NOTES
    BY <2>3, MaxNotesAssumption
  <2>5. /\ result.tree \in TreeType /\ result.tree.leaves = Append(leaves, Head(cms))
        /\ Len(result.tree.leaves) <= MAX_NOTES
    BY <2>1, <2>3, <2>4, AppendIntoRoom
  <2> HIDE DEF result
  <2>6. TreeHolds(Append(leaves, Head(cms)))'
    BY <2>2, <2>5 DEF TreeHolds
  <2>7. AtRebuild'
    BY <2>2, <2>3, <2>6 DEF AtRebuild
  <2> QED
    BY <2>7 DEF StageInv
<1>6. StageInv'
  BY <1>4, <1>5
<1> QED
  BY <1>1, <1>6 DEF NInv

(* NInv holds in every state that can be reached.                          *)
LEMMA NInvHolds == Spec => []NInv
<1>1. NInv /\ [Next]_vars => NInv'
  <2> SUFFICES ASSUME NInv, [Next]_vars PROVE NInv'
    OBVIOUS
  <2>1. CASE \E bundle \in Bundle, sighash \in Sighash : Verify(bundle, sighash)
    BY <2>1, VerifyNInv
  <2>2. CASE \E effects \in verified : Admit(effects)
    BY <2>2, AdmitNInv
  <2>3. CASE \E creation \in Creation : AskSize(creation)
    BY <2>3, AskSizeNInv
  <2>4. CASE Commit
    BY <2>4, CommitNInv
  <2>5. CASE AppendOne
    BY <2>5, AppendOneNInv
  <2>6. CASE Checkpoint
    BY <2>6, CheckpointNInv
  <2>7. CASE Store
    BY <2>7, StoreNInv
  <2>8. CASE Crash
    BY <2>8, CrashNInv
  <2>9. CASE Restart
    BY <2>9, RestartNInv
  <2>10. CASE Rebuild
    BY <2>10, RebuildNInv
  <2>11. CASE UNCHANGED vars
    <3>1. StoreInv' /\ \A added, nfs, under : Taken(added, nfs, under) => Taken(added, nfs, under)'
      BY <2>11, StoreUnchanged DEF NInv, vars
    <3>2. StageInv'
      BY <2>11, <3>1
      DEF NInv, vars, StageInv, AtIdle, AtSized, AtAppend, AtStore, AtRebuild, TreeHolds
    <3>3. VerifiedInv' /\ accepted' \in BOOLEAN
      BY <2>11 DEF NInv, vars, VerifiedInv, Verifies, BundleVerifyCode, Effects
    <3> QED
      BY <3>1, <3>2, <3>3 DEF NInv
  <2> QED
    BY <2>1, <2>2, <2>3, <2>4, <2>5, <2>6, <2>7, <2>8, <2>9, <2>10, <2>11 DEF Next
<1> QED
  BY InitNInv, <1>1, PTL DEF Spec

(* There is at most one tree, never beyond its size, and no task without.  *)
THEOREM TypeCorrect == Spec => []TypeOK
<1>1. NInv => TypeOK
  <2> SUFFICES ASSUME NInv PROVE TypeOK
    OBVIOUS
  <2>1. task.stage \in {"idle", "sized", "append", "store", "rebuild"}
    BY DEF NInv, StageInv, AtIdle, AtSized, AtAppend, AtStore, AtRebuild, Adding, Idle
  <2>2. tree = {} \/ \E held \in TreeType : tree = {held} /\ Len(held.leaves) <= MAX_NOTES
    BY DEF NInv, StageInv, AtIdle, AtSized, AtAppend, AtStore, AtRebuild, TreeHolds
  <2>3. Cardinality(tree) <= 1
    <3>1. Cardinality({}) = 0
      BY FS_EmptySet
    <3>2. \A held : Cardinality({held}) = 1
      BY FS_Singleton
    <3>3. CASE tree = {}
      BY <3>1, <3>3
    <3>4. CASE \E held \in TreeType : tree = {held}
      <4>1. PICK held : tree = {held}
        BY <3>4
      <4>2. Cardinality(tree) = 1
        BY <3>2, <4>1, Zenon
      <4> QED
        BY <4>2
    <3> QED
      BY <2>2, <3>3, <3>4
  <2>4. \A held \in tree : Size(held) <= MAX_NOTES
    BY <2>2 DEF Size
  <2>5. tree = {} => task = Idle
    BY StageIsOne DEF NInv
  <2> QED
    BY <2>1, <2>3, <2>4, <2>5 DEF TypeOK
<1> QED
  BY <1>1, NInvHolds, PTL

(* Between two transactions the tree is the stored one, after any number of
   stops, rebuilds and refused appends.                                    *)

THEOREM TreeIsStoredHolds == Spec => []TreeIsStored
<1>1. NInv => TreeIsStored
  <2> SUFFICES ASSUME NInv, tree # {}, task.stage \in {"idle", "sized"}
               PROVE  /\ TreeRoot(Held) = store.commitments
                      /\ TreeRoot(Held) = store.roots[Len(store.roots)]
    BY DEF TreeIsStored
  <2>1. TreeHolds(store.commitments)
    BY DEF NInv, StageInv, AtIdle, AtSized, AtAppend, AtStore, AtRebuild, Adding, Idle
  <2>2. PICK held \in TreeType : tree = {held} /\ held.leaves = store.commitments
    BY <2>1 DEF TreeHolds
  <2> QED
    BY <2>2, HeldIsTheTree DEF TreeRoot, NInv, StoreInv
<1> QED
  BY <1>1, NInvHolds, PTL

(* No two creations of the stored tree share a commitment.                 *)
THEOREM CreationsStayDistinctHold == Spec => []CreationsStayDistinct
<1>1. NInv => CreationsStayDistinct
  <2> SUFFICES ASSUME NInv, NEW i \in DOMAIN store.commitments,
                      "creation" \in DOMAIN store.commitments[i]
               PROVE  /\ store.commitments[i].rho = i - 1
                      /\ \A j \in DOMAIN store.commitments :
                           store.commitments[j] = store.commitments[i] => j = i
    BY DEF CreationsStayDistinct
  <2>1. /\ \A k \in DOMAIN store.commitments :
             "creation" \in DOMAIN store.commitments[k] => store.commitments[k].rho = k - 1
        /\ DOMAIN store.commitments = 1..Len(store.commitments)
        /\ Len(store.commitments) \in Nat
    BY LenProperties DEF NInv, StoreInv, StoreType
  <2> QED
    BY <2>1
<1> QED
  BY <1>1, NInvHolds, PTL

-----------------------------------------------------------------------------
(* What the node looks at in its database is what the log says.            *)
LEMMA StoreIsLog ==
  ASSUME StoreInv
  PROVE  /\ RecentRoots(store.roots) = Promise!RecentRoots
         /\ store.nullifiers = Promise!Spent
         /\ store.commitments = Promise!LastRoot
<1>1. /\ DOMAIN log = 1..Len(log) /\ DOMAIN store.roots = 1..Len(log)
      /\ Len(store.roots) = Len(log) /\ Len(log) \in Nat \ {0}
      /\ \A i \in DOMAIN log : store.roots[i] = log[i].root
  BY EmptySeq, LenProperties DEF StoreInv, StoreType
<1>2. RecentRoots(store.roots) = Promise!RecentRoots
  BY <1>1 DEF RecentRoots, Promise!RecentRoots
<1>3. store.nullifiers = Promise!Spent
  BY DEF StoreInv, Elements, Promise!Spent, Promise!SpentIn
<1>4. store.commitments = Promise!LastRoot
  BY <1>1 DEF StoreInv, Promise!LastRoot
<1> QED
  BY <1>2, <1>3, <1>4

(* The node lets a verified bundle in exactly if the log would.            *)
LEMMA AdmissibleIsAcceptable ==
  ASSUME StoreInv, NEW bundle \in Bundle, NEW sighash \in Sighash,
         BundleVerifyCode(bundle, sighash) = "Ok"
  PROVE  Promise!Acceptable(bundle, sighash) <=> Admissible(bundle)
<1>1. /\ Len(bundle.actions) = NumActions /\ Len(bundle.spend_auth_sigs) = NumActions
      /\ VerifyBundleCrypto(bundle, sighash) = "Ok"
  BY DEF BundleVerifyCode
<1> QED
  BY <1>1, StoreIsLog DEF Promise!Acceptable, Admissible, Verifies

(* What the node checks in the database is what the promised ledger
   checks.                                                                 *)
LEMMA FitsIsAdmissible ==
  ASSUME StoreInv, TreeHolds(store.commitments), NEW bundle \in Bundle, Verifies(bundle)
  PROVE  Fits(Effects(bundle)) <=> Admissible(bundle)
<1>1. PICK held \in TreeType : tree = {held} /\ held.leaves = store.commitments
  BY DEF TreeHolds
<1>2. HasRoomFor(Held, NumActions) <=> Len(store.commitments) + NumActions <= MAX_NOTES
  BY <1>1, HeldIsTheTree DEF HasRoomFor, Size
<1> QED
  BY <1>2, EffectsTyped DEF Fits, Admissible, Effects

(* A refused append was the append of a creation, to a full log.           *)
LEMMA AppendOneRefines ==
  ASSUME NInv, AppendOne
  PROVE  [Promise!Next]_Promise!logVars
<1>1. AtAppend
  BY StageIsOne DEF NInv, AppendOne
<1>2. PICK cms, added, leaves \in Seq(Note) : \E nfs, under :
        /\ task = Adding("append", cms, added, nfs, under)
        /\ Taken(added, nfs, under)
        /\ TreeHolds(leaves) /\ leaves \o cms = store.commitments \o added
  BY <1>1 DEF AtAppend
<1>3. PICK nfs, under :
        task = Adding("append", cms, added, nfs, under) /\ Taken(added, nfs, under)
  BY <1>2
<1>4. PICK held \in TreeType :
        tree = {held} /\ held.leaves = leaves /\ Len(leaves) <= MAX_NOTES
  BY <1>2 DEF TreeHolds
<1> DEFINE result == TreeAppend(held, Head(cms))
<1>5. /\ cms # <<>> /\ log' = log
      /\ IF result.code = "OK" THEN accepted' = accepted ELSE accepted' = FALSE
  BY <1>3, <1>4, HeldIsTheTree DEF AppendOne, Adding
<1>6. /\ Head(cms) \in Note /\ Len(leaves) \in Nat /\ Len(cms) \in Nat
      /\ Len(leaves \o cms) = Len(leaves) + Len(cms)
      /\ Len(leaves) + 1 <= Len(leaves \o cms)
  BY <1>5, MovesOver, LenProperties
<1>7. IF Len(leaves) + 1 <= MAX_NOTES THEN result.code = "OK" ELSE result.code = "TREE_FULL"
  BY <1>4, <1>6, AppendIntoRoom
<1> HIDE DEF result
<1>8. CASE Len(leaves) + 1 <= MAX_NOTES
  BY <1>5, <1>7, <1>8 DEF Promise!logVars
<1>9. CASE ~(Len(leaves) + 1 <= MAX_NOTES)
  <2>1. /\ store.commitments \in Seq(Note) /\ Len(store.commitments) \in Nat
        /\ Len(store.commitments) <= MAX_NOTES /\ Len(added) \in Nat
        /\ Len(store.commitments \o added) = Len(store.commitments) + Len(added)
    BY LenProperties, ConcatProperties DEF NInv, StoreInv, StoreType
  <2>2. /\ Len(store.commitments) + Len(added) > MAX_NOTES
        /\ MAX_NOTES \in Nat /\ NumActions \in Nat
    BY <1>2, <1>6, <1>9, <2>1, MaxNotesAssumption, ParameterAssumption
  <2>3. ~IsTransfer(added, nfs, under)
    <3> SUFFICES ASSUME IsTransfer(added, nfs, under) PROVE FALSE
      OBVIOUS
    <3>1. PICK bundle \in Bundle : Admissible(bundle) /\ added = Effects(bundle).cms
      BY DEF IsTransfer
    <3>2. Len(added) = NumActions
      BY <3>1, EffectsTyped DEF Admissible, Verifies, BundleVerifyCode
    <3> QED
      BY <2>1, <2>2, <3>1, <3>2 DEF Admissible
  <2>4. PICK c \in Creation : added = <<CreationCommitment(c, Len(store.commitments))>>
    BY <1>3, <2>3 DEF Taken, IsCreation
  <2>5. Len(store.commitments) \in 0..MAX_NOTES
    BY <2>1, <2>2
  <2>6. ~(Len(Promise!LastRoot) + 1 <= MAX_NOTES)
    BY <2>1, <2>2, <2>4, StoreIsLog DEF NInv
  <2>7. accepted' = FALSE /\ log' = log
    BY <1>5, <1>7, <1>9
  <2>8. Promise!AddNote(CreationCommitment(c, Len(store.commitments)))
    <3>1. (Len(Promise!LastRoot) + 1 <= MAX_NOTES) = FALSE
      BY <2>6
    <3>2. accepted' = (Len(Promise!LastRoot) + 1 <= MAX_NOTES)
      BY <2>7, <3>1, Zenon
    <3> QED
      BY <2>7, <3>2, Zenon DEF Promise!AddNote
  <2> QED
    BY <2>5, <2>8 DEF Promise!Next
<1> QED
  BY <1>8, <1>9

(* One database transaction is one transaction of the log.                 *)
LEMMA StoreRefines ==
  ASSUME NInv, Store
  PROVE  [Promise!Next]_Promise!logVars
<1>1. AtStore
  BY StageIsOne DEF NInv, Store
<1>2. PICK added \in Seq(Note) : \E nfs, under :
        /\ task = Adding("store", <<>>, added, nfs, under)
        /\ Taken(added, nfs, under)
        /\ TreeHolds(store.commitments \o added)
  BY <1>1 DEF AtStore
<1>3. PICK nfs, under :
        task = Adding("store", <<>>, added, nfs, under) /\ Taken(added, nfs, under)
  BY <1>2
<1>4. PICK held \in TreeType :
        /\ tree = {held} /\ held.leaves = store.commitments \o added
        /\ Len(store.commitments \o added) <= MAX_NOTES
  BY <1>2 DEF TreeHolds
<1>5. /\ accepted' = TRUE
      /\ log' = Append(log, Entry(nfs, store.commitments \o added, under))
  BY <1>3, <1>4, HeldIsTheTree DEF Store, Adding, TreeRoot
<1>6. store.commitments = Promise!LastRoot
  BY StoreIsLog DEF NInv
<1>7. CASE IsTransfer(added, nfs, under)
  <2>1. PICK bundle \in Bundle :
          /\ Admissible(bundle)
          /\ added = Effects(bundle).cms /\ nfs = Effects(bundle).nfs /\ under = {bundle.anchor}
    BY <1>7 DEF IsTransfer
  <2>2. PICK sighash \in Sighash : BundleVerifyCode(bundle, sighash) = "Ok"
    BY <2>1 DEF Admissible, Verifies
  <2>3. Promise!Acceptable(bundle, sighash)
    BY <2>1, <2>2, AdmissibleIsAcceptable DEF NInv
  <2>4. Promise!Apply(bundle, sighash)
    BY <1>5, <1>6, <2>1, <2>3
    DEF Promise!Apply, Promise!Entry, Entry, Promise!Nullifiers, Promise!Commitments, Effects
  <2> QED
    BY <2>4 DEF Promise!Next
<1>8. CASE IsCreation(added, nfs, under)
  <2>1. PICK c \in Creation :
          /\ added = <<CreationCommitment(c, Len(store.commitments))>>
          /\ nfs = <<>> /\ under = {}
    BY <1>8 DEF IsCreation
  <2> DEFINE cm == CreationCommitment(c, Len(store.commitments))
  <2>2. /\ store.commitments \in Seq(Note) /\ Len(store.commitments) \in Nat
        /\ cm \in Note /\ MAX_NOTES \in Nat
    BY LenProperties, MaxNotesAssumption DEF NInv, StoreInv, StoreType, Note
  <2>3. store.commitments \o added = Append(store.commitments, cm)
    BY <2>1, <2>2, AppendIsConcat
  <2>4. Len(Append(store.commitments, cm)) = Len(store.commitments) + 1
    BY <2>2, AppendProperties
  <2> HIDE DEF cm
  <2>5. Len(store.commitments) + 1 <= MAX_NOTES
    BY <1>4, <2>3, <2>4
  <2>6. Promise!AddNote(cm)
    BY <1>5, <1>6, <2>1, <2>3, <2>5 DEF Promise!AddNote, Promise!Entry, Entry
  <2>7. Len(store.commitments) \in 0..MAX_NOTES
    BY <2>2, <2>5
  <2> QED
    BY <2>6, <2>7 DEF Promise!Next, cm
<1> QED
  BY <1>3, <1>7, <1>8 DEF Taken

(* The node, with its calls one by one and its stops, implements the log.  *)
THEOREM NodeRefinement == Spec => ImplementsShieldedLog
<1>1. Init => Promise!Init
  BY DEF Init, EmptyTree, TreeRoot, Entry, Promise!Init, Promise!Genesis, Promise!Entry
<1>2. NInv /\ [Next]_vars => [Promise!Next]_Promise!logVars
  <2> SUFFICES ASSUME NInv, [Next]_vars PROVE [Promise!Next]_Promise!logVars
    OBVIOUS
  <2>1. ASSUME NEW bundle \in Bundle, NEW sighash \in Sighash, Verify(bundle, sighash)
        PROVE  [Promise!Next]_Promise!logVars
    <3>1. CASE BundleVerifyCode(bundle, sighash) = "Ok"
      BY <2>1, <3>1 DEF Verify, Promise!logVars
    <3>2. CASE BundleVerifyCode(bundle, sighash) # "Ok"
      <4>1. ~Promise!Acceptable(bundle, sighash)
        BY <3>2 DEF BundleVerifyCode, Promise!Acceptable
      <4>2. Promise!Acceptable(bundle, sighash) = FALSE
        BY <4>1 DEF Promise!Acceptable
      <4>3. accepted' = FALSE /\ log' = log
        BY <2>1, <3>2 DEF Verify
      <4>4. Promise!Apply(bundle, sighash)
        BY <4>2, <4>3, Zenon DEF Promise!Apply
      <4> QED
        BY <4>4 DEF Promise!Next
    <3> QED
      BY <3>1, <3>2
  <2>2. ASSUME NEW effects \in verified, Admit(effects)
        PROVE  [Promise!Next]_Promise!logVars
    <3>1. CASE Fits(effects)
      BY <2>2, <3>1 DEF Admit, Promise!logVars
    <3>2. CASE ~Fits(effects)
      <4>1. PICK bundle \in Bundle : Verifies(bundle) /\ effects = Effects(bundle)
        BY DEF NInv, VerifiedInv
      <4>2. PICK sighash \in Sighash : BundleVerifyCode(bundle, sighash) = "Ok"
        BY <4>1 DEF Verifies
      <4>3. TreeHolds(store.commitments)
        BY <2>2, StageIsOne DEF NInv, Admit, AtIdle
      <4>4. ~Promise!Acceptable(bundle, sighash)
        BY <3>2, <4>1, <4>2, <4>3, FitsIsAdmissible, AdmissibleIsAcceptable DEF NInv
      <4>5. Promise!Acceptable(bundle, sighash) = FALSE
        BY <4>4 DEF Promise!Acceptable
      <4>6. accepted' = FALSE /\ log' = log
        BY <2>2, <3>2 DEF Admit
      <4>7. Promise!Apply(bundle, sighash)
        BY <4>5, <4>6, Zenon DEF Promise!Apply
      <4> QED
        BY <4>7 DEF Promise!Next
    <3> QED
      BY <3>1, <3>2
  <2>3. CASE AppendOne
    BY <2>3, AppendOneRefines
  <2>4. CASE Store
    BY <2>4, StoreRefines
  <2>5. CASE \/ \E creation \in Creation : AskSize(creation)
             \/ Commit \/ Checkpoint \/ Crash \/ Restart \/ Rebuild \/ UNCHANGED vars
    BY <2>5 DEF AskSize, Commit, Checkpoint, Crash, Restart, Rebuild, vars, Promise!logVars
  <2> QED
    BY <2>1, <2>2, <2>3, <2>4, <2>5 DEF Next
<1> QED
  BY <1>1, <1>2, NInvHolds, PTL DEF Spec, ImplementsShieldedLog, Promise!Spec

(* A verified transfer is taken up exactly if the log takes it.            *)
LEMMA AdmitAcceptsExactly ==
  ASSUME NInv, NEW effects \in verified, Admit(effects)
  PROVE  task' # Idle <=>
           \E bundle \in Bundle, sighash \in Sighash :
             /\ bundle.anchor = effects.anchor
             /\ Promise!Nullifiers(bundle) = effects.nfs
             /\ Promise!Commitments(bundle) = effects.cms
             /\ Promise!Acceptable(bundle, sighash)
<1>1. TreeHolds(store.commitments)
  BY StageIsOne DEF NInv, Admit, AtIdle
<1>2. task' # Idle <=> Fits(effects)
  BY DEF Admit, Idle
<1>3. ASSUME Fits(effects)
      PROVE  \E bundle \in Bundle, sighash \in Sighash :
               /\ bundle.anchor = effects.anchor
               /\ Promise!Nullifiers(bundle) = effects.nfs
               /\ Promise!Commitments(bundle) = effects.cms
               /\ Promise!Acceptable(bundle, sighash)
  <2>1. PICK bundle \in Bundle : Verifies(bundle) /\ effects = Effects(bundle)
    BY DEF NInv, VerifiedInv
  <2>2. PICK sighash \in Sighash : BundleVerifyCode(bundle, sighash) = "Ok"
    BY <2>1 DEF Verifies
  <2>3. Promise!Acceptable(bundle, sighash)
    BY <1>1, <1>3, <2>1, <2>2, FitsIsAdmissible, AdmissibleIsAcceptable DEF NInv
  <2>4. /\ bundle.anchor = effects.anchor
        /\ Promise!Nullifiers(bundle) = effects.nfs
        /\ Promise!Commitments(bundle) = effects.cms
    BY <2>1 DEF Effects, Promise!Nullifiers, Promise!Commitments
  <2> QED
    BY <2>3, <2>4
<1>4. ASSUME NEW bundle \in Bundle, NEW sighash \in Sighash,
             bundle.anchor = effects.anchor,
             Promise!Nullifiers(bundle) = effects.nfs,
             Promise!Commitments(bundle) = effects.cms,
             Promise!Acceptable(bundle, sighash)
      PROVE  Fits(effects)
  <2>1. BundleVerifyCode(bundle, sighash) = "Ok"
    BY <1>4 DEF BundleVerifyCode, Promise!Acceptable
  <2>2. Admissible(bundle) /\ Verifies(bundle)
    BY <1>4, <2>1, AdmissibleIsAcceptable DEF NInv, Admissible
  <2>3. Fits(Effects(bundle))
    BY <1>1, <2>2, FitsIsAdmissible DEF NInv
  <2>4. /\ Effects(bundle).anchor = effects.anchor
        /\ Effects(bundle).nfs = effects.nfs
    BY <1>4 DEF Effects, Promise!Nullifiers
  <2> QED
    BY <2>3, <2>4 DEF Fits
<1> QED
  BY <1>2, <1>3, <1>4

(* Only a full tree makes the node give up what it took up, and only a
   creation.                                                               *)
LEMMA GivenUpWithReason ==
  ASSUME NInv, [Next]_vars, task.stage = "append", task' = Idle, tree' # {}
  PROVE  task.nfs = <<>> /\ Len(Promise!LastRoot) + 1 > MAX_NOTES
<1>1. AtAppend
  BY StageIsOne DEF NInv
<1>2. PICK cms, added, leaves \in Seq(Note) : \E nfs, under :
        /\ task = Adding("append", cms, added, nfs, under)
        /\ Taken(added, nfs, under)
        /\ TreeHolds(leaves) /\ leaves \o cms = store.commitments \o added
  BY <1>1 DEF AtAppend
<1>3. PICK nfs, under :
        task = Adding("append", cms, added, nfs, under) /\ Taken(added, nfs, under)
  BY <1>2
<1>4. AppendOne
  <2>1. task # Idle /\ tree # {}
    BY <1>2 DEF Idle, TreeHolds
  <2>2. ~Checkpoint
    <3>1. [task EXCEPT !.stage = "store"].stage = "store"
      BY <1>3 DEF Adding
    <3> QED
      BY <3>1 DEF Checkpoint, Idle
  <2> QED
    BY <2>1, <2>2 DEF Next, Verify, Admit, AskSize, Commit, Store, Crash, Restart, Rebuild, vars
<1>5. PICK held \in TreeType :
        tree = {held} /\ held.leaves = leaves /\ Len(leaves) <= MAX_NOTES
  BY <1>2 DEF TreeHolds
<1> DEFINE result == TreeAppend(held, Head(cms))
<1>6. cms # <<>> /\ result.code # "OK"
  <2>1. [task EXCEPT !.cms = Tail(@)].stage = "append"
    BY <1>3 DEF Adding
  <2> QED
    BY <1>3, <1>4, <1>5, <2>1, HeldIsTheTree DEF AppendOne, Adding, Idle
<1>7. /\ Head(cms) \in Note /\ Len(leaves) \in Nat /\ Len(cms) \in Nat
      /\ Len(leaves \o cms) = Len(leaves) + Len(cms)
      /\ Len(leaves) + 1 <= Len(leaves \o cms)
  BY <1>6, MovesOver, LenProperties
<1>8. IF Len(leaves) + 1 <= MAX_NOTES THEN result.code = "OK" ELSE result.code = "TREE_FULL"
  BY <1>5, <1>7, AppendIntoRoom
<1> HIDE DEF result
<1>9. /\ store.commitments \in Seq(Note) /\ Len(store.commitments) \in Nat
      /\ Len(store.commitments) <= MAX_NOTES /\ Len(added) \in Nat
      /\ Len(store.commitments \o added) = Len(store.commitments) + Len(added)
  BY LenProperties, ConcatProperties DEF NInv, StoreInv, StoreType
<1>10. /\ Len(store.commitments) + Len(added) > MAX_NOTES
       /\ MAX_NOTES \in Nat /\ NumActions \in Nat
  BY <1>2, <1>6, <1>7, <1>8, <1>9, MaxNotesAssumption, ParameterAssumption
<1>11. ~IsTransfer(added, nfs, under)
  <2> SUFFICES ASSUME IsTransfer(added, nfs, under) PROVE FALSE
    OBVIOUS
  <2>1. PICK bundle \in Bundle : Admissible(bundle) /\ added = Effects(bundle).cms
    BY DEF IsTransfer
  <2>2. Len(added) = NumActions
    BY <2>1, EffectsTyped DEF Admissible, Verifies, BundleVerifyCode
  <2> QED
    BY <1>9, <1>10, <2>1, <2>2 DEF Admissible
<1>12. PICK c \in Creation :
         added = <<CreationCommitment(c, Len(store.commitments))>> /\ nfs = <<>>
  BY <1>3, <1>11 DEF Taken, IsCreation
<1>13. task.nfs = nfs
  BY <1>3 DEF Adding
<1>14. Len(added) = 1 /\ store.commitments = Promise!LastRoot
  BY <1>12, StoreIsLog DEF NInv
<1> QED
  BY <1>9, <1>10, <1>12, <1>13, <1>14

(* Whatever a node of any size refuses, it refuses for the log's reason.   *)
THEOREM NodeAcceptsExactlyHolds == Spec => NodeAcceptsExactly
<1> DEFINE TakenUp ==
      \A effects \in verified \ verified' :
        tree' # {} =>
          (task' # Idle
             <=> \E bundle \in Bundle, sighash \in Sighash :
                   /\ bundle.anchor = effects.anchor
                   /\ Promise!Nullifiers(bundle) = effects.nfs
                   /\ Promise!Commitments(bundle) = effects.cms
                   /\ Promise!Acceptable(bundle, sighash))
    GivenUp ==
      task.stage = "append" /\ task' = Idle /\ tree' # {} =>
        task.nfs = <<>> /\ Len(Promise!LastRoot) + 1 > MAX_NOTES
<1>1. ASSUME NInv, [Next]_vars PROVE TakenUp
  <2> SUFFICES ASSUME NEW effects \in verified \ verified', tree' # {}
               PROVE  task' # Idle
                        <=> \E bundle \in Bundle, sighash \in Sighash :
                              /\ bundle.anchor = effects.anchor
                              /\ Promise!Nullifiers(bundle) = effects.nfs
                              /\ Promise!Commitments(bundle) = effects.cms
                              /\ Promise!Acceptable(bundle, sighash)
    OBVIOUS
  <2>1. Admit(effects)
    BY <1>1 DEF Next, Verify, Admit, AskSize, Commit, AppendOne, Checkpoint, Store, Crash,
                Restart, Rebuild, vars
  <2> QED
    BY <1>1, <2>1, AdmitAcceptsExactly
<1>2. ASSUME NInv, [Next]_vars PROVE GivenUp
  BY <1>2, GivenUpWithReason
<1>3. NInv /\ [Next]_vars => [TakenUp /\ GivenUp]_vars
  BY <1>1, <1>2
<1> QED
  BY <1>3, NInvHolds, PTL DEF Spec, NodeAcceptsExactly

-----------------------------------------------------------------------------
(* The buffers of the skeleton's calls.                                    *)
Outs == Address \cup {"null", "uninitialised"}

(* The shape of what a thread is in.                                       *)
CallShape ==
  /\ calls = [t \in Thread |-> calls[t]]
  /\ \A t \in Thread : calls[t] # None =>
       calls[t] = [fn |-> calls[t].fn, at |-> calls[t].at, call |-> calls[t].call]

(* A call of prove, which will overwrite `out`, has started without a
   buffer there.                                                           *)
ProvesIntoNothing ==
  \A t \in Thread : calls[t] # None /\ calls[t].call.fn = "prove" => outs[t] \notin Address

(* BuffersAreOwned, from the side of the callers and of the heap.          *)
Owned ==
  /\ outs \in [Thread -> Outs]
  /\ DOMAIN heap \subseteq Address
  /\ \A t \in Thread : outs[t] \in Address => outs[t] \in DOMAIN heap
  /\ \A t, u \in Thread : outs[t] \in Address /\ outs[t] = outs[u] => t = u
  /\ \A a \in DOMAIN heap : \E t \in Thread : outs[t] = a

OInv == CallShape /\ ProvesIntoNothing /\ Owned

(* OInv says enough about the buffers.                                     *)
LEMMA OwnedIsEnough == OInv => BuffersAreOwned
<1>1. SUFFICES ASSUME OInv, NEW a \in Address
               PROVE  LET owners == {t \in Thread : outs[t] = a}
                      IN  IF a \in DOMAIN heap THEN \E t \in Thread : owners = {t}
                          ELSE owners = {}
      BY DEF BuffersAreOwned
<1>2. CASE a \in DOMAIN heap
  <2>1. PICK t \in Thread : outs[t] = a  BY <1>1, <1>2 DEF OInv, Owned
  <2>2. {u \in Thread : outs[u] = a} = {t}  BY <1>1, <2>1 DEF OInv, Owned
  <2> QED  BY <1>2, <2>2
<1>3. CASE a \notin DOMAIN heap
  BY <1>1, <1>3 DEF OInv, Owned
<1> QED  BY <1>2, <1>3

(* OInv holds in the beginning.                                            *)
LEMMA InitOwned == SkeletonInit => OInv
<1> SUFFICES ASSUME SkeletonInit PROVE OInv  OBVIOUS
<1>1. CallShape  BY DEF SkeletonInit, CallShape
<1>2. ProvesIntoNothing  BY DEF SkeletonInit, ProvesIntoNothing
<1>3. DOMAIN heap = {}  BY DEF SkeletonInit
<1>4. Owned  BY <1>3, AddressAssumption DEF SkeletonInit, Owned, Outs
<1> QED  BY <1>1, <1>2, <1>4 DEF OInv

(* What an answer does to the shapes: the thread is in nothing.            *)
LEMMA ReturnKeepsCalls ==
  ASSUME CallShape, NEW t \in Thread, NEW call, NEW code, Return(t, call, code)
  PROVE  CallShape' /\ calls'[t] = None /\ \A u \in Thread \ {t} : calls'[u] = calls[u]
BY DEF CallShape, Return

(* A call that begins is either answered or on its way with its arguments. *)
LEMMA BeginKeepsCalls ==
  ASSUME CallShape, NEW t \in Thread, NEW call, Begin(t, call)
  PROVE  /\ CallShape' /\ \A u \in Thread \ {t} : calls'[u] = calls[u]
         /\ calls'[t] # None => calls'[t].call = call
<1>1. CASE refusal(call) = "Ok"
  <2>1. calls' = [calls EXCEPT ![t] = [fn |-> call.fn, at |-> "setup", call |-> call]]
        BY <1>1 DEF Begin
  <2> QED  BY <2>1 DEF CallShape
<1>2. CASE refusal(call) # "Ok"
  <2>1. Return(t, call, refusal(call))  BY <1>2 DEF Begin
  <2> QED  BY <2>1, ReturnKeepsCalls
<1> QED  BY <1>1, <1>2

(* A call that goes on is still the call it was.                           *)
LEMMA MovesOn ==
  ASSUME CallShape, NEW t \in Thread, calls[t] # None, NEW place,
         calls' = [calls EXCEPT ![t].at = place]
  PROVE  /\ CallShape' /\ \A u \in Thread \ {t} : calls'[u] = calls[u]
         /\ calls'[t].call = calls[t].call
<1>1. calls[t] = [fn |-> calls[t].fn, at |-> calls[t].at, call |-> calls[t].call]
      BY DEF CallShape
<1>2. calls'[t] = [calls[t] EXCEPT !.at = place]  BY DEF CallShape
<1>3. calls'[t] = [fn |-> calls[t].fn, at |-> place, call |-> calls[t].call]
      BY <1>1, <1>2
<1>4. \A u \in Thread \ {t} : calls'[u] = calls[u]  BY DEF CallShape
<1>5. calls' = [u \in Thread |-> calls'[u]]  BY DEF CallShape
<1>6. calls'[t].call = calls[t].call  BY <1>3
<1>7. calls'[t] = [fn |-> calls'[t].fn, at |-> calls'[t].at, call |-> calls'[t].call]
      BY <1>3
<1>8. CallShape'  BY <1>4, <1>5, <1>7 DEF CallShape
<1> QED  BY <1>4, <1>6, <1>8

(* Every call and every return keeps OInv.                                 *)
LEMMA StepOwned == OInv /\ [SkeletonNext]_skeletonVars => OInv'
<1> SUFFICES ASSUME OInv, [SkeletonNext]_skeletonVars PROVE OInv'  OBVIOUS
<1> USE DEF OInv
<1>1. CASE UNCHANGED skeletonVars
  BY <1>1 DEF skeletonVars, CallShape, ProvesIntoNothing, Owned
<1>2. ASSUME NEW t \in Thread, CallInit(t) PROVE OInv'
  <2>1. calls'[t].call.fn # "prove" /\ CallShape' /\ \A u \in Thread \ {t} : calls'[u] = calls[u]
        BY <1>2 DEF CallInit, CallShape
  <2>2. Owned'  BY <1>2 DEF CallInit, Owned
  <2> QED  BY <1>2, <2>1, <2>2 DEF CallInit, ProvesIntoNothing
<1>3. ASSUME NEW t \in Thread, CallProve(t) PROVE OInv'
  <2>1. PICK call : Begin(t, call)  BY <1>3 DEF CallProve
  <2>2. outs'[t] \notin Address /\ outs' \in [Thread -> Outs]
        /\ \A u \in Thread \ {t} : outs'[u] = outs[u]
        BY <1>3, AddressAssumption DEF CallProve, Owned, Outs
  <2>3. Owned'  BY <1>3, <2>2 DEF CallProve, Owned
  <2> QED  BY <2>1, <2>2, <2>3, BeginKeepsCalls DEF ProvesIntoNothing
<1>4. ASSUME NEW t \in Thread, CallVerify(t) PROVE OInv'
  <2>1. PICK call \in VerifyCalls : Begin(t, call)  BY <1>4 DEF CallVerify
  <2>1a. call.fn = "verify"  BY DEF VerifyCalls
  <2>2. Owned'  BY <1>4 DEF CallVerify, Owned
  <2> QED  BY <1>4, <2>1, <2>1a, <2>2, BeginKeepsCalls DEF CallVerify, ProvesIntoNothing
<1>5. ASSUME NEW t \in Thread, GetSetup(t) PROVE OInv'
  <2>1. PICK place : calls' = [calls EXCEPT ![t].at = place]  BY <1>5 DEF GetSetup
  <2>2. Owned'  BY <1>5 DEF GetSetup, Owned
  <2> QED  BY <1>5, <2>1, <2>2, MovesOn DEF GetSetup, ProvesIntoNothing
<1>6. ASSUME NEW t \in Thread, Keygen(t) PROVE OInv'
  <2>1. Owned' /\ outs' = outs  BY <1>6 DEF Keygen, Owned
  <2>2. CASE calls' = [calls EXCEPT ![t].at = "work"]
    BY <1>6, <2>1, <2>2, MovesOn DEF Keygen, ProvesIntoNothing
  <2>3. CASE Caught(t)
    BY <2>1, <2>3, ReturnKeepsCalls DEF Caught, ProvesIntoNothing
  <2> QED  BY <1>6, <2>2, <2>3 DEF Keygen
<1>7. ASSUME NEW t \in Thread, Work(t) PROVE OInv'
  <2>1. PICK code : Return(t, calls[t].call, code)  BY <1>7 DEF Work, Caught
  <2>2. CallShape' /\ calls'[t] = None /\ \A u \in Thread \ {t} : calls'[u] = calls[u]
        BY <2>1, ReturnKeepsCalls
  <2>3. CASE UNCHANGED <<outs, heap>>
    BY <2>2, <2>3 DEF Owned, ProvesIntoNothing
  <2>4. ASSUME NEW a \in Address \ DOMAIN heap, calls[t].call.fn = "prove",
               DOMAIN heap' = DOMAIN heap \cup {a}, outs' = [outs EXCEPT ![t] = a]
        PROVE  OInv'
    <3>1. outs[t] \notin Address  BY <1>7, <2>4 DEF Work, ProvesIntoNothing
    <3>2. outs'[t] = a /\ outs' \in [Thread -> Outs]
          /\ \A u \in Thread \ {t} : outs'[u] = outs[u]
          BY <2>4 DEF Owned, Outs
    <3>3. \A u \in Thread : outs'[u] \in Address => outs'[u] \in DOMAIN heap'
          BY <2>4, <3>2 DEF Owned
    <3>4. \A u \in Thread \ {t} : outs[u] # a  BY <2>4 DEF Owned
    <3>5. \A u, w \in Thread : outs'[u] \in Address /\ outs'[u] = outs'[w] => u = w
          BY <3>2, <3>4 DEF Owned
    <3>6. ASSUME NEW b \in DOMAIN heap' PROVE \E u \in Thread : outs'[u] = b
      <4>1. CASE b = a  BY <3>2, <4>1
      <4>2. CASE b \in DOMAIN heap
        <5>1. PICK u \in Thread : outs[u] = b  BY <4>2 DEF Owned
        <5>2. u # t  BY <3>1, <4>2, <5>1 DEF Owned
        <5> QED  BY <3>2, <5>1, <5>2
      <4> QED  BY <2>4, <3>6, <4>1, <4>2
    <3>7. Owned'  BY <2>4, <3>2, <3>3, <3>5, <3>6 DEF Owned
    <3> QED  BY <2>2, <3>2, <3>7 DEF ProvesIntoNothing
  <2> QED  BY <1>7, <2>3, <2>4 DEF Work
<1>8. ASSUME NEW t \in Thread, BufferFree(t) PROVE OInv'
  <2>1. outs'[t] = "null" /\ outs' \in [Thread -> Outs]
        /\ \A u \in Thread \ {t} : outs'[u] = outs[u]
        BY <1>8 DEF BufferFree, Freed, Owned, Outs
  <2>2. DOMAIN heap' = DOMAIN heap \ {outs[t]}  BY <1>8 DEF BufferFree, Restrict
  <2>3. \A u \in Thread : outs'[u] \in Address => outs'[u] \in DOMAIN heap'
        BY <2>1, <2>2, AddressAssumption DEF Owned
  <2>4. \A u, w \in Thread : outs'[u] \in Address /\ outs'[u] = outs'[w] => u = w
        BY <2>1, AddressAssumption DEF Owned
  <2>5. \A b \in DOMAIN heap' : \E u \in Thread : outs'[u] = b
        BY <2>1, <2>2 DEF Owned
  <2>6. Owned'  BY <2>1, <2>2, <2>3, <2>4, <2>5 DEF Owned
  <2>7. calls' = calls  BY <1>8 DEF BufferFree
  <2> QED  BY <2>1, <2>6, <2>7, AddressAssumption DEF CallShape, ProvesIntoNothing
<1> QED  BY <1>1, <1>2, <1>3, <1>4, <1>5, <1>6, <1>7, <1>8 DEF SkeletonNext, Proceed

(* Every buffer handed out is owned by exactly one caller until it gives it
   back, and no caller is left with one that was given back.               *)

THEOREM BuffersAreOwnedHolds == SkeletonSpec => []BuffersAreOwned
<1>1. SkeletonSpec => []OInv  BY InitOwned, StepOwned, PTL DEF SkeletonSpec
<1> QED  BY <1>1, OwnedIsEnough, PTL

-----------------------------------------------------------------------------
(* The answers of the skeleton's calls.  A call on its way has passed what
   refusal asks, and what a thread was told is right whatever follows.     *)

(* Right, with what it reads of the state as parameters.                   *)
ProvedWith(made, call) ==
  call.proof \in made /\ call.proof.sighash = call.sighash /\ call.length # "short"
CodesWith(made, call) ==
  IF call.fn = "init" THEN {"Ok"}
  ELSE IF call.given = "null" THEN {"NullPointer"}
  ELSE IF call.fn = "prove" /\ ~call.arity THEN {"BadArity"}
  ELSE IF ~Canonical(call) THEN {"BadValue"}
  ELSE IF call.fn = "verify" THEN {IF ProvedWith(made, call) THEN "Ok" ELSE "VerifyFailed"}
  ELSE IF ~InRange(call) THEN {"ValueOutOfRange"}
  ELSE IF SumsDiffer(call) THEN {"Unbalanced"}
  ELSE {"Ok", "ProveFailed"}
RightWith(caught, made, t, call, code) ==
  \/ code = "Panic" /\ t \in caught
  \/ TooLong(call)
  \/ code \in CodesWith(made, call)

(* What the arguments of a call can be.                                    *)
Legal(made, call) ==
  /\ call.sighash \in Nat
  /\ \/ /\ call.fn = "prove" /\ call.values \in Seq(Nat)
        /\ call.arity => call.values \in [1..(N_IN + N_OUT) -> Nat]
     \/ call.fn = "verify" /\ call.proof \in made \cup {Garbage}

(* A call that has not been refused.                                       *)
Going(made, call) ==
  \/ call.fn = "init"
  \/ /\ call.fn = "prove" /\ call.given # "null" /\ call.arity /\ Canonical(call)
     /\ InRange(call) /\ ~SumsDiffer(call) /\ call.values # <<>>
  \/ /\ call.fn = "verify" /\ call.given # "null" /\ Canonical(call)
     /\ call.proof \in made \cup {Garbage}

AllGoing(made, in) == \A t \in Thread : in[t] # None => Going(made, in[t].call)
RightAnswer(caught, made, said) ==
  said # None => RightWith(caught, made, said.by, said.call, said.code)

AInv ==
  /\ CallShape
  /\ AllGoing(sent, calls)
  /\ Garbage \notin sent
  /\ RightAnswer(panicked, sent, answer)

(* The instance's fold is the fold.                                        *)
LEMMA TotalIsFold ==
  ASSUME NEW s
  PROVE  Balance!Total(s) = FoldLeft(LAMBDA x, y : x + y, 0, s)
BY Zenon DEF Balance!Total, Balance!FoldLeft, Balance!MapThenFoldSet, Balance!Max,
             FoldLeft, MapThenFoldSet, Max

(* check_witness, read as numbers.                                         *)
LEMMA WitnessCodes ==
  ASSUME NEW call, call.values \in [1..(N_IN + N_OUT) -> Nat], NEW code,
         code = Balance!check_witness(Balance!Inputs(call.values), Balance!Outputs(call.values))
  PROVE  /\ code \in {"ValueOutOfRange", "Unbalanced", "Ok"}
         /\ code = "ValueOutOfRange" => ~InRange(call)
         /\ code = "Unbalanced" => InRange(call) /\ SumsDiffer(call)
         /\ code = "Ok" => InRange(call) /\ ~SumsDiffer(call)
<1> DEFINE m == N_IN
           n == N_OUT
           b == LIMB^N_LIMBS
           all == call.values
           s == Balance!Inputs(all)
           u == Balance!Outputs(all)
<1>1. /\ m \in Nat \ {0} /\ n \in Nat \ {0} /\ FIELD \in Nat \ {0} /\ b \in Nat
      /\ m * b < FIELD /\ n * b < FIELD
  BY ArgumentAssumption
<1>2. all \in [1..(m + n) -> Nat]
  OBVIOUS
<1>3. s = SubSeq(all, 1, m) /\ u = SubSeq(all, m + 1, m + n)
  BY DEF Balance!Inputs, Balance!Outputs
<1>4. code = IF \E v \in Balance!ToSet(s \o u) : v >= b THEN "ValueOutOfRange"
             ELSE IF Balance!Total(s) % FIELD # Balance!Total(u) % FIELD THEN "Unbalanced" ELSE "Ok"
  BY Zenon DEF Balance!check_witness
<1>5. Balance!ToSet(s \o u) = ToSet(s \o u)
  BY Zenon DEF Balance!ToSet, ToSet
<1>6. InRange(call) <=> \A v \in ToSet(all) : v < b
  BY Zenon DEF InRange
<1>7. SumsDiffer(call) <=> Balance!Total(s) # Balance!Total(u)
  BY Zenon DEF SumsDiffer
<1> HIDE DEF m, n, b, all, s, u
<1>8. CutInto(all, m, n, s, u)
  BY <1>1, <1>2, <1>3, Halves
<1>9. ToSet(all) = ToSet(s \o u)
  <2>1. ToSet(all) = {all[i] : i \in 1..(m + n)}
    BY <1>2 DEF ToSet
  <2> QED
    BY <1>8, <2>1 DEF CutInto
<1>10. \A v \in ToSet(all) : v \in Nat
  BY <1>2 DEF ToSet
<1>11. (\E v \in ToSet(all) : v >= b) <=> ~InRange(call)
  BY <1>1, <1>6, <1>10
<1>12. ASSUME InRange(call)
       PROVE  /\ Balance!Total(s) % FIELD = Balance!Total(s)
              /\ Balance!Total(u) % FIELD = Balance!Total(u)
  <2>1. \A i \in 1..(m + n) : all[i] < b
    BY <1>2, <1>6, <1>12 DEF ToSet
  <2>2. s \in [1..m -> Nat] /\ \A i \in 1..m : s[i] < b
    BY <1>8, <2>1 DEF CutInto
  <2>3. u \in [1..n -> Nat] /\ \A i \in 1..n : u[i] < b
    BY <1>8, <2>1 DEF CutInto
  <2>4. FoldLeft(LAMBDA x, y : x + y, 0, s) % FIELD = FoldLeft(LAMBDA x, y : x + y, 0, s)
    BY <1>1, <2>2, FoldDoesNotWrap, ZenonT(40)
  <2>5. FoldLeft(LAMBDA x, y : x + y, 0, u) % FIELD = FoldLeft(LAMBDA x, y : x + y, 0, u)
    BY <1>1, <2>3, FoldDoesNotWrap, ZenonT(40)
  <2> QED
    BY <2>4, <2>5, TotalIsFold, Zenon
<1>13. code = IF ~InRange(call) THEN "ValueOutOfRange"
              ELSE IF Balance!Total(s) % FIELD # Balance!Total(u) % FIELD THEN "Unbalanced" ELSE "Ok"
  BY <1>4, <1>5, <1>9, <1>11, Zenon
<1> QED
  BY <1>7, <1>12, <1>13, Zenon

(* A number is no field element when it is not below the modulus.          *)
LEMMA CanonicalOrNot ==
  ASSUME NEW made, NEW call, Legal(made, call)
  PROVE  Canonical(call) <=> ~NotCanonical(call)
<1>1. FIELD \in Nat /\ call.sighash \in Nat
  BY ArgumentAssumption DEF Legal
<1>2. ASSUME call.fn = "prove" PROVE \A v \in ToSet(call.values) : v \in Nat
  <2>1. call.values \in Seq(Nat)
    BY <1>2 DEF Legal
  <2> QED
    BY <2>1 DEF ToSet
<1>3. call.sighash < FIELD <=> ~(call.sighash >= FIELD)
  BY <1>1
<1>4. CASE call.fn = "prove"
  <2>1. \A v \in ToSet(call.values) : v < FIELD <=> ~(v >= FIELD)
    BY <1>1, <1>2, <1>4
  <2> QED
    BY <1>3, <1>4, <2>1, Zenon DEF Canonical, NotCanonical
<1>5. CASE call.fn # "prove"
  BY <1>3, <1>5, Zenon DEF Canonical, NotCanonical
<1> QED
  BY <1>4, <1>5

(* What is refused is told why, and what is not refused is as it says.     *)
LEMMA RefusedRightly ==
  ASSUME NEW caught, NEW made, NEW t, NEW call, Legal(made, call)
  PROVE  /\ refusal(call) = "Ok" => Going(made, call)
         /\ refusal(call) # "Ok" => RightWith(caught, made, t, call, refusal(call))
<1>0. Canonical(call) <=> ~NotCanonical(call)
  BY CanonicalOrNot
<1>1. CASE call.fn = "verify"
  <2>1. call.proof \in made \cup {Garbage}
    BY <1>1, Zenon DEF Legal
  <2>2. refusal(call) = IF call.given = "null" THEN "NullPointer"
                        ELSE IF NotCanonical(call) THEN "BadValue" ELSE "Ok"
    BY <1>1, Zenon DEF refusal
  <2>3. CASE call.given = "null"
    <3>1. refusal(call) = "NullPointer" /\ CodesWith(made, call) = {"NullPointer"}
      BY <1>1, <2>2, <2>3, Zenon DEF CodesWith
    <3> QED
      BY <3>1, Zenon DEF RightWith
  <2>4. CASE call.given # "null" /\ NotCanonical(call)
    <3>1. refusal(call) = "BadValue" /\ CodesWith(made, call) = {"BadValue"}
      BY <1>0, <1>1, <2>2, <2>4, Zenon DEF CodesWith
    <3> QED
      BY <3>1, Zenon DEF RightWith
  <2>5. CASE call.given # "null" /\ ~NotCanonical(call)
    <3>1. refusal(call) = "Ok" /\ Going(made, call)
      BY <1>0, <1>1, <2>1, <2>2, <2>5, Zenon DEF Going
    <3> QED
      BY <3>1
  <2> QED
    BY <2>3, <2>4, <2>5
<1>2. CASE call.fn = "prove"
  <2> DEFINE code == Balance!check_witness(Balance!Inputs(call.values), Balance!Outputs(call.values))
  <2>1. refusal(call) = IF call.given = "null" THEN "NullPointer"
                        ELSE IF ~call.arity THEN "BadArity"
                        ELSE IF NotCanonical(call) THEN "BadValue" ELSE code
    BY <1>2, Zenon DEF refusal
  <2>2. call.arity => call.values \in [1..(N_IN + N_OUT) -> Nat]
    BY <1>2, Zenon DEF Legal
  <2> HIDE DEF code
  <2>3. CASE call.given = "null"
    <3>1. refusal(call) = "NullPointer" /\ CodesWith(made, call) = {"NullPointer"}
      BY <1>2, <2>1, <2>3, Zenon DEF CodesWith
    <3> QED
      BY <3>1, Zenon DEF RightWith
  <2>4. CASE call.given # "null" /\ ~call.arity
    <3>1. refusal(call) = "BadArity" /\ CodesWith(made, call) = {"BadArity"}
      BY <1>2, <2>1, <2>4, Zenon DEF CodesWith
    <3> QED
      BY <3>1, Zenon DEF RightWith
  <2>5. CASE call.given # "null" /\ call.arity /\ NotCanonical(call)
    <3>1. refusal(call) = "BadValue" /\ CodesWith(made, call) = {"BadValue"}
      BY <1>0, <1>2, <2>1, <2>5, Zenon DEF CodesWith
    <3> QED
      BY <3>1, Zenon DEF RightWith
  <2>6. CASE call.given # "null" /\ call.arity /\ ~NotCanonical(call)
    <3>0. refusal(call) = code /\ Canonical(call)
      BY <1>0, <2>1, <2>6, Zenon
    <3>1. call.values \in [1..(N_IN + N_OUT) -> Nat]
      BY <2>2, <2>6, Zenon
    <3>2. /\ code \in {"ValueOutOfRange", "Unbalanced", "Ok"}
          /\ code = "ValueOutOfRange" => ~InRange(call)
          /\ code = "Unbalanced" => InRange(call) /\ SumsDiffer(call)
          /\ code = "Ok" => InRange(call) /\ ~SumsDiffer(call)
      BY <3>1, WitnessCodes, Zenon DEF code
    <3>3. call.values # <<>>
      <4>1. N_IN \in Nat \ {0} /\ N_OUT \in Nat \ {0}
        BY ArgumentAssumption
      <4>2. 1 \in 1..(N_IN + N_OUT) /\ DOMAIN call.values = 1..(N_IN + N_OUT)
        BY <3>1, <4>1
      <4>3. DOMAIN <<>> = {}
        OBVIOUS
      <4> QED
        BY <4>2, <4>3, Zenon
    <3>4. CASE code = "Ok"
      BY <1>2, <2>6, <3>0, <3>2, <3>3, <3>4, Zenon DEF Going
    <3>5. CASE code = "ValueOutOfRange"
      <4>1. CodesWith(made, call) = {"ValueOutOfRange"}
        BY <1>2, <2>6, <3>0, <3>2, <3>5, Zenon DEF CodesWith
      <4> QED
        BY <3>0, <3>5, <4>1, Zenon DEF RightWith
    <3>6. CASE code = "Unbalanced"
      <4>1. CodesWith(made, call) = {"Unbalanced"}
        BY <1>2, <2>6, <3>0, <3>2, <3>6, Zenon DEF CodesWith
      <4> QED
        BY <3>0, <3>6, <4>1, Zenon DEF RightWith
    <3> QED
      BY <3>2, <3>4, <3>5, <3>6
  <2> QED
    BY <2>3, <2>4, <2>5, <2>6
<1> QED
  BY <1>1, <1>2, Zenon DEF Legal

(* What returns is in nothing, and was told something.                     *)
LEMMA ReturnAnswers ==
  ASSUME CallShape, NEW t \in Thread, NEW call, NEW code, Return(t, call, code),
         NEW caught, NEW made, AllGoing(made, calls), RightWith(caught, made, t, call, code)
  PROVE  CallShape' /\ AllGoing(made, calls') /\ RightAnswer(caught, made, answer')
<1>1. CallShape' /\ calls'[t] = None /\ \A u \in Thread \ {t} : calls'[u] = calls[u]
  BY ReturnKeepsCalls
<1>2. AllGoing(made, calls')
  BY <1>1, Zenon DEF AllGoing
<1>3. answer' = [by |-> t, call |-> call, code |-> code]
  BY DEF Return
<1>4. answer'.by = t /\ answer'.call = call /\ answer'.code = code
  BY <1>3
<1>5. RightAnswer(caught, made, answer')
  BY <1>4, Zenon DEF RightAnswer
<1> QED
  BY <1>1, <1>2, <1>5

(* What begins was either refused for its reason or is going.              *)
LEMMA BeginAnswers ==
  ASSUME CallShape, AllGoing(sent, calls), NEW t \in Thread, NEW call, Legal(sent, call),
         Begin(t, call)
  PROVE  CallShape' /\ AllGoing(sent, calls') /\ RightAnswer(panicked, sent, answer')
<1>1. CASE refusal(call) = "Ok"
  <2>1. Going(sent, call)
    BY <1>1, RefusedRightly
  <2>2. /\ CallShape' /\ \A u \in Thread \ {t} : calls'[u] = calls[u]
        /\ calls'[t] # None => calls'[t].call = call
    BY BeginKeepsCalls
  <2>3. AllGoing(sent, calls')
    BY <2>1, <2>2, Zenon DEF AllGoing
  <2>4. answer' = None
    BY <1>1 DEF Begin
  <2>5. RightAnswer(panicked, sent, answer')
    BY <2>4, Zenon DEF RightAnswer
  <2> QED
    BY <2>2, <2>3, <2>5
<1>2. CASE refusal(call) # "Ok"
  <2>1. Return(t, call, refusal(call))
    BY <1>2 DEF Begin
  <2>2. RightWith(panicked, sent, t, call, refusal(call))
    BY <1>2, RefusedRightly
  <2> QED
    BY <2>1, <2>2, ReturnAnswers
<1> QED
  BY <1>1, <1>2

(* Arguments of the right lengths are a value for every cell.              *)
LEMMA WitnessFits ==
  ASSUME NEW w \in RawWitness, Len(w.inputs) = N_IN, Len(w.outputs) = N_OUT
  PROVE  w.inputs \o w.outputs \in [1..(N_IN + N_OUT) -> Nat]
<1>1. w.inputs \in Seq(Nat) /\ w.outputs \in Seq(Nat)
  BY ArgumentAssumption
<1>2. /\ w.inputs \o w.outputs \in Seq(Nat)
      /\ Len(w.inputs \o w.outputs) = Len(w.inputs) + Len(w.outputs)
  BY <1>1, ConcatProperties
<1> QED
  BY <1>2, LenProperties

(* AInv holds in the beginning.                                            *)
LEMMA InitAnswers == SkeletonInit => AInv
<1> SUFFICES ASSUME SkeletonInit PROVE AInv
  OBVIOUS
<1>1. CallShape
  BY DEF SkeletonInit, CallShape
<1>2. \A t \in Thread : calls[t] = None
  BY DEF SkeletonInit
<1>3. sent = {} /\ answer = None
  BY DEF SkeletonInit
<1> QED
  BY <1>1, <1>2, <1>3, Zenon DEF AInv, AllGoing, RightAnswer

(* A step that answers nothing and lets every call go on as it was.        *)
LEMMA GoesOn ==
  ASSUME AInv, NEW t \in Thread, calls[t] # None, NEW place,
         calls' = [calls EXCEPT ![t].at = place], answer' = None
  PROVE  CallShape' /\ AllGoing(sent, calls') /\ RightAnswer(panicked', sent, answer')
<1>1. /\ CallShape' /\ \A u \in Thread \ {t} : calls'[u] = calls[u]
      /\ calls'[t].call = calls[t].call
  BY MovesOn DEF AInv
<1>2. AllGoing(sent, calls)
  BY DEF AInv
<1>3. AllGoing(sent, calls')
  BY <1>1, <1>2, Zenon DEF AllGoing
<1>4. RightAnswer(panicked', sent, answer')
  BY Zenon DEF RightAnswer
<1> QED
  BY <1>1, <1>3, <1>4

(* Whoever panics is told so.                                              *)
LEMMA CaughtAnswers ==
  ASSUME AInv, NEW t \in Thread, Caught(t)
  PROVE  CallShape' /\ AllGoing(sent, calls') /\ RightAnswer(panicked', sent, answer')
<1>1. Return(t, calls[t].call, "Panic") /\ t \in panicked'
  BY DEF Caught
<1>2. RightWith(panicked', sent, t, calls[t].call, "Panic")
  BY <1>1, Zenon DEF RightWith
<1>3. CallShape /\ AllGoing(sent, calls)
  BY DEF AInv
<1> QED
  BY <1>1, <1>2, <1>3, ReturnAnswers

(* The work itself: a proof made is one of values that balance, and one
   that verifies was made.                                                 *)
LEMMA WorkAnswers ==
  ASSUME AInv, NEW t \in Thread, Work(t)
  PROVE  AInv'
<1> DEFINE call == calls[t].call
<1>1. Going(sent, call) /\ CallShape /\ AllGoing(sent, calls) /\ Garbage \notin sent
  BY DEF Work, AInv, AllGoing
<1>2. CASE call.fn = "init" /\ Return(t, call, "Ok") /\ UNCHANGED <<outs, heap, sent, panicked>>
  <2>1. RightWith(panicked, sent, t, call, "Ok")
    BY <1>2, Zenon DEF RightWith, CodesWith
  <2>2. CallShape' /\ AllGoing(sent, calls') /\ RightAnswer(panicked, sent, answer')
    BY <1>1, <1>2, <2>1, ReturnAnswers
  <2>3. sent' = sent /\ panicked' = panicked
    BY <1>2
  <2> QED
    BY <1>1, <2>2, <2>3, Zenon DEF AInv
<1>3. CASE Caught(t) /\ UNCHANGED <<outs, heap, sent>>
  <2>1. CallShape' /\ AllGoing(sent, calls') /\ RightAnswer(panicked', sent, answer')
    BY <1>3, CaughtAnswers
  <2>2. sent' = sent
    BY <1>3
  <2> QED
    BY <1>1, <2>1, <2>2, Zenon DEF AInv
<1>4. ASSUME NEW a \in Address \ DOMAIN heap, call.fn = "prove",
             heap'[a] = [sighash |-> call.sighash, values |-> call.values],
             sent' = sent \cup {heap'[a]}, Return(t, call, "Ok"), panicked' = panicked
      PROVE  AInv'
  <2>1. /\ call.given # "null" /\ call.arity /\ Canonical(call)
        /\ InRange(call) /\ ~SumsDiffer(call) /\ call.values # <<>>
    BY <1>1, <1>4, Zenon DEF Going
  <2>2. heap'[a] # Garbage
    <3>1. heap'[a].values = call.values /\ Garbage.values = <<>>
      BY <1>4 DEF Garbage
    <3> QED
      BY <2>1, <3>1, Zenon
  <2>3. Garbage \notin sent'
    BY <1>1, <1>4, <2>2, Zenon
  <2>4. AllGoing(sent', calls)
    <3>1. ASSUME NEW u \in Thread, calls[u] # None PROVE Going(sent', calls[u].call)
      <4>1. Going(sent, calls[u].call)
        BY <1>1, <3>1, Zenon DEF AllGoing
      <4>2. sent \cup {Garbage} \subseteq sent' \cup {Garbage}
        BY <1>4
      <4> QED
        BY <4>1, <4>2, Zenon DEF Going
    <3> QED
      BY <3>1, Zenon DEF AllGoing
  <2>5. RightWith(panicked', sent', t, call, "Ok")
    BY <1>4, <2>1, Zenon DEF RightWith, CodesWith
  <2>6. CallShape' /\ AllGoing(sent', calls') /\ RightAnswer(panicked', sent', answer')
    BY <1>1, <1>4, <2>4, <2>5, ReturnAnswers
  <2> QED
    BY <2>3, <2>6, Zenon DEF AInv
<1>5. CASE /\ call.fn = "verify"
           /\ Return(t, call, IF verify(ProofIn(call), call.sighash) THEN "Ok" ELSE "VerifyFailed")
           /\ UNCHANGED <<outs, heap, sent, panicked>>
  <2> DEFINE code == IF verify(ProofIn(call), call.sighash) THEN "Ok" ELSE "VerifyFailed"
  <2>1. call.given # "null" /\ Canonical(call) /\ call.proof \in sent \cup {Garbage}
    BY <1>1, <1>5, Zenon DEF Going
  <2>2. CodesWith(sent, call) = {IF ProvedWith(sent, call) THEN "Ok" ELSE "VerifyFailed"}
    BY <1>5, <2>1, Zenon DEF CodesWith
  <2>3. verify(ProofIn(call), call.sighash) <=> ProvedWith(sent, call)
    <3>1. CASE call.length = "short"
      BY <3>1, Zenon DEF ProofIn, ProvedWith, verify
    <3>2. CASE call.length # "short"
      BY <1>1, <2>1, <3>2, Zenon DEF ProofIn, ProvedWith, verify
    <3> QED
      BY <3>1, <3>2
  <2>4. RightWith(panicked, sent, t, call, code)
    BY <2>2, <2>3, Zenon DEF RightWith
  <2> HIDE DEF code
  <2>5. CallShape' /\ AllGoing(sent, calls') /\ RightAnswer(panicked, sent, answer')
    BY <1>1, <1>5, <2>4, ReturnAnswers DEF code
  <2>6. sent' = sent /\ panicked' = panicked
    BY <1>5
  <2> QED
    BY <1>1, <2>5, <2>6, Zenon DEF AInv
<1>6. CASE /\ call.fn = "prove" /\ Return(t, call, "ProveFailed")
           /\ UNCHANGED <<outs, heap, sent, panicked>>
  <2>1. /\ call.given # "null" /\ call.arity /\ Canonical(call)
        /\ InRange(call) /\ ~SumsDiffer(call)
    BY <1>1, <1>6, Zenon DEF Going
  <2>2. RightWith(panicked, sent, t, call, "ProveFailed")
    BY <1>6, <2>1, Zenon DEF RightWith, CodesWith
  <2>3. CallShape' /\ AllGoing(sent, calls') /\ RightAnswer(panicked, sent, answer')
    BY <1>1, <1>6, <2>2, ReturnAnswers
  <2>4. sent' = sent /\ panicked' = panicked
    BY <1>6
  <2> QED
    BY <1>1, <2>3, <2>4, Zenon DEF AInv
<1> QED
  BY <1>2, <1>3, <1>4, <1>5, <1>6 DEF Work

(* Every call and every return keeps AInv.                                 *)
LEMMA StepAnswers == AInv /\ [SkeletonNext]_skeletonVars => AInv'
<1> SUFFICES ASSUME AInv, [SkeletonNext]_skeletonVars PROVE AInv'
  OBVIOUS
<1>1. /\ CallShape /\ AllGoing(sent, calls) /\ Garbage \notin sent
      /\ RightAnswer(panicked, sent, answer)
  BY DEF AInv
<1>2. CASE UNCHANGED skeletonVars
  <2>1. /\ calls' = calls /\ sent' = sent /\ panicked' = panicked /\ answer' = answer
        /\ CallShape'
    BY <1>1, <1>2 DEF skeletonVars, CallShape
  <2> QED
    BY <1>1, <2>1, Zenon DEF AInv
<1>3. ASSUME NEW t \in Thread, CallInit(t) PROVE AInv'
  <2>1. /\ calls'[t].call.fn = "init" /\ CallShape' /\ \A u \in Thread \ {t} : calls'[u] = calls[u]
        /\ answer' = None /\ sent' = sent
    BY <1>1, <1>3 DEF CallInit, CallShape
  <2>2. AllGoing(sent, calls')
    BY <1>1, <2>1, Zenon DEF AllGoing, Going
  <2> QED
    BY <1>1, <2>1, <2>2, Zenon DEF AInv, RightAnswer
<1>4. ASSUME NEW t \in Thread, CallProve(t) PROVE AInv'
  <2>1. PICK call \in ProveCalls : Begin(t, call)
    BY <1>4, Zenon DEF CallProve
  <2>4. Begin(t, call)
    BY <2>1
  <2>5. Legal(sent, call)
    <3> DEFINE Given(w, s) == [fn |-> "prove", given |-> "bytes", sighash |-> s,
                               arity |-> Len(w.inputs) = N_IN /\ Len(w.outputs) = N_OUT,
                               values |-> w.inputs \o w.outputs]
               Nothing == [fn |-> "prove", given |-> "null", sighash |-> 0, arity |-> FALSE,
                           values |-> <<>>]
    <3>1. ASSUME NEW w \in RawWitness, NEW s \in RawSighash, call = Given(w, s)
          PROVE  Legal(sent, call)
      <4>1. /\ call.fn = "prove" /\ call.sighash = s /\ call.values = w.inputs \o w.outputs
            /\ call.arity = (Len(w.inputs) = N_IN /\ Len(w.outputs) = N_OUT)
        BY <3>1, Zenon
      <4>2. call.arity => w.inputs \o w.outputs \in [1..(N_IN + N_OUT) -> Nat]
        BY <4>1, WitnessFits
      <4>3. w.inputs \o w.outputs \in Seq(Nat) /\ s \in Nat
        <5>1. w.inputs \in Seq(Nat) /\ w.outputs \in Seq(Nat) /\ s \in Nat
          BY ArgumentAssumption
        <5> QED
          BY <5>1, ConcatProperties
      <4> QED
        BY <4>1, <4>2, <4>3, Zenon DEF Legal
    <3>2. CASE call = Nothing
      <4>1. call.fn = "prove" /\ call.sighash = 0 /\ call.arity = FALSE /\ call.values = <<>>
        BY <3>2, Zenon
      <4>2. 0 \in Nat /\ <<>> \in Seq(Nat)
        OBVIOUS
      <4> QED
        BY <4>1, <4>2, Zenon DEF Legal
    <3>3. ProveCalls = {Given(w, s) : w \in RawWitness, s \in RawSighash} \cup {Nothing}
      BY DEF ProveCalls
    <3> HIDE DEF Given, Nothing
    <3> QED
      BY <2>1, <3>1, <3>2, <3>3
  <2>6. CallShape' /\ AllGoing(sent, calls') /\ RightAnswer(panicked, sent, answer')
    BY <1>1, <2>4, <2>5, BeginAnswers
  <2>7. sent' = sent /\ panicked' = panicked
    BY <1>4 DEF CallProve
  <2> QED
    BY <1>1, <2>6, <2>7, Zenon DEF AInv
<1>5. ASSUME NEW t \in Thread, CallVerify(t) PROVE AInv'
  <2>1. PICK call \in VerifyCalls : Begin(t, call)
    BY <1>5 DEF CallVerify
  <2>2. Legal(sent, call)
    <3> DEFINE Given(proof, s, length) == [fn |-> "verify", given |-> "bytes", sighash |-> s,
                                           proof |-> proof, length |-> length]
               Nothing == [fn |-> "verify", given |-> "null", sighash |-> 0, proof |-> Garbage,
                           length |-> "short"]
    <3>1. ASSUME NEW proof \in sent \cup {Garbage}, NEW s \in RawSighash, NEW length \in Length,
                 call = Given(proof, s, length)
          PROVE  Legal(sent, call)
      <4>1. call.fn = "verify" /\ call.proof = proof /\ call.sighash = s
        BY <3>1, Zenon
      <4>2. s \in Nat
        BY ArgumentAssumption
      <4> QED
        BY <4>1, <4>2, Zenon DEF Legal
    <3>2. CASE call = Nothing
      <4>1. call.fn = "verify" /\ call.proof = Garbage /\ call.sighash = 0
        BY <3>2, Zenon
      <4>2. 0 \in Nat /\ Garbage \in sent \cup {Garbage}
        OBVIOUS
      <4> QED
        BY <4>1, <4>2, Zenon DEF Legal
    <3> DEFINE All == {Given(proof, s, length) : proof \in sent \cup {Garbage}, s \in RawSighash,
                                                length \in Length}
    <3>3. VerifyCalls = All \cup {Nothing}
      BY DEF VerifyCalls
    <3> HIDE DEF Given, Nothing
    <3>4. CASE call \in All
      <4>1. PICK proof \in sent \cup {Garbage}, s \in RawSighash, length \in Length :
              call = Given(proof, s, length)
        BY <3>4
      <4> QED
        BY <3>1, <4>1
    <3> HIDE DEF All
    <3> QED
      BY <2>1, <3>2, <3>3, <3>4
  <2>3. CallShape' /\ AllGoing(sent, calls') /\ RightAnswer(panicked, sent, answer')
    BY <1>1, <2>1, <2>2, BeginAnswers
  <2>4. sent' = sent /\ panicked' = panicked
    BY <1>5 DEF CallVerify
  <2> QED
    BY <1>1, <2>3, <2>4, Zenon DEF AInv
<1>6. ASSUME NEW t \in Thread, GetSetup(t) PROVE AInv'
  <2>1. PICK place : calls' = [calls EXCEPT ![t].at = place]
    BY <1>6 DEF GetSetup
  <2>2. calls[t] # None /\ answer' = None /\ sent' = sent
    BY <1>6 DEF GetSetup
  <2>3. CallShape' /\ AllGoing(sent, calls') /\ RightAnswer(panicked', sent, answer')
    BY <2>1, <2>2, GoesOn
  <2> QED
    BY <1>1, <2>2, <2>3, Zenon DEF AInv
<1>7. ASSUME NEW t \in Thread, Keygen(t) PROVE AInv'
  <2>1. calls[t] # None /\ sent' = sent
    BY <1>7 DEF Keygen
  <2>2. CallShape' /\ AllGoing(sent, calls') /\ RightAnswer(panicked', sent, answer')
    <3>1. CASE calls' = [calls EXCEPT ![t].at = "work"] /\ answer' = None
      BY <2>1, <3>1, GoesOn
    <3>2. CASE Caught(t)
      BY <3>2, CaughtAnswers
    <3> QED
      BY <1>7, <3>1, <3>2 DEF Keygen
  <2> QED
    BY <1>1, <2>1, <2>2, Zenon DEF AInv
<1>8. ASSUME NEW t \in Thread, BufferFree(t) PROVE AInv'
  <2>1. /\ calls' = calls /\ sent' = sent /\ answer' = None /\ CallShape'
    BY <1>1, <1>8 DEF BufferFree, CallShape
  <2> QED
    BY <1>1, <2>1, Zenon DEF AInv, RightAnswer
<1> QED
  BY <1>2, <1>3, <1>4, <1>5, <1>6, <1>7, <1>8, WorkAnswers DEF SkeletonNext, Proceed

(* Every code a thread is given is the one the header promises for what it
   passed: with sums over numbers, whoever built the keys and panicked.    *)
THEOREM AnswersAreRightHolds == SkeletonSpec => []AnswersAreRight
<1>1. AInv => AnswersAreRight
  BY Zenon DEF AInv, RightAnswer, RightWith, CodesWith, ProvedWith,
               AnswersAreRight, Right, Codes, Proved
<1>2. SkeletonSpec => []AInv
  BY InitAnswers, StepAnswers, PTL DEF SkeletonSpec
<1> QED
  BY <1>1, <1>2, PTL
=============================================================================
