--------------------------- MODULE Ledger_proofs ---------------------------
(***************************************************************************)
(* What a node keeps of the transactions, and what their readers find in   *)
(* them.  Ledger first, for every tree depth, anchor window and set of     *)
(* bundles: the invariant that carries its theorems is that the structures *)
(* the code keeps add up to the log of the accepted transactions.  The     *)
(* anchors come before it: map and queue agree after every push, because   *)
(* the map loses the right key only if it counted right before.            *)
(*                                                                         *)
(* Delivery follows, for every set of users, texts and months: its         *)
(* invariant says of all that is published which of it honest senders      *)
(* made, for which of the addresses handed out.                            *)
(*                                                                         *)
(* MerkleTree comes next, for every depth: the hashes of a tree behind the *)
(* sequence of leaves that all others take for its root, of which the      *)
(* frontier keeps, and a path has, subtrees that stand beside ancestors.   *)
(*                                                                         *)
(* Relay comes last, for all that servers may send and whatever is changed *)
(* on the way: a message is the fields of its first tag, then those of the *)
(* second, and so on, if it is what a writer makes of what was read in it; *)
(* so a reader finds for each tag the part that was written for it.        *)
(***************************************************************************)
EXTENDS Ledger, Delivery, MerkleTree, Relay, Basics, FiniteSetTheorems, FunctionTheorems

-----------------------------------------------------------------------------
(* AnchorHistory's operators of the same names.                            *)
Places(queue, root) == {i \in DOMAIN queue : queue[i] = root}
Occurrences(queue, root) == Cardinality(Places(queue, root))

(* A root stands in a queue at finitely many places.                       *)
LEMMA PlacesFinite ==
  ASSUME NEW queue \in Seq(Seq(Commitment)), NEW root
  PROVE  /\ IsFiniteSet(Places(queue, root))
         /\ Occurrences(queue, root) \in Nat
         /\ Occurrences(queue, root) = 0 <=> Places(queue, root) = {}
<1>1. IsFiniteSet(1..Len(queue))
  BY FS_Interval, LenProperties
<1>2. Places(queue, root) \in SUBSET (1..Len(queue))
  BY LenProperties DEF Places
<1>3. IsFiniteSet(Places(queue, root))
  BY <1>1, <1>2, FS_Subset
<1> QED
  BY <1>3, FS_CardinalityType, FS_EmptySet DEF Occurrences

(* push_back adds one occurrence of its root and of no other.              *)
LEMMA AppendOccurrences ==
  ASSUME NEW queue \in Seq(Seq(Commitment)), NEW root \in Seq(Commitment), NEW key
  PROVE  Occurrences(Append(queue, root), key) =
           Occurrences(queue, key) + (IF key = root THEN 1 ELSE 0)
<1>1. /\ DOMAIN queue = 1..Len(queue)
      /\ DOMAIN Append(queue, root) = 1..Len(queue) + 1
      /\ \A i \in 1..Len(queue) : Append(queue, root)[i] = queue[i]
      /\ Append(queue, root)[Len(queue) + 1] = root
      /\ Len(queue) \in Nat
  BY AppendProperties, LenProperties
<1>2. CASE key = root
  <2>1. Places(Append(queue, root), key) = Places(queue, key) \cup {Len(queue) + 1}
    BY <1>1, <1>2 DEF Places
  <2>2. Len(queue) + 1 \notin Places(queue, key)
    BY <1>1 DEF Places
  <2> QED
    BY <1>2, <2>1, <2>2, PlacesFinite, FS_AddElement, ZenonT(40) DEF Occurrences
<1>3. CASE key # root
  <2>1. Places(Append(queue, root), key) = Places(queue, key)
    BY <1>1, <1>3 DEF Places
  <2> QED
    BY <1>3, <2>1, PlacesFinite DEF Occurrences
<1> QED
  BY <1>2, <1>3

(* pop_front removes one occurrence of the oldest root and of no other.    *)
LEMMA TailOccurrences ==
  ASSUME NEW queue \in Seq(Seq(Commitment)), queue # <<>>, NEW key
  PROVE  Occurrences(Tail(queue), key) =
           Occurrences(queue, key) - (IF key = Head(queue) THEN 1 ELSE 0)
<1> DEFINE later == Places(queue, key) \ {1}
           shift == [i \in Places(Tail(queue), key) |-> i + 1]
<1>1. /\ DOMAIN queue = 1..Len(queue)
      /\ Tail(queue) \in Seq(Seq(Commitment))
      /\ DOMAIN Tail(queue) = 1..Len(queue) - 1
      /\ \A i \in 1..Len(queue) - 1 : Tail(queue)[i] = queue[i + 1]
      /\ Len(queue) \in Nat \ {0}
      /\ Head(queue) = queue[1]
  BY HeadTailProperties, LenProperties, EmptySeq
<1>2. shift \in Bijection(Places(Tail(queue), key), later)
  <2>1. ASSUME NEW i \in Places(Tail(queue), key)
        PROVE  shift[i] \in later
    BY <1>1, <2>1 DEF Places
  <2>2. \A i, j \in Places(Tail(queue), key) : shift[i] = shift[j] => i = j
    BY <1>1 DEF Places
  <2>3. ASSUME NEW p \in later
        PROVE  \E i \in Places(Tail(queue), key) : shift[i] = p
    <3>1. p - 1 \in Places(Tail(queue), key)
      BY <1>1 DEF Places
    <3>2. shift[p - 1] = p
      BY <1>1, <3>1 DEF Places
    <3> QED
      BY <3>1, <3>2
  <2> HIDE DEF later
  <2>4. shift \in [Places(Tail(queue), key) -> later]
    BY <2>1
  <2> QED
    BY <2>2, <2>3, <2>4, Fun_IsBij
<1>3. Occurrences(Tail(queue), key) = Cardinality(later)
  <2> HIDE DEF later, shift
  <2>1. ExistsBijection(Places(Tail(queue), key), later)
    BY <1>2, Fun_ExistsBij
  <2> QED
    BY <1>1, <2>1, PlacesFinite, FS_Bijection DEF Occurrences
<1>4. Cardinality(later) =
        Cardinality(Places(queue, key)) - (IF 1 \in Places(queue, key) THEN 1 ELSE 0)
  <2> DEFINE places == Places(queue, key)
  <2>1. IsFiniteSet(places)
    BY PlacesFinite
  <2> HIDE DEF places
  <2>2. Cardinality(places) \in Nat
    BY <2>1, FS_CardinalityType
  <2>3. Cardinality(places \ {1}) =
          IF 1 \in places THEN Cardinality(places) - 1 ELSE Cardinality(places)
    BY <2>1, FS_RemoveElement
  <2> QED
    BY <2>2, <2>3 DEF places
<1>5. 1 \in Places(queue, key) <=> key = Head(queue)
  BY <1>1 DEF Places
<1> QED
  BY <1>3, <1>4, <1>5 DEF Occurrences

-----------------------------------------------------------------------------
(* The map counts a queue, apart from when the queue is in between.        *)
Counted(map, queue) ==
  /\ map = [key \in DOMAIN map |-> map[key]]
  /\ \A key : key \in DOMAIN map <=> Occurrences(queue, key) > 0
  /\ \A key \in DOMAIN map : map[key] = Occurrences(queue, key)

(* Forgetting the oldest root keeps the map right for the shorter queue.   *)
LEMMA ForgetCounts ==
  ASSUME NEW queue \in Seq(Seq(Commitment)), queue # <<>>, NEW map, Counted(map, queue)
  PROVE  Counted(Anchors!Forget(map, Head(queue)), Tail(queue))
<1> DEFINE oldest == Head(queue)
<1>1. \A key : /\ Occurrences(queue, key) \in Nat
              /\ Occurrences(Tail(queue), key) \in Nat
              /\ Occurrences(Tail(queue), key) =
                   Occurrences(queue, key) - (IF key = oldest THEN 1 ELSE 0)
  BY PlacesFinite, TailOccurrences, HeadTailProperties
<1>2. oldest \in DOMAIN map /\ map[oldest] = Occurrences(queue, oldest)
  BY <1>1 DEF Counted
<1> HIDE DEF oldest
<1>3. CASE map[oldest] = 1
  <2>1. Anchors!Forget(map, oldest) = [key \in DOMAIN map \ {oldest} |-> map[key]]
    BY <1>3 DEF Anchors!Forget, Anchors!Without
  <2> QED
    BY <1>1, <1>2, <1>3, <2>1 DEF Counted, oldest
<1>4. CASE map[oldest] # 1
  <2>1. Anchors!Forget(map, oldest) =
          [key \in DOMAIN map \cup {oldest} |-> IF key = oldest THEN map[oldest] - 1 ELSE map[key]]
    BY <1>4 DEF Anchors!Forget, Anchors!With
  <2> DEFINE fewer == Anchors!Forget(map, oldest)
  <2>2. /\ DOMAIN fewer = DOMAIN map
        /\ fewer = [key \in DOMAIN fewer |-> fewer[key]]
        /\ fewer[oldest] = map[oldest] - 1
        /\ \A key \in DOMAIN map : key # oldest => fewer[key] = map[key]
    BY <1>2, <2>1
  <2> HIDE DEF fewer
  <2>3. Occurrences(queue, oldest) > 1
    BY <1>1, <1>2, <1>4 DEF Counted
  <2>4. ASSUME NEW key
        PROVE  /\ key \in DOMAIN fewer <=> Occurrences(Tail(queue), key) > 0
               /\ key \in DOMAIN fewer => fewer[key] = Occurrences(Tail(queue), key)
    <3>1. /\ key \in DOMAIN map <=> Occurrences(queue, key) > 0
          /\ key \in DOMAIN map => map[key] = Occurrences(queue, key)
      BY DEF Counted
    <3>2. CASE key = oldest
      <4>1. Occurrences(Tail(queue), key) = Occurrences(queue, key) - 1
        BY <1>1, <3>2
      <4> QED
        BY <1>1, <1>2, <2>2, <2>3, <3>2, <4>1
    <3>3. CASE key # oldest
      <4>1. Occurrences(Tail(queue), key) = Occurrences(queue, key)
        BY <1>1, <3>3
      <4> QED
        BY <2>2, <3>1, <3>3, <4>1
    <3> QED
      BY <3>2, <3>3
  <2>5. Counted(fewer, Tail(queue))
    BY <2>2, <2>4 DEF Counted
  <2> QED
    BY <2>5 DEF fewer, oldest
<1> QED
  BY <1>3, <1>4 DEF oldest

(* Remembering a root keeps the map right for the longer queue.            *)
LEMMA RememberCounts ==
  ASSUME NEW queue \in Seq(Seq(Commitment)), NEW map, Counted(map, queue), NEW root \in Seq(Commitment)
  PROVE  Counted(Anchors!Remember(map, root), Append(queue, root))
<1>1. \A key : /\ Occurrences(queue, key) \in Nat
              /\ Occurrences(Append(queue, root), key) =
                   Occurrences(queue, key) + (IF key = root THEN 1 ELSE 0)
  BY PlacesFinite, AppendOccurrences
<1> DEFINE n == IF root \in DOMAIN map THEN map[root] + 1 ELSE 1
<1>2. n = Occurrences(queue, root) + 1
  BY <1>1 DEF Counted
<1> HIDE DEF n
<1>3. Anchors!Remember(map, root) =
        [key \in DOMAIN map \cup {root} |-> IF key = root THEN n ELSE map[key]]
  BY DEF Anchors!Remember, Anchors!With, n
<1> QED
  BY <1>1, <1>2, <1>3 DEF Counted

(* A root occurs in a queue if it is one of its elements.                  *)
LEMMA OccursIfElement ==
  ASSUME NEW queue \in Seq(Seq(Commitment)), NEW key
  PROVE  Occurrences(queue, key) > 0 <=> key \in {queue[i] : i \in DOMAIN queue}
<1>1. Occurrences(queue, key) > 0 <=> Places(queue, key) # {}
  BY PlacesFinite
<1> QED
  BY <1>1 DEF Places

-----------------------------------------------------------------------------
(* The inductive invariant of the anchors.                                 *)
AnchorInv ==
  /\ roots \in Seq(Seq(Commitment))
  /\ Len(roots) <= Capacity
  /\ Counted(counts, roots)

(* AnchorHistory::new: the map of an empty queue is empty.                 *)
LEMMA NewAnchorInv ==
  ASSUME Anchors!New
  PROVE  AnchorInv
<1>1. roots \in Seq(Seq(Commitment)) /\ Len(roots) = 0
  BY EmptySeq DEF Anchors!New
<1>2. \A key : Occurrences(roots, key) = 0
  <2>1. \A key : Places(roots, key) = {}
    BY <1>1, LenProperties DEF Places
  <2> QED
    BY <1>1, <2>1, PlacesFinite
<1>3. DOMAIN counts = {} /\ counts = [key \in DOMAIN counts |-> counts[key]]
  BY DEF Anchors!New
<1> QED
  BY <1>1, <1>2, <1>3, ParameterAssumption DEF AnchorInv, Counted

(* A history that starts with one root, as a ledger's does.                *)
LEMMA FirstRootAnchorInv ==
  ASSUME NEW root \in Seq(Commitment),
         roots = <<root>>, counts = [key \in {root} |-> 1]
  PROVE  AnchorInv
<1>1. roots \in Seq(Seq(Commitment)) /\ Len(roots) = 1 /\ DOMAIN roots = {1} /\ roots[1] = root
  OBVIOUS
<1>2. ASSUME NEW key
      PROVE  Occurrences(roots, key) = IF key = root THEN 1 ELSE 0
  <2>1. Places(roots, key) = IF key = root THEN {1} ELSE {}
    BY <1>1 DEF Places
  <2>2. Cardinality({}) = 0 /\ Cardinality({1}) = 1
    BY FS_EmptySet, FS_Singleton
  <2> QED
    BY <2>1, <2>2 DEF Occurrences
<1> QED
  BY <1>1, <1>2, ParameterAssumption DEF AnchorInv, Counted

(* push, with a full queue and with room, keeps map and queue together.    *)
LEMMA PushKeepsAnchors ==
  ASSUME AnchorInv, NEW root \in Seq(Commitment), Anchors!Push(root)
  PROVE  AnchorInv'
<1> DEFINE kept      == IF Anchors!Full THEN Tail(roots) ELSE roots
           remaining == IF Anchors!Full THEN Anchors!Forget(counts, Head(roots)) ELSE counts
<1>1. roots' = Append(kept, root) /\ counts' = Anchors!Remember(remaining, root)
  BY DEF Anchors!Push
<1>2. kept \in Seq(Seq(Commitment)) /\ Len(kept) + 1 <= Capacity /\ Counted(remaining, kept)
  <2>1. CASE Anchors!Full
    <3>1. roots # <<>>
      BY <2>1, ParameterAssumption DEF Anchors!Full
    <3> QED
      BY <2>1, <3>1, HeadTailProperties, ForgetCounts DEF AnchorInv, Anchors!Full
  <2>2. CASE ~Anchors!Full
    BY <2>2, LenProperties, ParameterAssumption DEF AnchorInv, Anchors!Full
  <2> QED
    BY <2>1, <2>2
<1> HIDE DEF kept, remaining
<1>3. Append(kept, root) \in Seq(Seq(Commitment)) /\ Len(Append(kept, root)) <= Capacity
  BY <1>2, AppendProperties
<1>4. Counted(Anchors!Remember(remaining, root), Append(kept, root))
  BY <1>2, RememberCounts
<1>5. Counted(counts, roots)'
  BY <1>1, <1>4 DEF Counted, Occurrences, Places
<1> QED
  BY <1>1, <1>3, <1>5 DEF AnchorInv

(* However many roots are pushed, AnchorHistory::push keeps the map the
   exact count of the queue.                                               *)
LEMMA AnchorInvHolds == Anchors!Spec => []AnchorInv
<1>1. Anchors!New => AnchorInv
  BY NewAnchorInv
<1>2. AnchorInv /\ [Anchors!Next]_Anchors!anchorVars => AnchorInv'
  <2> SUFFICES ASSUME AnchorInv, [Anchors!Next]_Anchors!anchorVars PROVE AnchorInv'
    OBVIOUS
  <2>1. CASE Anchors!Next
    BY <2>1, PushKeepsAnchors DEF Anchors!Next
  <2>2. CASE UNCHANGED Anchors!anchorVars
    BY <2>2 DEF Anchors!anchorVars, AnchorInv, Counted, Occurrences, Places
  <2> QED
    BY <2>1, <2>2
<1> QED
  BY <1>1, <1>2, PTL DEF Anchors!Spec

(* The queue never outgrows its capacity, and no key of the map counts to
   zero: a root that is no longer accepted leaves nothing behind
   (AnchorHistory::push).                                                  *)
THEOREM AnchorTypeCorrect == Anchors!Spec => []Anchors!TypeOK
<1>1. AnchorInv => Anchors!TypeOK
  <2> SUFFICES ASSUME AnchorInv PROVE Anchors!TypeOK
    OBVIOUS
  <2>1. \A key \in DOMAIN counts : counts[key] \in Nat \ {0}
    BY PlacesFinite DEF AnchorInv, Counted
  <2> QED
    BY <2>1 DEF AnchorInv, Counted, Anchors!TypeOK
<1> QED
  BY <1>1, AnchorInvHolds, PTL

(* AnchorHistory::contains, which asks only the map, accepts exactly the
   roots of the queue.                                                     *)
THEOREM MapCountsQueue == Anchors!Spec => []Anchors!CountsMatchQueue
<1>1. AnchorInv => Anchors!CountsMatchQueue
  <2> SUFFICES ASSUME AnchorInv PROVE Anchors!CountsMatchQueue
    OBVIOUS
  <2>1. \A key : key \in DOMAIN counts <=> key \in {roots[i] : i \in DOMAIN roots}
    BY OccursIfElement DEF AnchorInv, Counted
  <2>2. \A key : Occurrences(roots, key) = Anchors!Occurrences(roots, key)
    BY Zenon DEF Occurrences, Places, Cardinality,
                 Anchors!Occurrences, Anchors!Places, Anchors!Cardinality
  <2>3. \A key \in DOMAIN counts : counts[key] = Anchors!Occurrences(roots, key)
    BY <2>2 DEF AnchorInv, Counted
  <2> QED
    BY <2>1, <2>3, Zenon DEF Anchors!CountsMatchQueue
<1> QED
  BY <1>1, AnchorInvHolds, PTL

-----------------------------------------------------------------------------
TreeType == [leaves : Seq(Commitment), marked : SUBSET Nat, checkpoints : Nat]
EntryType == [nfs : Seq(Nullifier), root : Seq(Commitment), under : SUBSET Seq(Commitment)]

(* The inductive invariant: types, the anchors' map and queue agree, and
   the state is what the log says.                                         *)
LInv ==
  /\ tree \in TreeType
  /\ nullifiers \subseteq Nullifier
  /\ outcome \in Outcomes
  /\ log \in Seq(EntryType) /\ log # <<>>
  /\ AnchorInv
  /\ StateFollowsLog
  /\ NoDoubleSpend

(* contains asks the map, and finds the roots of the queue.                *)
LEMMA ContainsIsQueued ==
  ASSUME AnchorInv, NEW root
  PROVE  Anchors!Contains(root) <=> root \in Elements(roots)
<1>1. root \in DOMAIN counts <=> Occurrences(roots, root) > 0
  BY DEF AnchorInv, Counted
<1>2. Occurrences(roots, root) > 0 <=> root \in {roots[i] : i \in DOMAIN roots}
  BY OccursIfElement DEF AnchorInv
<1> QED
  BY <1>1, <1>2 DEF Anchors!Contains, Elements

(* The queue holds the roots after the last Capacity transactions.         *)
LEMMA QueueIsRecent ==
  ASSUME LInv
  PROVE  Elements(roots) = RecentRoots
<1> DEFINE first == Len(log) - Len(roots)
           n == Len(log)
           m == Len(roots)
<1>1. /\ Len(log) \in Nat \ {0} /\ DOMAIN log = 1..Len(log)
      /\ Len(roots) \in Nat /\ DOMAIN roots = 1..Len(roots)
      /\ Len(roots) = IF Len(log) <= Capacity THEN Len(log) ELSE Capacity
      /\ \A i \in 1..Len(roots) : roots[i] = log[first + i].root
      /\ Capacity \in Nat
  <2>1. log \in Seq(EntryType) /\ log # <<>> /\ roots \in Seq(Seq(Commitment)) /\ Capacity \in Nat
    BY ParameterAssumption DEF LInv, AnchorInv
  <2>2. Len(log) \in Nat \ {0} /\ DOMAIN log = 1..Len(log)
    BY <2>1, LenProperties, EmptySeq
  <2>3. Len(roots) \in Nat /\ DOMAIN roots = 1..Len(roots)
    BY <2>1, LenProperties
  <2> QED
    BY <2>1, <2>2, <2>3 DEF LInv, StateFollowsLog
<1>2. ASSUME NEW i \in 1..Len(roots)
      PROVE  first + i \in DOMAIN log /\ first + i + Capacity > Len(log)
  <2>1. /\ n \in Nat /\ m \in Nat /\ Capacity \in Nat /\ i \in 1..m
        /\ m = IF n <= Capacity THEN n ELSE Capacity
        /\ DOMAIN log = 1..n
    BY <1>1
  <2> HIDE DEF n, m
  <2>2. (n - m) + i \in 1..n /\ (n - m) + i + Capacity > n
    BY <2>1
  <2> QED
    BY <2>1, <2>2 DEF n, m
<1>3. ASSUME NEW j \in DOMAIN log, j + Capacity > Len(log)
      PROVE  j - first \in 1..Len(roots) /\ roots[j - first] = log[j].root
  <2>1. /\ n \in Nat /\ m \in Nat /\ Capacity \in Nat /\ j \in 1..n
        /\ m = IF n <= Capacity THEN n ELSE Capacity
        /\ j + Capacity > n
    BY <1>1, <1>3
  <2>2. j - (n - m) \in 1..m /\ (n - m) + (j - (n - m)) = j
    <3> HIDE DEF n, m
    <3> QED
      BY <2>1
  <2> QED
    BY <1>1, <2>2
<1> HIDE DEF first
<1> QED
  BY <1>1, <1>2, <1>3 DEF Elements, RecentRoots

-----------------------------------------------------------------------------
(* `expect` in the loop of appends: with room for all, all are appended.    *)
LEMMA AppendsAll ==
  ASSUME tree \in TreeType, NEW cms \in Seq(Commitment), Size(tree) + Len(cms) <= MAX_NOTES
  PROVE  /\ AppendedAll(tree, cms) = [tree EXCEPT !.leaves = tree.leaves \o cms]
         /\ AppendedAll(tree, cms) \in TreeType
         /\ AppendedAll(tree, cms).leaves = tree.leaves \o cms
         /\ AppendedAll(tree, cms).checkpoints = tree.checkpoints
         /\ Size(AppendedAll(tree, cms)) = Size(tree) + Len(cms)
<1>1. tree.leaves \in Seq(Commitment) /\ Len(tree.leaves) \in Nat /\ Len(cms) \in Nat
  BY LenProperties DEF TreeType
<1>2. Len(cms) <= MAX_NOTES - Size(tree)
  BY <1>1, MaxNotesAssumption DEF Size
<1>3. SubSeq(cms, 1, Len(cms)) = cms
  BY SubSeqFull
<1>4. AppendedAll(tree, cms) = [tree EXCEPT !.leaves = tree.leaves \o cms]
  BY <1>2, <1>3 DEF AppendedAll
<1>5. /\ tree.leaves \o cms \in Seq(Commitment)
      /\ Len(tree.leaves \o cms) = Len(tree.leaves) + Len(cms)
  BY <1>1, ConcatProperties
<1> QED
  BY <1>4, <1>5 DEF TreeType, Size

(* A new leaf at the end.                                                  *)
LEMMA AppendsOne ==
  ASSUME tree \in TreeType, NEW cm \in Commitment, NEW keep \in BOOLEAN
  PROVE  /\ Appended(tree, cm, keep) \in TreeType
         /\ Appended(tree, cm, keep).leaves = Append(tree.leaves, cm)
         /\ Appended(tree, cm, keep).checkpoints = tree.checkpoints
         /\ Size(Appended(tree, cm, keep)) = Size(tree) + 1
<1>1. /\ tree.leaves \in Seq(Commitment) /\ Len(tree.leaves) \in Nat
      /\ Append(tree.leaves, cm) \in Seq(Commitment)
      /\ Len(Append(tree.leaves, cm)) = Len(tree.leaves) + 1
  BY AppendProperties, LenProperties DEF TreeType
<1> QED
  BY <1>1 DEF TreeType, Appended, Size

-----------------------------------------------------------------------------
(* One more queued root is the root of one more entry.                     *)
LEMMA SealKeepsQueue ==
  ASSUME LInv, NEW e \in EntryType, Anchors!Push(e.root), log' = Append(log, e)
  PROVE  /\ Len(roots') = IF Len(log') <= Capacity THEN Len(log') ELSE Capacity
         /\ \A i \in DOMAIN roots' : roots'[i] = log'[Len(log') - Len(roots') + i].root
<1> DEFINE kept == IF Anchors!Full THEN Tail(roots) ELSE roots
           first == Len(log) - Len(roots)
           n == Len(log)
           m == Len(roots)
           k == Len(kept)
<1>1. /\ Len(log) \in Nat \ {0} /\ Len(log') = Len(log) + 1
      /\ \A i \in 1..Len(log) : log'[i] = log[i]
      /\ log'[Len(log) + 1] = e
  BY AppendProperties, LenProperties, EmptySeq DEF LInv
<1>2. /\ roots \in Seq(Seq(Commitment)) /\ DOMAIN roots = 1..Len(roots) /\ Len(roots) \in Nat
      /\ Capacity \in Nat \ {0}
      /\ Len(roots) = IF Len(log) <= Capacity THEN Len(log) ELSE Capacity
      /\ \A i \in 1..Len(roots) : roots[i] = log[first + i].root
  <2>1. roots \in Seq(Seq(Commitment)) /\ Capacity \in Nat \ {0}
    BY ParameterAssumption DEF LInv, AnchorInv
  <2>2. DOMAIN roots = 1..Len(roots) /\ Len(roots) \in Nat
    BY <2>1, LenProperties
  <2> QED
    BY <2>1, <2>2 DEF LInv, StateFollowsLog
<1>3. /\ kept \in Seq(Seq(Commitment)) /\ Len(kept) \in Nat
      /\ Len(kept) + 1 = IF Len(log) + 1 <= Capacity THEN Len(log) + 1 ELSE Capacity
      /\ \A i \in 1..Len(kept) : kept[i] = log[Len(log) - Len(kept) + i].root
  <2>1. CASE Anchors!Full
    <3>1. Len(roots) = Capacity
      BY <2>1 DEF Anchors!Full
    <3>2. roots # <<>>
      BY <1>2, <3>1
    <3>3. /\ kept = Tail(roots) /\ kept \in Seq(Seq(Commitment))
          /\ Len(kept) = Len(roots) - 1
          /\ \A i \in 1..Len(kept) : kept[i] = roots[i + 1]
      BY <1>2, <2>1, <3>2, HeadTailProperties
    <3> HIDE DEF kept
    <3>4. /\ k \in Nat
          /\ k + 1 = IF n + 1 <= Capacity THEN n + 1 ELSE Capacity
          /\ \A i \in 1..k : i + 1 \in 1..m /\ (n - m) + (i + 1) = n - k + i
      <4>1. /\ n \in Nat /\ m \in Nat /\ Capacity \in Nat \ {0} /\ k = m - 1 /\ m = Capacity
            /\ m = IF n <= Capacity THEN n ELSE Capacity
        BY <1>1, <1>2, <3>1, <3>3
      <4> HIDE DEF n, m, k
      <4> QED
        BY <4>1
    <3> QED
      BY <1>2, <3>3, <3>4
  <2>2. CASE ~Anchors!Full
    <3>1. kept = roots /\ Len(roots) # Capacity
      BY <2>2 DEF Anchors!Full
    <3> HIDE DEF kept
    <3>2. k = n /\ k + 1 = IF n + 1 <= Capacity THEN n + 1 ELSE Capacity
      <4>1. /\ n \in Nat /\ m \in Nat /\ Capacity \in Nat \ {0} /\ k = m /\ m # Capacity
            /\ m = IF n <= Capacity THEN n ELSE Capacity
        BY <1>1, <1>2, <3>1
      <4> HIDE DEF n, m, k
      <4> QED
        BY <4>1
    <3> QED
      BY <1>2, <3>1, <3>2
  <2> QED
    BY <2>1, <2>2
<1>4. roots' = Append(kept, e.root)
  BY DEF Anchors!Push
<1> HIDE DEF kept
<1>5. /\ DOMAIN roots' = 1..Len(kept) + 1
      /\ Len(roots') = Len(kept) + 1
      /\ \A i \in 1..Len(kept) : roots'[i] = kept[i]
      /\ roots'[Len(kept) + 1] = e.root
  BY <1>3, <1>4, AppendProperties, LenProperties DEF EntryType
<1>6. /\ Len(roots') = IF Len(log') <= Capacity THEN Len(log') ELSE Capacity
      /\ Len(log') - Len(roots') = n - k
      /\ k \in Nat /\ n \in Nat /\ k <= n
      /\ \A i \in 1..k + 1 : IF i = k + 1 THEN n - k + i = n + 1
                             ELSE i \in 1..k /\ n - k + i \in 1..n
  <2>1. /\ n \in Nat \ {0} /\ k \in Nat /\ Capacity \in Nat \ {0}
        /\ k + 1 = IF n + 1 <= Capacity THEN n + 1 ELSE Capacity
        /\ Len(roots') = k + 1 /\ Len(log') = n + 1
    BY <1>1, <1>2, <1>3, <1>5
  <2> HIDE DEF n, k
  <2> QED
    BY <2>1
<1>7. ASSUME NEW i \in 1..k + 1
      PROVE  roots'[i] = log'[n - k + i].root
  <2>1. CASE i = k + 1
    BY <1>1, <1>5, <1>6, <2>1
  <2>2. CASE i # k + 1
    <3>1. i \in 1..k /\ n - k + i \in 1..n
      BY <1>6, <2>2
    <3> QED
      BY <1>1, <1>3, <1>5, <3>1
  <2> QED
    BY <2>1, <2>2
<1> QED
  BY <1>5, <1>6, <1>7

(* Nothing of the new entry was spent before, and nothing twice in it.     *)
LEMMA SealSpendsOnce ==
  ASSUME LInv, NEW e \in EntryType, Insertable(nullifiers, e.nfs), log' = Append(log, e)
  PROVE  NoDoubleSpend'
<1>1. /\ Len(log) \in Nat /\ DOMAIN log = 1..Len(log) /\ DOMAIN log' = 1..Len(log) + 1
      /\ \A i \in 1..Len(log) : log'[i] = log[i]
      /\ log'[Len(log) + 1] = e
  BY AppendProperties, LenProperties DEF LInv
<1>2. ASSUME NEW i \in DOMAIN log, NEW j \in DOMAIN log[i].nfs
      PROVE  log[i].nfs[j] \in nullifiers
  BY DEF LInv, StateFollowsLog, SpentIn, Elements
<1> SUFFICES ASSUME NEW i \in DOMAIN log', NEW k \in DOMAIN log',
                    NEW j \in DOMAIN log'[i].nfs, NEW l \in DOMAIN log'[k].nfs,
                    log'[i].nfs[j] = log'[k].nfs[l]
             PROVE  i = k /\ j = l
  BY DEF NoDoubleSpend
<1>3. CASE i \in 1..Len(log) /\ k \in 1..Len(log)
  BY <1>1, <1>3 DEF LInv, NoDoubleSpend
<1>4. CASE i \in 1..Len(log) /\ k = Len(log) + 1
  BY <1>1, <1>2, <1>4 DEF Insertable
<1>5. CASE i = Len(log) + 1 /\ k \in 1..Len(log)
  BY <1>1, <1>2, <1>5 DEF Insertable
<1>6. CASE i = Len(log) + 1 /\ k = Len(log) + 1
  BY <1>1, <1>6 DEF Insertable
<1> QED
  BY <1>1, <1>3, <1>4, <1>5, <1>6

(* The step every accepted transaction takes.                              *)
LEMMA SealKeepsLInv ==
  ASSUME LInv, NEW newTree \in TreeType, Size(newTree) <= MAX_NOTES,
         newTree.checkpoints = tree.checkpoints,
         NEW nfs \in Seq(Nullifier), NEW under \in SUBSET Seq(Commitment),
         Insertable(nullifiers, nfs), nullifiers' = nullifiers \cup Elements(nfs),
         Seal(newTree, nfs, under), outcome' = "Ok"
  PROVE  LInv'
<1> DEFINE e == Entry(nfs, TreeRoot(newTree), under)
<1>1. /\ e \in EntryType
      /\ e.nfs = nfs /\ e.root = newTree.leaves
  BY DEF Entry, EntryType, TreeType, TreeRoot
<1>2. log' = Append(log, e) /\ Anchors!Push(e.root)
  BY DEF Seal, Entry
<1>3. tree' = [newTree EXCEPT !.checkpoints = newTree.checkpoints + 1]
  BY DEF Seal, Checkpointed
<1> HIDE DEF e
<1>4. /\ log' \in Seq(EntryType) /\ log' # <<>>
      /\ Len(log) \in Nat /\ DOMAIN log = 1..Len(log)
      /\ Len(log') = Len(log) + 1 /\ DOMAIN log' = 1..Len(log) + 1
      /\ \A i \in 1..Len(log) : log'[i] = log[i]
      /\ log'[Len(log) + 1] = e
  BY <1>1, <1>2, AppendProperties, LenProperties DEF LInv
<1>5. tree' \in TreeType /\ tree'.leaves = newTree.leaves
      /\ tree'.checkpoints = tree.checkpoints + 1
  BY <1>3 DEF TreeType
<1>6. AnchorInv'
  BY <1>1, <1>2, PushKeepsAnchors DEF LInv, EntryType
<1>7. nullifiers' \subseteq Nullifier
  <2>1. Elements(nfs) \subseteq Nullifier
    BY ElementOfSeq, LenProperties DEF Elements
  <2> QED
    BY <2>1 DEF LInv
<1>8. NoDoubleSpend'
  BY <1>1, <1>2, SealSpendsOnce
<1>9. StateFollowsLog'
  <2>1. TreeRoot(tree') = log'[Len(log')].root /\ Size(tree') <= MAX_NOTES
    BY <1>1, <1>4, <1>5 DEF TreeRoot, Size
  <2>2. tree'.checkpoints + 1 = Len(log')
    BY <1>4, <1>5 DEF LInv, StateFollowsLog, TreeType
  <2>3. nullifiers' = UNION {SpentIn(log'[i]) : i \in DOMAIN log'}
    <3>1. nullifiers = UNION {SpentIn(log[i]) : i \in DOMAIN log}
      BY DEF LInv, StateFollowsLog
    <3>2. Elements(nfs) = SpentIn(e)
      BY <1>1 DEF SpentIn
    <3>3. {SpentIn(log'[i]) : i \in DOMAIN log'} =
            {SpentIn(log[i]) : i \in DOMAIN log} \cup {SpentIn(e)}
      <4>1. \A i \in DOMAIN log' : i \in DOMAIN log \/ i = Len(log) + 1
        BY <1>4
      <4>2. \A i \in DOMAIN log : i \in DOMAIN log' /\ log'[i] = log[i]
        BY <1>4
      <4>3. Len(log) + 1 \in DOMAIN log' /\ log'[Len(log) + 1] = e
        BY <1>4
      <4> QED
        BY <4>1, <4>2, <4>3, Zenon
    <3> QED
      BY <3>1, <3>2, <3>3
  <2>4. /\ Len(roots') = IF Len(log') <= Capacity THEN Len(log') ELSE Capacity
        /\ \A i \in DOMAIN roots' : roots'[i] = log'[Len(log') - Len(roots') + i].root
    BY <1>1, <1>2, SealKeepsQueue
  <2> QED
    BY <2>1, <2>2, <2>3, <2>4 DEF StateFollowsLog
<1> QED
  BY <1>4, <1>5, <1>6, <1>7, <1>8, <1>9 DEF LInv, Outcomes

-----------------------------------------------------------------------------
(* Ledger::new: the empty tree's root is queued, and nothing is spent.     *)
LEMMA InitLInv == Init => LInv
<1> SUFFICES ASSUME Init PROVE LInv
  OBVIOUS
<1> DEFINE e == Entry(<<>>, <<>>, {})
<1>1. /\ tree.leaves = <<>> /\ tree.checkpoints = 0 /\ tree \in TreeType
      /\ TreeRoot(tree) = <<>>
      /\ <<>> \in Seq(Commitment) /\ Len(<<>>) = 0
  BY EmptySeq DEF Init, EmptyTree, TreeType, TreeRoot
<1>2. e \in EntryType /\ e.nfs = <<>> /\ e.root = <<>>
  BY EmptySeq DEF Entry, EntryType
<1>3. log = <<e>> /\ roots = <<<<>>>> /\ counts = [root \in {<<>>} |-> 1]
  BY DEF Init, EmptyTree, TreeRoot
<1> HIDE DEF e
<1>4. /\ log \in Seq(EntryType) /\ log # <<>> /\ Len(log) = 1 /\ DOMAIN log = {1} /\ log[1] = e
      /\ roots \in Seq(Seq(Commitment)) /\ Len(roots) = 1 /\ DOMAIN roots = {1}
      /\ roots[1] = <<>>
  BY <1>1, <1>2, <1>3
<1>5. AnchorInv
  BY <1>1, <1>3, FirstRootAnchorInv
<1>6. StateFollowsLog
  <2>1. nullifiers = {} /\ SpentIn(e) = {}
    BY <1>2 DEF Init, SpentIn, Elements
  <2> QED
    BY <1>1, <1>2, <1>4, <2>1, MaxNotesAssumption, ParameterAssumption DEF StateFollowsLog, Size
<1>7. NoDoubleSpend
  BY <1>2, <1>4 DEF NoDoubleSpend
<1> QED
  BY <1>1, <1>4, <1>5, <1>6, <1>7 DEF LInv, Init, Outcomes

(* What is refused changes only the outcome.                               *)
LEMMA UnchangedKeepsLInv ==
  ASSUME LInv, UNCHANGED <<tree, roots, counts, nullifiers, log>>, outcome' \in Outcomes
  PROVE  LInv'
<1>1. AnchorInv'
  BY DEF LInv, AnchorInv, Counted, Occurrences,
         Places
<1>2. StateFollowsLog'
  BY DEF LInv, StateFollowsLog, TreeRoot, Size, SpentIn, Elements
<1>3. NoDoubleSpend'
  BY DEF LInv, NoDoubleSpend
<1> QED
  BY <1>1, <1>2, <1>3 DEF LInv, TreeType, EntryType

(* Ledger::add_note seals one appended leaf, or finds the tree full.       *)
LEMMA AddNoteKeepsLInv ==
  ASSUME LInv, NEW cm \in Commitment, AddNote(cm)
  PROVE  LInv'
<1>1. CASE HasRoomFor(tree, 1)
  <2> DEFINE newTree == Appended(tree, cm, TRUE)
  <2>1. /\ newTree \in TreeType /\ newTree.checkpoints = tree.checkpoints
        /\ Size(newTree) <= MAX_NOTES
    BY <1>1, AppendsOne DEF LInv, HasRoomFor
  <2>2. Seal(newTree, <<>>, {}) /\ outcome' = "Ok" /\ nullifiers' = nullifiers
    BY <1>1 DEF AddNote
  <2> HIDE DEF newTree
  <2>3. /\ <<>> \in Seq(Nullifier) /\ Elements(<<>>) = {}
        /\ Insertable(nullifiers, <<>>)
    BY EmptySeq DEF Elements, Insertable
  <2>4. nullifiers' = nullifiers \cup Elements(<<>>)
    BY <2>2, <2>3
  <2> QED
    BY <2>1, <2>2, <2>3, <2>4, SealKeepsLInv
<1>2. CASE ~HasRoomFor(tree, 1)
  <2>1. UNCHANGED <<tree, roots, counts, nullifiers, log>> /\ outcome' = "TreeFull"
    BY <1>2 DEF AddNote, anchors
  <2> QED
    BY <2>1, UnchangedKeepsLInv DEF Outcomes
<1> QED
  BY <1>1, <1>2

(* What verify has established when it lets a bundle through.              *)
LEMMA Verified ==
  ASSUME NEW bundle \in Bundle, NEW sighash \in Sighash
  PROVE  Verify(bundle, sighash) = "Ok" <=>
           /\ Len(bundle.actions) = NumActions
           /\ Len(bundle.spend_auth_sigs) = NumActions
           /\ HasRoomFor(tree, NumActions)
           /\ Anchors!Contains(bundle.anchor)
           /\ Insertable({}, NullifiersOf(bundle))
           /\ \A i \in DOMAIN bundle.actions : bundle.actions[i].nullifier \notin nullifiers
           /\ VerifyBundleCrypto(bundle, sighash) = "Ok"
  BY DEF Verify

(* Every other answer is one of the errors.                                *)
LEMMA VerifyOutcomes ==
  ASSUME NEW bundle \in Bundle, NEW sighash \in Sighash
  PROVE  Verify(bundle, sighash) \in Outcomes
  BY CryptoAssumption DEF Verify, Outcomes

(* "Every check runs in `verify`": nothing below it can fail any more.      *)
LEMMA WriteSucceeds ==
  ASSUME LInv, NEW bundle \in Bundle, NEW sighash \in Sighash,
         Verify(bundle, sighash) = "Ok", Write(bundle)
  PROVE  LET nfs     == NullifiersOf(bundle)
             newTree == AppendedAll(tree, CommitmentsOf(bundle))
         IN  /\ nfs \in Seq(Nullifier)
             /\ Insertable(nullifiers, nfs)
             /\ nullifiers' = nullifiers \cup Elements(nfs)
             /\ newTree \in TreeType /\ Size(newTree) <= MAX_NOTES
             /\ newTree.checkpoints = tree.checkpoints
             /\ newTree.leaves = tree.leaves \o CommitmentsOf(bundle)
             /\ Seal(newTree, nfs, {bundle.anchor})
             /\ outcome' = "Ok"
<1> DEFINE nfs     == NullifiersOf(bundle)
           cms     == CommitmentsOf(bundle)
           newTree == AppendedAll(tree, cms)
<1>1. /\ nfs \in Seq(Nullifier) /\ cms \in Seq(Commitment)
      /\ DOMAIN nfs = DOMAIN bundle.actions /\ DOMAIN cms = DOMAIN bundle.actions
      /\ \A i \in DOMAIN nfs : nfs[i] = bundle.actions[i].nullifier
      /\ DOMAIN bundle.actions = 1..Len(bundle.actions)
  BY BundleAssumption DEF NullifiersOf, CommitmentsOf
<1>2. Len(bundle.actions) = NumActions /\ NumActions \in Nat
  BY Verified, ParameterAssumption
<1>3. Len(nfs) = NumActions /\ Len(cms) = NumActions
  <2> HIDE DEF nfs, cms
  <2> QED
    BY <1>1, <1>2, LenProperties
<1>4. Insertable(nullifiers, nfs)
  BY <1>1, Verified DEF Insertable
<1> HIDE DEF nfs, cms
<1>5. /\ newTree \in TreeType /\ Size(newTree) = Size(tree) + Len(nfs)
      /\ newTree.checkpoints = tree.checkpoints /\ newTree.leaves = tree.leaves \o cms
      /\ Size(newTree) <= MAX_NOTES
  BY <1>1, <1>3, Verified, AppendsAll DEF LInv, HasRoomFor
<1> HIDE DEF newTree
<1>6. /\ nullifiers' = nullifiers \cup Elements(nfs)
      /\ Seal(newTree, nfs, {bundle.anchor}) /\ outcome' = "Ok"
  BY <1>4, <1>5 DEF Write, nfs, cms, newTree
<1> QED
  BY <1>1, <1>4, <1>5, <1>6 DEF nfs, cms, newTree

(* The anchor a bundle was verified under is a root.                       *)
LEMMA ContainedIsRoot ==
  ASSUME LInv, NEW root, Anchors!Contains(root)
  PROVE  root \in Seq(Commitment)
<1>1. root \in Elements(roots)
  BY ContainsIsQueued DEF LInv
<1>2. roots \in Seq(Seq(Commitment))
  BY DEF LInv, AnchorInv
<1> QED
  BY <1>1, <1>2, ElementOfSeq, LenProperties DEF Elements

(* Ledger::apply seals a verified bundle, or changes nothing at all.       *)
LEMMA ApplyKeepsLInv ==
  ASSUME LInv, NEW bundle \in Bundle, NEW sighash \in Sighash, Apply(bundle, sighash)
  PROVE  LInv'
<1>1. CASE Verify(bundle, sighash) = "Ok"
  <2>1. Write(bundle)
    BY <1>1 DEF Apply
  <2>2. bundle.anchor \in Seq(Commitment)
    BY <1>1, Verified, ContainedIsRoot
  <2> DEFINE nfs     == NullifiersOf(bundle)
             newTree == AppendedAll(tree, CommitmentsOf(bundle))
  <2>3. /\ nfs \in Seq(Nullifier) /\ Insertable(nullifiers, nfs)
        /\ nullifiers' = nullifiers \cup Elements(nfs)
        /\ newTree \in TreeType /\ Size(newTree) <= MAX_NOTES
        /\ newTree.checkpoints = tree.checkpoints
        /\ Seal(newTree, nfs, {bundle.anchor}) /\ outcome' = "Ok"
    BY <1>1, <2>1, WriteSucceeds
  <2> HIDE DEF nfs, newTree
  <2>4. {bundle.anchor} \in SUBSET Seq(Commitment)
    BY <2>2
  <2> QED
    BY <2>3, <2>4, SealKeepsLInv
<1>2. CASE Verify(bundle, sighash) # "Ok"
  <2>1. UNCHANGED <<tree, roots, counts, nullifiers, log>> /\ outcome' = Verify(bundle, sighash)
    BY <1>2 DEF Apply, anchors
  <2> QED
    BY <2>1, VerifyOutcomes, UnchangedKeepsLInv
<1> QED
  BY <1>1, <1>2

(* No call of a client breaks the invariant.                               *)
LEMMA NextKeepsLInv == LInv /\ [Next]_vars => LInv'
<1> SUFFICES ASSUME LInv, [Next]_vars PROVE LInv'
  OBVIOUS
<1>1. CASE \E cm \in Commitment : AddNote(cm)
  BY <1>1, AddNoteKeepsLInv
<1>2. CASE \E bundle \in Bundle, sighash \in Sighash : Apply(bundle, sighash)
  BY <1>2, ApplyKeepsLInv
<1>3. CASE UNCHANGED vars
  <2>1. UNCHANGED <<tree, roots, counts, nullifiers, log>> /\ outcome' \in Outcomes
    BY <1>3 DEF vars, LInv
  <2> QED
    BY <2>1, UnchangedKeepsLInv
<1> QED
  BY <1>1, <1>2, <1>3 DEF Next

(* Whatever clients hand in, in whatever order, the ledger's three parts
   (tree, anchors, nullifiers) stay what its accepted transactions add up to. *)
THEOREM LInvHolds == Spec => []LInv
  BY InitLInv, NextKeepsLInv, PTL DEF Spec

-----------------------------------------------------------------------------
(* The state of a ledger has its types, and the `expect` of Ledger::apply
   never fires: `outcome` is never "panic".                                *)
THEOREM TypeCorrect == Spec => []TypeOK
<1>1. LInv => TypeOK
  <2> SUFFICES ASSUME LInv PROVE TypeOK
    OBVIOUS
  <2>1. \A key \in DOMAIN counts : counts[key] \in Nat \ {0}
    BY PlacesFinite DEF LInv, AnchorInv, Counted
  <2>2. Anchors!TypeOK
    BY <2>1 DEF LInv, AnchorInv, Counted, Anchors!TypeOK
  <2> QED
    BY <2>2 DEF LInv, TypeOK, TreeType, EntryType
<1> QED
  BY <1>1, LInvHolds, PTL

(* No nullifier is accepted twice: Ledger::verify and
   NullifierSet::insert_all.                                               *)
THEOREM NoDoubleSpendHolds == Spec => []NoDoubleSpend
<1>1. LInv => NoDoubleSpend
  BY DEF LInv
<1> QED
  BY <1>1, LInvHolds, PTL

(* Tree, nullifier set and anchor queue are the sums of what was accepted:
   Ledger::add_note and Ledger::apply.                                     *)
THEOREM StateFollowsLogHolds == Spec => []StateFollowsLog
<1>1. LInv => StateFollowsLog
  BY DEF LInv
<1> QED
  BY <1>1, LInvHolds, PTL

(* AnchorHistory::contains says yes to exactly the roots of the last
   Capacity transactions.                                                  *)
THEOREM AnchorWindowHolds == Spec => []AnchorWindow
<1>1. LInv => AnchorWindow
  BY ContainsIsQueued, QueueIsRecent DEF LInv, AnchorWindow
<1> QED
  BY <1>1, LInvHolds, PTL

(* Ledger::verify lets a bundle through exactly when the log of what was
   accepted so far says it is good.                                        *)
LEMMA LInvAcceptsExactly == LInv => AcceptsExactly
<1> SUFFICES ASSUME LInv, NEW bundle \in Bundle, NEW sighash \in Sighash
             PROVE  Verify(bundle, sighash) = "Ok" <=> Promise!Acceptable(bundle, sighash)
  BY DEF AcceptsExactly
<1>1. HasRoomFor(tree, NumActions) <=> Len(Promise!LastRoot) + NumActions <= MAX_NOTES
  BY DEF LInv, StateFollowsLog, HasRoomFor, Size, TreeRoot, Promise!LastRoot
<1>2. Anchors!Contains(bundle.anchor) <=> bundle.anchor \in Promise!RecentRoots
  BY ContainsIsQueued, QueueIsRecent DEF LInv, RecentRoots, Promise!RecentRoots
<1>3. Insertable({}, NullifiersOf(bundle)) <=>
        \A i, j \in DOMAIN bundle.actions :
          bundle.actions[i].nullifier = bundle.actions[j].nullifier => i = j
  BY DEF Insertable, NullifiersOf
<1>4. nullifiers = Promise!Spent
  BY DEF LInv, StateFollowsLog, SpentIn, Elements, Promise!Spent, Promise!SpentIn
<1> QED
  BY <1>1, <1>2, <1>3, <1>4, Verified DEF Promise!Acceptable

(* Ledger::verify, with its set, its hash map and its size, decides as the
   log of what was accepted does.                                          *)
THEOREM AcceptsExactlyHolds == Spec => []AcceptsExactly
  BY LInvAcceptsExactly, LInvHolds, PTL

(* A call that does not end with Ok leaves tree, anchors and nullifiers as
   they were: Ledger::apply has nothing that can fail after verify.        *)
THEOREM AllOrNothingHolds == Spec => AllOrNothing
<1>1. LInv /\ [Next]_vars => [outcome' # "Ok" => UNCHANGED state]_vars
  <2> SUFFICES ASSUME LInv, Next, outcome' # "Ok" PROVE UNCHANGED state
    OBVIOUS
  <2>1. CASE \E cm \in Commitment : AddNote(cm)
    BY <2>1 DEF AddNote, anchors, state
  <2>2. ASSUME NEW bundle \in Bundle, NEW sighash \in Sighash, Apply(bundle, sighash)
        PROVE  UNCHANGED state
    <3>1. Verify(bundle, sighash) # "Ok"
      BY <2>2, WriteSucceeds DEF Apply
    <3> QED
      BY <2>2, <3>1 DEF Apply, anchors, state
  <2> QED
    BY <2>1, <2>2 DEF Next
<1> QED
  BY <1>1, LInvHolds, PTL DEF Spec, AllOrNothing

-----------------------------------------------------------------------------
(* Each call is the abstract ledger's call of the same name.               *)
LEMMA AddNoteRefines ==
  ASSUME LInv, NEW cm \in Commitment, AddNote(cm)
  PROVE  Promise!AddNote(cm)
<1>1. tree.leaves = Promise!LastRoot
  BY DEF LInv, StateFollowsLog, TreeRoot, Promise!LastRoot
<1>2. HasRoomFor(tree, 1) <=> Len(Promise!LastRoot) + 1 <= MAX_NOTES
  BY <1>1 DEF HasRoomFor, Size
<1>3. CASE HasRoomFor(tree, 1)
  <2>1. outcome' = "Ok" /\ Seal(Appended(tree, cm, TRUE), <<>>, {})
    BY <1>3 DEF AddNote
  <2>2. Appended(tree, cm, TRUE).leaves = Append(Promise!LastRoot, cm)
    BY <1>1, AppendsOne DEF LInv
  <2>3. log' = Append(log, Promise!Entry(<<>>, Append(Promise!LastRoot, cm), {}))
    BY <2>1, <2>2 DEF Seal, TreeRoot, Entry, Promise!Entry
  <2> QED
    BY <1>2, <1>3, <2>1, <2>3 DEF Promise!AddNote
<1>4. CASE ~HasRoomFor(tree, 1)
  <2>1. outcome' # "Ok" /\ log' = log
    BY <1>4 DEF AddNote
  <2> QED
    BY <1>2, <1>4, <2>1 DEF Promise!AddNote
<1> QED
  BY <1>3, <1>4

(* apply accepts what the abstract ledger accepts, and adds what it adds.  *)
LEMMA ApplyRefines ==
  ASSUME LInv, NEW bundle \in Bundle, NEW sighash \in Sighash, Apply(bundle, sighash)
  PROVE  Promise!Apply(bundle, sighash)
<1>1. Verify(bundle, sighash) = "Ok" <=> Promise!Acceptable(bundle, sighash)
  BY LInvAcceptsExactly DEF AcceptsExactly
<1>2. CASE Verify(bundle, sighash) = "Ok"
  <2> DEFINE newTree == AppendedAll(tree, CommitmentsOf(bundle))
  <2>1. /\ outcome' = "Ok"
        /\ Seal(newTree, NullifiersOf(bundle), {bundle.anchor})
        /\ newTree.leaves = tree.leaves \o CommitmentsOf(bundle)
    BY <1>2, WriteSucceeds DEF Apply
  <2> HIDE DEF newTree
  <2>2. newTree.leaves = Promise!LastRoot \o Promise!Commitments(bundle)
    BY <2>1 DEF LInv, StateFollowsLog, TreeRoot, Promise!LastRoot, CommitmentsOf,
                Promise!Commitments
  <2>3. log' = Append(log, Promise!Entry(Promise!Nullifiers(bundle),
                             Promise!LastRoot \o Promise!Commitments(bundle), {bundle.anchor}))
    BY <2>1, <2>2 DEF Seal, TreeRoot, Entry, Promise!Entry, NullifiersOf, Promise!Nullifiers
  <2>4. (outcome' = "Ok") = Promise!Acceptable(bundle, sighash)
    <3>1. Promise!Acceptable(bundle, sighash) = TRUE
      BY <1>1, <1>2 DEF Promise!Acceptable
    <3> QED
      BY <2>1, <3>1
  <2> QED
    BY <2>1, <2>3, <2>4 DEF Promise!Apply
<1>3. CASE Verify(bundle, sighash) # "Ok"
  <2>1. outcome' # "Ok" /\ log' = log
    BY <1>3 DEF Apply
  <2>2. (outcome' = "Ok") = Promise!Acceptable(bundle, sighash)
    <3>1. Promise!Acceptable(bundle, sighash) = FALSE
      BY <1>1, <1>3 DEF Promise!Acceptable
    <3> QED
      BY <2>1, <3>1
  <2> QED
    BY <2>1, <2>2 DEF Promise!Apply
<1> QED
  BY <1>2, <1>3

(* The ledger of src/bundle.rs implements the abstract log: whatever calls
   come, in whatever order, it behaves like a log that grows by whole, good
   transactions and by nothing else.                                       *)
THEOREM Refinement == Spec => ImplementsShieldedLog
<1>1. Init => Promise!Init
  BY DEF Init, EmptyTree, TreeRoot, Entry, Promise!Init, Promise!Genesis, Promise!Entry
<1>2. LInv /\ [Next]_vars => [Promise!Next]_Promise!logVars
  <2> SUFFICES ASSUME LInv, [Next]_vars PROVE [Promise!Next]_Promise!logVars
    OBVIOUS
  <2>1. CASE \E cm \in Commitment : AddNote(cm)
    BY <2>1, AddNoteRefines DEF Promise!Next
  <2>2. CASE \E bundle \in Bundle, sighash \in Sighash : Apply(bundle, sighash)
    BY <2>2, ApplyRefines DEF Promise!Next
  <2>3. CASE UNCHANGED vars
    BY <2>3 DEF vars, Promise!logVars
  <2> QED
    BY <2>1, <2>2, <2>3 DEF Next
<1> QED
  BY <1>1, <1>2, LInvHolds, PTL DEF Spec, ImplementsShieldedLog, Promise!Spec

-----------------------------------------------------------------------------
(* Notes on their way: what a wallet finds depends on what was published,
   whoever put it together; what is known of the mail on its way is which
   of it honest senders meant.                                             *)

(* The incoming viewing key that a user's derivation ends with.            *)
IvkOf(u) == [ak |-> u, nk |-> u, rivk |-> RivkOf(u, Resampled(u))]
FvkOf(u) == [ak |-> u, nk |-> u, rivk |-> RivkOf(u, Resampled(u)), ovk |-> u, ivk |-> IvkOf(u)]

(* Derivation ends, and what the server derives again from what the device
   hands over is the same key.                                             *)
LEMMA KeysAreTheSame ==
  ASSUME NEW u \in User
  PROVE  full_viewing_key(u) = FvkOf(u) /\ ViewingKeys(u) = {FvkOf(u)}
<1> DEFINE rivk == RivkOf(u, Resampled(u))
<1>1. ~ZeroIvk(rivk)
  BY ResampleAssumption, Zenon DEF Resampled
<1>2. commit_ivk(u, u, rivk) = {IvkOf(u)}
  BY <1>1, Zenon DEF commit_ivk, IvkOf
<1>3. (CHOOSE ivk \in commit_ivk(u, u, rivk) : TRUE) = IvkOf(u)
  BY <1>2
<1>4. full_viewing_key(u) = FvkOf(u)
  BY <1>3, Zenon DEF full_viewing_key, FvkOf
<1> DEFINE bytes == to_bytes(FvkOf(u))
<1>5. bytes.ak = u /\ bytes.nk = u /\ bytes.rivk = rivk /\ bytes.ovk = u
  BY DEF to_bytes, FvkOf
<1>6. from_bytes(bytes) = {[ak |-> u, nk |-> u, rivk |-> rivk, ovk |-> u, ivk |-> ivk] : ivk \in {IvkOf(u)}}
  BY <1>2, <1>5, Zenon DEF from_bytes
<1>7. from_bytes(bytes) = {FvkOf(u)}
  BY <1>6 DEF FvkOf
<1> QED
  BY <1>4, <1>7, Zenon DEF ViewingKeys

(* No two users have the same keys.                                        *)
LEMMA KeysDiffer ==
  ASSUME NEW u, NEW w, IvkOf(u) = IvkOf(w)
  PROVE  u = w
<1>1. IvkOf(u).ak = u /\ IvkOf(w).ak = w
  BY DEF IvkOf
<1> QED
  BY <1>1

(* What a user's wallet finds, and what a sender recovers, with its key.   *)
LEMMA FindsWithKey ==
  ASSUME NEW u \in User, NEW i
  PROVE  /\ FoundBy(u, i) = decrypt(Domain(i), IvkOf(u), published[i].output)
         /\ RecoveredBy(u, i) = recover(Domain(i), u, published[i].cv, published[i].output)
<1>1. ViewingKeys(u) = {FvkOf(u)} /\ FvkOf(u).ivk = IvkOf(u) /\ FvkOf(u).ovk = u
  BY KeysAreTheSame DEF FvkOf
<1>2. FoundBy(u, i) = UNION {decrypt(Domain(i), fvk.ivk, published[i].output) : fvk \in {FvkOf(u)}}
  BY <1>1, Zenon DEF FoundBy
<1>3. RecoveredBy(u, i) = UNION {recover(Domain(i), fvk.ovk, published[i].cv, published[i].output) :
                                   fvk \in {FvkOf(u)}}
  BY <1>1, Zenon DEF RecoveredBy
<1>4. FoundBy(u, i) = decrypt(Domain(i), FvkOf(u).ivk, published[i].output)
  BY <1>2
<1>5. RecoveredBy(u, i) = recover(Domain(i), FvkOf(u).ovk, published[i].cv, published[i].output)
  BY <1>3
<1> QED
  BY <1>1, <1>4, <1>5

-----------------------------------------------------------------------------
(* What decrypt lets through, whatever the output.                         *)
LEMMA FoundIsValid ==
  ASSUME NEW domain, NEW ivk, NEW output, NEW found \in decrypt(domain, ivk, output)
  PROVE  /\ commitment(found.note) = output.cm
         /\ found.note.rho = domain.rho
         /\ found.note.pk_d = Times(diversify_hash(found.note.d), ivk)
         /\ output.epk.base = found.note.d
<1>1. PICK plaintext \in Opened(output.enc, kdf(ka_agree_dec(ivk, output.epk), output.epk)) :
        \E note \in {n \in parse_ivk(domain, ivk, plaintext) : Valid(n, output)} :
          found = Found(note, plaintext)
  BY DEF decrypt
<1>2. PICK note : /\ note \in parse_ivk(domain, ivk, plaintext) /\ Valid(note, output)
                  /\ found = Found(note, plaintext)
  BY <1>1
<1>3. found.note = note
  BY <1>2 DEF Found
<1>4. /\ note.rho = domain.rho /\ note.d = plaintext.d
      /\ note.pk_d = Times(diversify_hash(plaintext.d), ivk)
  BY <1>2 DEF parse_ivk, parse, from_parts
<1>5. commitment(note) = output.cm /\ ka_derive_public(note, esk(note.rseed, note.rho)) = output.epk
  BY <1>2 DEF Valid, derive_esk
<1>6. output.epk.base = note.d
  BY <1>5 DEF ka_derive_public, Times, diversify_hash
<1> QED
  BY <1>3, <1>4, <1>5, <1>6

(* "find and rebuild a note" (decrypt): whatever is published, what a
   wallet finds is what the action commits to, at its own address.         *)
THEOREM FoundNotesHold == DeliverySpec => []FoundNotesAreCommitted
<1>1. FoundNotesAreCommitted
  <2> SUFFICES ASSUME NEW u \in User, NEW i \in DOMAIN published, NEW found \in FoundBy(u, i)
               PROVE  /\ commitment(found.note) = published[i].output.cm
                      /\ found.note.rho = published[i].rho
                      /\ owns(full_viewing_key(u), [d |-> found.note.d, pk_d |-> found.note.pk_d])
                      /\ published[i].output.epk.base = found.note.d
    BY DEF FoundNotesAreCommitted
  <2>1. found \in decrypt(Domain(i), IvkOf(u), published[i].output)
    BY FindsWithKey
  <2>2. /\ commitment(found.note) = published[i].output.cm
        /\ found.note.rho = Domain(i).rho
        /\ found.note.pk_d = Times(diversify_hash(found.note.d), IvkOf(u))
        /\ published[i].output.epk.base = found.note.d
    BY <2>1, FoundIsValid
  <2>3. Domain(i).rho = published[i].rho
    BY DEF Domain
  <2>4. full_viewing_key(u).ivk = IvkOf(u)
    BY KeysAreTheSame DEF FvkOf
  <2>5. owns(full_viewing_key(u), [d |-> found.note.d, pk_d |-> found.note.pk_d])
    BY <2>2, <2>4 DEF owns, address
  <2> QED
    BY <2>2, <2>3, <2>5
<1> QED
  BY <1>1, PTL
-----------------------------------------------------------------------------
(* An address as it was handed out.                                        *)
IsHandedOut(a) ==
  /\ a.user \in User /\ a.month \in 1..12
  /\ a = [user |-> a.user, year |-> a.year, month |-> a.month, address |-> a.address]
  /\ a.address.d = [ivk |-> IvkOf(a.user), year |-> a.year, month |-> a.month]
  /\ a.address.pk_d = Times(diversify_hash(a.address.d), IvkOf(a.user))
  /\ a.address = [d |-> a.address.d, pk_d |-> a.address.pk_d]

(* A note of build, to one of these addresses.                             *)
IsOutputNote(note, to, value, expiry, text, at) ==
  /\ ~(value >= VALUE_LIMIT \/ Now >= TIME_LIMIT \/ expiry >= EXPIRY_LIMIT)
  /\ note = [community |-> Community, value |-> value, t_note |-> Now, kind |-> "Normal",
             expiry_epoch |-> expiry, d |-> to.address.d, pk_d |-> to.address.pk_d,
             rho |-> at, memo_cm |-> commit(text, at), rseed |-> at]

(* What the sender with the key ovk published as output, if it wanted to
   recover it.                                                             *)
IsOutput(output, note, text, from, cv, recoverable) ==
  \/ recoverable /\ output = encrypt(note, text, {from}, cv)
  \/ ~recoverable /\ output = encrypt(note, text, {}, cv)

IsSend(s, mail) ==
  /\ s.from \in User /\ IsHandedOut(s.to)
  /\ s.at \in 1..Len(mail) /\ mail[s.at].rho = s.at
  /\ \E value, expiry : IsOutputNote(s.note, s.to, value, expiry, s.text, s.at)
  /\ IsOutput(mail[s.at].output, s.note, s.text, s.from, mail[s.at].cv, s.recoverable)

(* What was published has the parts of a mail.                             *)
IsMail(entry) ==
  \E rho, cv, output, sealed :
    entry = [rho |-> rho, cv |-> cv, output |-> output, sealed |-> sealed]

(* A text that was shown for a commitment is the one in it.                *)
IsShown(a) == a.text = a.cm.memo_cm.text

MailInv ==
  /\ Listed(published)
  /\ \A i \in DOMAIN published : IsMail(published[i])
  /\ \A a \in addresses : IsHandedOut(a)
  /\ \A s \in sends : IsSend(s, published)
  /\ \A a \in shown : IsShown(a)

(* creation_address gives one address, with the month as it was asked for. *)
LEMMA AddressIsHandedOut ==
  ASSUME NEW u \in User, NEW year, NEW month \in Month,
         NEW a \in creation_address(full_viewing_key(u), year, month)
  PROVE  IsHandedOut([user |-> u, year |-> year, month |-> month, address |-> a])
<1> DEFINE d == [ivk |-> IvkOf(u), year |-> year, month |-> month % BYTE]
<1>1. full_viewing_key(u).ivk = IvkOf(u)
  BY KeysAreTheSame DEF FvkOf
<1>2. month \in 1..12 /\ a = address(full_viewing_key(u), d)
  BY <1>1 DEF creation_address
<1>3. month % BYTE = month
  <2>1. month \in Nat /\ BYTE \in Nat \ {0} /\ month < BYTE
    BY <1>2, ByteAssumption
  <2> QED
    BY <2>1, SmallRemainder
<1>4. a = [d |-> d, pk_d |-> Times(diversify_hash(d), IvkOf(u))]
  BY <1>1, <1>2 DEF address
<1>5. a.d = d /\ a.pk_d = Times(diversify_hash(d), IvkOf(u))
  BY <1>4
<1>6. d = [ivk |-> IvkOf(u), year |-> year, month |-> month]
  BY <1>3
<1> HIDE DEF d
<1>7. a = [d |-> a.d, pk_d |-> a.pk_d]
  BY <1>4, <1>5
<1> QED
  BY <1>2, <1>5, <1>6, <1>7 DEF IsHandedOut

(* Two addresses handed out are the same only for one user and month.      *)
LEMMA AddressesDiffer ==
  ASSUME NEW a, IsHandedOut(a), NEW b, IsHandedOut(b), a.address = b.address
  PROVE  a = b
<1>1. [ivk |-> IvkOf(a.user), year |-> a.year, month |-> a.month] =
      [ivk |-> IvkOf(b.user), year |-> b.year, month |-> b.month]
  BY DEF IsHandedOut
<1>2. IvkOf(a.user) = IvkOf(b.user) /\ a.year = b.year /\ a.month = b.month
  BY <1>1
<1>3. a.user = b.user
  BY <1>2, KeysDiffer
<1> QED
  BY <1>2, <1>3 DEF IsHandedOut

(* MailInv holds in the beginning.                                         *)
LEMMA InitMailInv == DeliveryInit => MailInv
<1> SUFFICES ASSUME DeliveryInit PROVE MailInv
  OBVIOUS
<1>1. Listed(<<>>)
  <2>1. DOMAIN <<>> = 1..0 /\ <<>> = [i \in 1..0 |-> <<>>[i]]
    OBVIOUS
  <2> QED
    BY <2>1, Lists
<1> QED
  BY <1>1 DEF DeliveryInit, MailInv

(* What is published goes to the end, and what was sent stays.             *)
LEMMA SendsStay ==
  ASSUME MailInv, NEW cv, NEW output, NEW sealed, Publish(cv, output, sealed)
  PROVE  /\ Listed(published') /\ Len(published') = Fresh /\ Fresh \in 1..Fresh
         /\ published'[Fresh] = [rho |-> Fresh, cv |-> cv, output |-> output, sealed |-> sealed]
         /\ \A i \in DOMAIN published' : IsMail(published'[i])
         /\ addresses' = addresses /\ shown' = shown
         /\ \A s \in sends : IsSend(s, published')
<1> DEFINE entry == [rho |-> Fresh, cv |-> cv, output |-> output, sealed |-> sealed]
           mail == published'
<1>1. Listed(published) /\ Len(published) \in Nat
  BY ListedProperties DEF MailInv
<1>2. mail = Append(published, entry) /\ addresses' = addresses /\ shown' = shown
  BY DEF Publish
<1>7. IsMail(entry)
  BY Zenon DEF IsMail
<1> HIDE DEF entry, mail
<1>3. /\ Listed(mail) /\ Len(mail) = Len(published) + 1
      /\ \A i \in 1..Len(published) : mail[i] = published[i]
      /\ mail[Len(published) + 1] = entry
  BY <1>1, <1>2, Appending
<1>4. \A i \in 1..Len(published) : i \in 1..Len(mail) /\ mail[i] = published[i]
  BY <1>1, <1>3
<1>5. ASSUME NEW s \in sends PROVE IsSend(s, mail)
  <2>1. IsSend(s, published)
    BY DEF MailInv
  <2>2. s.at \in 1..Len(published)
    BY <2>1 DEF IsSend
  <2>3. s.at \in 1..Len(mail) /\ mail[s.at] = published[s.at]
    BY <1>4, <2>2
  <2> QED
    BY <2>1, <2>3, Zenon DEF IsSend
<1>6. Len(mail) = Fresh /\ Fresh \in 1..Fresh /\ mail[Fresh] = entry
  BY <1>1, <1>3 DEF Fresh
<1>8. ASSUME NEW i \in DOMAIN mail PROVE IsMail(mail[i])
  <2>1. i \in 1..Len(published) \/ i = Len(published) + 1
    <3>1. i \in 1..(Len(published) + 1)
      BY <1>3, ListedProperties
    <3> QED
      BY <1>1, <3>1
  <2>2. CASE i \in 1..Len(published)
    <3>1. i \in DOMAIN published
      BY <1>1, <2>2, ListedProperties
    <3>2. IsMail(published[i])
      BY <3>1 DEF MailInv
    <3> QED
      BY <1>3, <2>2, <3>2
  <2>3. CASE i = Len(published) + 1
    BY <1>3, <1>7, <2>3
  <2> QED
    BY <2>1, <2>2, <2>3
<1> QED
  BY <1>2, <1>3, <1>5, <1>6, <1>8 DEF mail, entry

(* A memo exchanged leaves all else of what was published.                 *)
LEMMA ExchangeKeeps ==
  ASSUME MailInv, NEW i \in DOMAIN published, NEW key, NEW text, NEW r_memo,
         Exchange(i, key, text, r_memo)
  PROVE  MailInv'
<1> DEFINE entry == [published[i] EXCEPT !.sealed = seal(key, text, r_memo)]
           mail == [published EXCEPT ![i] = entry]
<1>1. /\ published' = mail
      /\ addresses' = addresses /\ sends' = sends /\ shown' = shown
  BY DEF Exchange
<1>2. Len(published) \in Nat /\ DOMAIN published = 1..Len(published)
  BY ListedProperties DEF MailInv
<1>3. IsMail(published[i])
  BY DEF MailInv
<1>4. PICK rho, cv, output, sealed :
        published[i] = [rho |-> rho, cv |-> cv, output |-> output, sealed |-> sealed]
  BY <1>3 DEF IsMail
<1>5. entry = [rho |-> rho, cv |-> cv, output |-> output, sealed |-> seal(key, text, r_memo)]
  BY <1>4
<1>6. /\ entry.rho = published[i].rho /\ entry.cv = published[i].cv
      /\ entry.output = published[i].output
  BY <1>4, <1>5
<1>7. IsMail(entry)
  BY <1>5, Zenon DEF IsMail
<1> HIDE DEF entry
<1>8. /\ DOMAIN mail = 1..Len(published) /\ mail[i] = entry
      /\ \A j \in 1..Len(published) : j # i => mail[j] = published[j]
      /\ mail = [j \in 1..Len(published) |-> mail[j]]
  BY <1>2
<1> HIDE DEF mail
<1>9. Listed(mail) /\ Len(mail) = Len(published)
  BY <1>2, <1>8, Lists
<1>10. ASSUME NEW j \in DOMAIN mail
       PROVE  /\ IsMail(mail[j]) /\ mail[j].rho = published[j].rho
              /\ mail[j].cv = published[j].cv /\ mail[j].output = published[j].output
  <2>1. CASE j = i
    BY <1>6, <1>7, <1>8, <2>1
  <2>2. CASE j # i
    BY <1>2, <1>8, <2>2 DEF MailInv
  <2> QED
    BY <2>1, <2>2
<1>11. ASSUME NEW s \in sends PROVE IsSend(s, mail)
  <2>1. IsSend(s, published)
    BY DEF MailInv
  <2>2. s.at \in 1..Len(published)
    BY <2>1 DEF IsSend
  <2>3. /\ s.at \in 1..Len(mail) /\ mail[s.at].rho = published[s.at].rho
        /\ mail[s.at].cv = published[s.at].cv /\ mail[s.at].output = published[s.at].output
    BY <1>8, <1>9, <1>10, <2>2
  <2> QED
    BY <2>1, <2>3, Zenon DEF IsSend
<1>12. (\A a \in addresses : IsHandedOut(a)) /\ \A a \in shown : IsShown(a)
  BY DEF MailInv
<1> QED
  BY <1>1, <1>9, <1>10, <1>11, <1>12, Zenon DEF MailInv

(* What recover lets through, whatever the output.                         *)
LEMMA RecoveredIsCommitted ==
  ASSUME NEW domain, NEW ovk, NEW cv, NEW output, NEW found \in recover(domain, ovk, cv, output)
  PROVE  commitment(found.note) = output.cm
<1>1. PICK op, plaintext, note : Valid(note, output) /\ found = Found(note, plaintext)
  BY DEF recover
<1>2. found.note = note
  BY <1>1 DEF Found
<1> QED
  BY <1>1, <1>2 DEF Valid

(* What is read is what the commitment of the ledger has.                  *)
LEMMA ReadKeeps ==
  ASSUME MailInv, NEW u \in User, NEW i, NEW key, Read(u, i, key)
  PROVE  MailInv'
<1>1. PICK seen \in FoundBy(u, i) \cup RecoveredBy(u, i) :
        \E memo \in MemosOf(seen.note, i, key) :
          shown' = shown \cup {[cm |-> published[i].output.cm, text |-> memo.text]}
  BY Zenon DEF Read
<1>2. PICK memo \in MemosOf(seen.note, i, key) :
        shown' = shown \cup {[cm |-> published[i].output.cm, text |-> memo.text]}
  BY <1>1
<1> DEFINE a == [cm |-> published[i].output.cm, text |-> memo.text]
<1>3. commitment(seen.note) = published[i].output.cm
  <2>1. CASE seen \in FoundBy(u, i)
    <3>1. seen \in decrypt(Domain(i), IvkOf(u), published[i].output)
      BY <2>1, FindsWithKey
    <3> QED
      BY <3>1, FoundIsValid
  <2>2. CASE seen \in RecoveredBy(u, i)
    <3>1. seen \in recover(Domain(i), u, published[i].cv, published[i].output)
      BY <2>2, FindsWithKey
    <3> QED
      BY <3>1, RecoveredIsCommitted
  <2> QED
    BY <2>1, <2>2
<1>4. commit(memo.text, memo.r_memo) = seen.note.memo_cm
  BY DEF MemosOf, verify
<1>5. commitment(seen.note).memo_cm = seen.note.memo_cm
  BY DEF commitment
<1>6. commit(memo.text, memo.r_memo).text = memo.text
  BY DEF commit
<1>7. a.cm = published[i].output.cm /\ a.text = memo.text
  OBVIOUS
<1> HIDE DEF a
<1>8. IsShown(a)
  BY <1>3, <1>4, <1>5, <1>6, <1>7, Zenon DEF IsShown
<1>9. shown' = shown \cup {a}
  BY <1>2 DEF a
<1>10. \A b \in shown' : IsShown(b)
  BY <1>8, <1>9, Zenon DEF MailInv
<1>11. published' = published /\ addresses' = addresses /\ sends' = sends
  BY DEF Read
<1>12. /\ Listed(published) /\ \A j \in DOMAIN published : IsMail(published[j])
       /\ \A b \in addresses : IsHandedOut(b)
       /\ \A s \in sends : IsSend(s, published)
  BY DEF MailInv
<1> QED
  BY <1>10, <1>11, <1>12, Zenon DEF MailInv

(* Each step keeps MailInv.                                                *)
LEMMA NextKeepsMailInv ==
  ASSUME MailInv, [DeliveryNext]_deliveryVars
  PROVE  MailInv'
<1>1. ASSUME NEW u \in User, NEW year \in Year, NEW month \in Month, HandOut(u, year, month)
      PROVE  MailInv'
  <2>1. PICK a \in creation_address(full_viewing_key(u), year, month) :
          addresses' = addresses \cup {[user |-> u, year |-> year, month |-> month, address |-> a]}
    BY <1>1 DEF HandOut
  <2>2. IsHandedOut([user |-> u, year |-> year, month |-> month, address |-> a])
    BY AddressIsHandedOut
  <2>3. published' = published /\ sends' = sends /\ shown' = shown
    BY <1>1 DEF HandOut
  <2>4. \A b \in addresses' : IsHandedOut(b)
    BY <2>1, <2>2, Zenon DEF MailInv
  <2>5. /\ Listed(published) /\ \A i \in DOMAIN published : IsMail(published[i])
        /\ \A s \in sends : IsSend(s, published)
        /\ \A b \in shown : IsShown(b)
    BY DEF MailInv
  <2> QED
    BY <2>3, <2>4, <2>5, Zenon DEF MailInv
<1>2. ASSUME NEW u \in User, NEW to \in addresses, NEW value \in Value, NEW expiry \in Expiry,
             NEW text \in Text, NEW key \in SharedKey,
             NEW ovks \in SUBSET {full_viewing_key(u).ovk},
             Send(u, to, value, expiry, text, key, ovks)
      PROVE  MailInv'
  <2> DEFINE memo_cm == commit(text, Fresh)
  <2>1. PICK note \in from_parts(Community, value, Now, "Normal", expiry, to.address,
                                 Fresh, memo_cm, Fresh) :
          /\ Publish(Fresh, encrypt(note, text, ovks, Fresh), seal(key, text, Fresh))
          /\ sends' = sends \cup {[at |-> Fresh, from |-> u, recoverable |-> ovks # {},
                                   to |-> to, note |-> note, text |-> text, key |-> key]}
    BY <1>2, Zenon DEF Send
  <2> DEFINE output == encrypt(note, text, ovks, Fresh)
             recoverable == ovks # {}
             s == [at |-> Fresh, from |-> u, recoverable |-> recoverable,
                   to |-> to, note |-> note, text |-> text, key |-> key]
  <2>2. IsOutputNote(note, to, value, expiry, text, Fresh)
    BY <2>1 DEF from_parts, IsOutputNote
  <2>3. full_viewing_key(u).ovk = u
    BY KeysAreTheSame DEF FvkOf
  <2>4. ovks = {u} \/ ovks = {}
    BY <2>3
  <2>5. IsOutput(output, note, text, u, Fresh, recoverable)
    BY <2>4, Zenon DEF IsOutput
  <2>6. /\ s.at = Fresh /\ s.from = u /\ s.to = to /\ s.note = note /\ s.text = text
        /\ s.recoverable = recoverable
    BY Zenon
  <2>7. Publish(Fresh, output, seal(key, text, Fresh)) /\ sends' = sends \cup {s}
    BY <2>1, Zenon
  <2> HIDE DEF output, recoverable, s
  <2>8. /\ Listed(published') /\ Len(published') = Fresh /\ Fresh \in 1..Fresh
        /\ published'[Fresh] = [rho |-> Fresh, cv |-> Fresh, output |-> output,
                                sealed |-> seal(key, text, Fresh)]
        /\ \A i \in DOMAIN published' : IsMail(published'[i])
        /\ addresses' = addresses /\ shown' = shown
        /\ \A t \in sends : IsSend(t, published')
    BY <2>7, SendsStay
  <2>9. /\ published'[Fresh].rho = Fresh /\ published'[Fresh].cv = Fresh
        /\ published'[Fresh].output = output
    BY <2>8
  <2>10. /\ IsHandedOut(to) /\ \A b \in addresses : IsHandedOut(b)
         /\ \A b \in shown : IsShown(b)
    BY DEF MailInv
  <2>11. IsSend(s, published')
    BY <2>2, <2>5, <2>6, <2>8, <2>9, <2>10, Zenon DEF IsSend
  <2> QED
    BY <2>7, <2>8, <2>10, <2>11, Zenon DEF MailInv
<1>3. ASSUME NEW cv, NEW output, NEW sealed, Publish(cv, output, sealed), UNCHANGED sends
      PROVE  MailInv'
  <2>1. /\ Listed(published') /\ addresses' = addresses /\ shown' = shown
        /\ \A i \in DOMAIN published' : IsMail(published'[i])
        /\ \A s \in sends : IsSend(s, published')
    BY <1>3, SendsStay
  <2>2. (\A b \in addresses : IsHandedOut(b)) /\ \A b \in shown : IsShown(b)
    BY DEF MailInv
  <2> QED
    BY <1>3, <2>1, <2>2, Zenon DEF MailInv
<1>4. ASSUME NEW i, NEW j, NEW k, NEW l, Recombine(i, j, k, l) PROVE MailInv'
  BY <1>3, <1>4, Zenon DEF Recombine
<1>5. ASSUME NEW note_to, NEW sent_to, NEW value, NEW text, NEW key,
             Misaddress(note_to, sent_to, value, text, key)
      PROVE  MailInv'
  BY <1>3, <1>5, Zenon DEF Misaddress
<1>6. CASE UNCHANGED deliveryVars
  <2>1. /\ published' = published /\ addresses' = addresses /\ sends' = sends
        /\ shown' = shown
    BY <1>6 DEF deliveryVars
  <2> QED
    BY <2>1, Zenon DEF MailInv
<1>7. ASSUME NEW i \in DOMAIN published, NEW key \in MemoKey, NEW text \in Text,
             NEW r_memo \in DOMAIN published, Exchange(i, key, text, r_memo)
      PROVE  MailInv'
  BY <1>7, ExchangeKeeps
<1>8. ASSUME NEW u \in User, NEW i \in DOMAIN published, NEW key \in MemoKey, Read(u, i, key)
      PROVE  MailInv'
  BY <1>8, ReadKeeps
<1> QED
  BY <1>1, <1>2, <1>4, <1>5, <1>6, <1>7, <1>8, Zenon DEF DeliveryNext

(* MailInv is an invariant.                                                *)
LEMMA MailInvHolds == DeliverySpec => []MailInv
BY InitMailInv, NextKeepsMailInv, PTL DEF DeliverySpec

(* "so creations do not link across months" (creation_address): whoever
   asks for whichever months, an address serves one of them, and its owner
   recognises it.                                                          *)
THEOREM AddressesOfMonthsHold == DeliverySpec => []MonthsHaveTheirAddresses
<1>1. ASSUME MailInv PROVE MonthsHaveTheirAddresses
  <2>1. ASSUME NEW a \in addresses, NEW b \in addresses, a.address = b.address PROVE a = b
    BY <1>1, <2>1, AddressesDiffer DEF MailInv
  <2>2. ASSUME NEW a \in addresses PROVE \E fvk \in ViewingKeys(a.user) : owns(fvk, a.address)
    <3>1. IsHandedOut(a)
      BY <1>1 DEF MailInv
    <3>2. FvkOf(a.user) \in ViewingKeys(a.user) /\ FvkOf(a.user).ivk = IvkOf(a.user)
      BY <3>1, KeysAreTheSame DEF IsHandedOut, FvkOf
    <3>3. owns(FvkOf(a.user), a.address)
      BY <3>1, <3>2 DEF IsHandedOut, owns, address
    <3> QED
      BY <3>2, <3>3
  <2> QED
    BY <2>1, <2>2, Zenon DEF MonthsHaveTheirAddresses
<1> QED
  BY <1>1, MailInvHolds, PTL
-----------------------------------------------------------------------------
(* Key agreement: both sides come to the same key exactly if the scalar of
   the address and that of the reader are the same.                        *)
LEMMA KeysAgree ==
  ASSUME NEW d, NEW ivk, NEW other, NEW secret,
         NEW pk_d, pk_d = Times(diversify_hash(d), ivk),
         NEW epk, epk = Times(diversify_hash(d), secret),
         kdf(ka_agree_enc(secret, pk_d), epk) = kdf(ka_agree_dec(other, epk), epk)
  PROVE  ivk = other
<1> DEFINE mine == ka_agree_enc(secret, pk_d)
           read == ka_agree_dec(other, epk)
<1>1. mine.by = {ivk, secret}
  BY DEF ka_agree_enc, Times, diversify_hash
<1>2. read.by = {secret, other}
  BY DEF ka_agree_dec, Times, diversify_hash
<1>3. kdf(mine, epk).kdf = mine /\ kdf(read, epk).kdf = read
  BY DEF kdf
<1> HIDE DEF mine, read
<1>4. kdf(mine, epk) = kdf(read, epk)
  BY DEF mine, read
<1>5. {ivk, secret} = {secret, other}
  BY <1>1, <1>2, <1>3, <1>4
<1> QED
  BY <1>5

(* A point multiplied with one more scalar.                                *)
LEMMA MultipliedOnce ==
  ASSUME NEW d, NEW by, NEW scalar, NEW p, p = [base |-> d, by |-> by]
  PROVE  Times(p, scalar) = [base |-> d, by |-> by \cup {scalar}]
BY DEF Times

(* And they do come to the same key.                                       *)
LEMMA SameKey ==
  ASSUME NEW d, NEW ivk, NEW secret,
         NEW pk_d, pk_d = Times(diversify_hash(d), ivk),
         NEW epk, epk = Times(diversify_hash(d), secret)
  PROVE  kdf(ka_agree_enc(secret, pk_d), epk) = kdf(ka_agree_dec(ivk, epk), epk)
<1>1. diversify_hash(d) = [base |-> d, by |-> {}]
  BY Zenon DEF diversify_hash
<1>2. pk_d = [base |-> d, by |-> {} \cup {ivk}] /\ epk = [base |-> d, by |-> {} \cup {secret}]
  BY <1>1, MultipliedOnce, Zenon
<1>3. Times(pk_d, secret) = [base |-> d, by |-> ({} \cup {ivk}) \cup {secret}]
  BY <1>2, MultipliedOnce, ZenonT(40)
<1>4. Times(epk, ivk) = [base |-> d, by |-> ({} \cup {secret}) \cup {ivk}]
  BY <1>2, MultipliedOnce, ZenonT(40)
<1>5. ({} \cup {ivk}) \cup {secret} = ({} \cup {secret}) \cup {ivk}
  OBVIOUS
<1>6. Times(pk_d, secret) = Times(epk, ivk)
  BY <1>3, <1>5, <1>4, Zenon
<1> QED
  BY <1>6, Zenon DEF ka_agree_enc, ka_agree_dec

(* A ciphertext of one message opens for its key ...                       *)
LEMMA OpensForKey ==
  ASSUME NEW key, NEW plain, NEW text, text = {[key |-> key, plain |-> plain]}
  PROVE  Opened(text, key) = {plain}
<1> DEFINE c == [key |-> key, plain |-> plain]
<1>1. c.key = key /\ c.plain = plain
  OBVIOUS
<1> HIDE DEF c
<1>2. text = {c}
  BY DEF c
<1> QED
  BY <1>1, <1>2 DEF Opened

(* ... and for no other.                                                   *)
LEMMA OpensForNoOther ==
  ASSUME NEW key, NEW plain, NEW text, text = {[key |-> key, plain |-> plain]},
         NEW other, other # key
  PROVE  Opened(text, other) = {}
<1> DEFINE c == [key |-> key, plain |-> plain]
<1>1. c.key = key
  OBVIOUS
<1> HIDE DEF c
<1>2. text = {c}
  BY DEF c
<1> QED
  BY <1>1, <1>2 DEF Opened

(* What is parsed back, at the address it was encrypted to, is the note.   *)
LEMMA ParsedIsNote ==
  ASSUME NEW note, NEW to, NEW value, NEW expiry, NEW text, NEW at,
         IsOutputNote(note, to, value, expiry, text, at), NEW domain,
         domain = [community |-> Community, rho |-> at], NEW memo
  PROVE  parse(domain, note_plaintext(note, memo), note.pk_d) = {note}
<1>1. /\ note.community = Community /\ note.value = value /\ note.t_note = Now
      /\ note.kind = "Normal" /\ note.expiry_epoch = expiry /\ note.d = to.address.d
      /\ note.pk_d = to.address.pk_d /\ note.rho = at /\ note.memo_cm = commit(text, at)
      /\ note.rseed = at
  BY DEF IsOutputNote
<1> DEFINE p == note_plaintext(note, memo)
<1>2. /\ p.d = note.d /\ p.value = note.value /\ p.rseed = note.rseed /\ p.t_note = note.t_note
      /\ p.kind = note.kind /\ p.expiry_epoch = note.expiry_epoch /\ p.memo_cm = note.memo_cm
  BY DEF note_plaintext
<1> HIDE DEF p
<1> DEFINE addr == [d |-> p.d, pk_d |-> note.pk_d]
<1>3. domain.community = Community /\ domain.rho = at /\ addr.d = p.d /\ addr.pk_d = note.pk_d
  OBVIOUS
<1> HIDE DEF addr
<1>4. ~(value >= VALUE_LIMIT \/ Now >= TIME_LIMIT \/ expiry >= EXPIRY_LIMIT)
  BY Zenon DEF IsOutputNote
<1>5. from_parts(Community, value, Now, "Normal", expiry, addr, at, commit(text, at), at) = {note}
  <2>1. from_parts(Community, value, Now, "Normal", expiry, addr, at, commit(text, at), at) =
        {[community |-> Community, value |-> value, t_note |-> Now, kind |-> "Normal",
          expiry_epoch |-> expiry, d |-> addr.d, pk_d |-> addr.pk_d,
          rho |-> at, memo_cm |-> commit(text, at), rseed |-> at]}
    BY <1>4, Zenon DEF from_parts
  <2>2. note = [community |-> Community, value |-> value, t_note |-> Now, kind |-> "Normal",
                expiry_epoch |-> expiry, d |-> addr.d, pk_d |-> addr.pk_d,
                rho |-> at, memo_cm |-> commit(text, at), rseed |-> at]
    BY <1>1, <1>2, <1>3, Zenon DEF IsOutputNote
  <2> QED
    BY <2>1, <2>2
<1> QED
  BY <1>1, <1>2, <1>3, <1>5, Zenon DEF parse, p, addr

(* What encrypt makes passes the checks of a decrypted note.               *)
LEMMA EncryptedIsValid ==
  ASSUME NEW note, NEW text, NEW ovks, NEW cv, NEW output, output = encrypt(note, text, ovks, cv),
         NEW secret, secret = esk(note.rseed, note.rho),
         NEW epk, epk = ka_derive_public(note, secret)
  PROVE  /\ output.epk = epk /\ output.cm = commitment(note)
         /\ output.enc = {[key |-> kdf(ka_agree_enc(secret, note.pk_d), epk),
                           plain |-> note_plaintext(note, text)]}
         /\ output.out = {[key |-> derive_ock(ovk, cv, commitment(note), epk),
                           plain |-> [pk_d |-> note.pk_d, esk |-> secret]] : ovk \in ovks}
         /\ Valid(note, output)
BY DEF encrypt, Valid, derive_esk

(* decrypt finds the note if it is its address's, and nothing otherwise.   *)
LEMMA SentIsFound ==
  ASSUME NEW note, NEW to, NEW value, NEW expiry, NEW text, NEW at,
         IsOutputNote(note, to, value, expiry, text, at), NEW domain,
         domain = [community |-> Community, rho |-> at], NEW ovks, NEW cv, NEW ivk, NEW other,
         note.pk_d = Times(diversify_hash(note.d), ivk)
  PROVE  decrypt(domain, other, encrypt(note, text, ovks, cv)) =
           IF ivk = other THEN {[note |-> note, memo |-> text]} ELSE {}
<1> DEFINE output == encrypt(note, text, ovks, cv)
           secret == esk(note.rseed, note.rho)
           epk == ka_derive_public(note, secret)
           plain == note_plaintext(note, text)
           key == kdf(ka_agree_enc(secret, note.pk_d), epk)
           tried == kdf(ka_agree_dec(other, epk), epk)
<1>1. secret = esk(note.rseed, note.rho) /\ epk = ka_derive_public(note, secret)
       /\ output = encrypt(note, text, ovks, cv)
  OBVIOUS
<1>2. epk = Times(diversify_hash(note.d), secret)
  BY DEF ka_derive_public
<1> HIDE DEF secret, epk, output
<1>3. output.epk = epk /\ output.enc = {[key |-> key, plain |-> plain]} /\ Valid(note, output)
  BY <1>1, EncryptedIsValid
<1>4. key = tried <=> ivk = other
  <2>1. ASSUME key = tried PROVE ivk = other
    BY <1>2, <2>1, KeysAgree
  <2>2. ASSUME ivk = other PROVE key = tried
    BY <1>2, <2>2, SameKey
  <2> QED
    BY <2>1, <2>2
<1>5. plain.memo = text /\ plain.d = note.d
  BY DEF note_plaintext
<1>6. parse(domain, plain, note.pk_d) = {note}
  BY ParsedIsNote
<1> HIDE DEF output, plain, key
<1>7. tried = kdf(ka_agree_dec(other, output.epk), output.epk)
  BY <1>3
<1> HIDE DEF tried
<1>8. output.enc = {[key |-> key, plain |-> plain]}
  BY <1>3
<1>9. Opened(output.enc, kdf(ka_agree_dec(other, output.epk), output.epk)) =
        IF ivk = other THEN {plain} ELSE {}
  <2>1. CASE ivk = other
    <3>1. key = tried
      BY <1>4, <2>1
    <3>2. Opened(output.enc, key) = {plain}
      BY <1>8, OpensForKey
    <3> QED
      BY <1>7, <2>1, <3>1, <3>2, Zenon
  <2>2. CASE ivk # other
    <3>1. tried # key
      BY <1>4, <2>2
    <3>2. Opened(output.enc, tried) = {}
      BY <1>8, <3>1, OpensForNoOther
    <3> QED
      BY <1>7, <2>2, <3>2, Zenon
  <2> QED
    BY <2>1, <2>2
<1>10. CASE ivk = other
  <2>1. parse_ivk(domain, other, plain) = {note}
    BY <1>5, <1>6, <1>10, Zenon DEF parse_ivk
  <2>2. {n \in parse_ivk(domain, other, plain) : Valid(n, output)} = {note}
    BY <1>3, <2>1
  <2>3. {Found(n, plain) : n \in {n \in parse_ivk(domain, other, plain) : Valid(n, output)}} =
        {[note |-> note, memo |-> text]}
    BY <1>5, <2>2 DEF Found
  <2>4. Opened(output.enc, kdf(ka_agree_dec(other, output.epk), output.epk)) = {plain}
    BY <1>9, <1>10
  <2>5. decrypt(domain, other, output) =
        UNION {{Found(n, q) : n \in {n \in parse_ivk(domain, other, q) : Valid(n, output)}} : q \in {plain}}
    BY <2>4, Zenon DEF decrypt
  <2>6. decrypt(domain, other, output) =
        {Found(n, plain) : n \in {n \in parse_ivk(domain, other, plain) : Valid(n, output)}}
    BY <2>5
  <2> QED
    BY <1>10, <2>3, <2>6 DEF output
<1>11. CASE ivk # other
  <2>1. Opened(output.enc, kdf(ka_agree_dec(other, output.epk), output.epk)) = {}
    BY <1>9, <1>11
  <2>2. decrypt(domain, other, output) = {}
    BY <2>1 DEF decrypt
  <2> QED
    BY <1>11, <2>2 DEF output
<1> QED
  BY <1>10, <1>11

(* recover finds it for the outgoing key it was encrypted with.            *)
LEMMA SentIsRecovered ==
  ASSUME NEW note, NEW to, NEW value, NEW expiry, NEW text, NEW at,
         IsOutputNote(note, to, value, expiry, text, at), NEW domain,
         domain = [community |-> Community, rho |-> at], NEW from, NEW cv, NEW ovk
  PROVE  /\ recover(domain, ovk, cv, encrypt(note, text, {}, cv)) = {}
         /\ recover(domain, ovk, cv, encrypt(note, text, {from}, cv)) =
              IF from = ovk THEN {[note |-> note, memo |-> text]} ELSE {}
<1> DEFINE secret == esk(note.rseed, note.rho)
           epk == ka_derive_public(note, secret)
           cm == commitment(note)
           plain == note_plaintext(note, text)
           key == kdf(ka_agree_enc(secret, note.pk_d), epk)
           op == [pk_d |-> note.pk_d, esk |-> secret]
<1>1. recover(domain, ovk, cv, encrypt(note, text, {}, cv)) = {}
  <2> DEFINE output == encrypt(note, text, {}, cv)
  <2>1. output.out = {}
    BY EncryptedIsValid
  <2> HIDE DEF output
  <2>2. Opened(output.out, derive_ock(ovk, cv, output.cm, output.epk)) = {}
    BY <2>1 DEF Opened
  <2>3. recover(domain, ovk, cv, output) = {}
    BY <2>2 DEF recover
  <2> QED
    BY <2>3 DEF output
<1> DEFINE output == encrypt(note, text, {from}, cv)
<1>2. secret = esk(note.rseed, note.rho) /\ epk = ka_derive_public(note, secret)
       /\ output = encrypt(note, text, {from}, cv)
  OBVIOUS
<1> HIDE DEF secret, epk, output
<1>3. /\ output.epk = epk /\ output.cm = cm /\ output.enc = {[key |-> key, plain |-> plain]}
      /\ Valid(note, output)
  BY <1>2, EncryptedIsValid
<1>4. output.out = {[key |-> derive_ock(from, cv, cm, epk), plain |-> op]}
  <2>1. output.out = {[key |-> derive_ock(o, cv, cm, epk), plain |-> op] : o \in {from}}
    BY <1>2, EncryptedIsValid
  <2> HIDE DEF op, cm
  <2> QED
    BY <2>1
<1>5. plain.memo = text /\ op.pk_d = note.pk_d /\ op.esk = secret
  BY DEF note_plaintext
<1>6. parse(domain, plain, note.pk_d) = {note}
  BY ParsedIsNote
<1>7. derive_esk(note) = {secret}
  BY DEF derive_esk, secret
<1>8. derive_ock(from, cv, cm, epk) = derive_ock(ovk, cv, cm, epk) <=> from = ovk
  <2>1. derive_ock(from, cv, cm, epk).ovk = from /\ derive_ock(ovk, cv, cm, epk).ovk = ovk
    BY DEF derive_ock
  <2> QED
    BY <2>1
<1> HIDE DEF output, secret, epk, cm, plain, op
<1>9. Opened(output.out, derive_ock(ovk, cv, output.cm, output.epk)) = IF from = ovk THEN {op} ELSE {}
  <2> DEFINE ock == derive_ock(from, cv, cm, epk)
             tried == derive_ock(ovk, cv, cm, epk)
  <2>1. output.out = {[key |-> ock, plain |-> op]} /\ (ock = tried <=> from = ovk)
        /\ tried = derive_ock(ovk, cv, output.cm, output.epk)
    BY <1>3, <1>4, <1>8, Zenon
  <2> HIDE DEF ock, tried
  <2>2. output.out = {[key |-> ock, plain |-> op]}
    BY <2>1
  <2>3. CASE from = ovk
    <3>1. ock = tried
      BY <2>1, <2>3
    <3>2. Opened(output.out, ock) = {op}
      BY <2>2, OpensForKey
    <3> QED
      BY <2>1, <2>3, <3>1, <3>2, Zenon
  <2>4. CASE from # ovk
    <3>1. tried # ock
      BY <2>1, <2>4
    <3>2. Opened(output.out, tried) = {}
      BY <2>2, <3>1, OpensForNoOther
    <3> QED
      BY <2>1, <2>4, <3>2, Zenon
  <2> QED
    BY <2>3, <2>4
<1>10. CASE from = ovk
  <2>7. key = kdf(ka_agree_enc(op.esk, op.pk_d), output.epk)
    BY <1>3, <1>5, Zenon
  <2> HIDE DEF key
  <2>9. output.enc = {[key |-> key, plain |-> plain]}
    BY <1>3
  <2>8. Opened(output.enc, key) = {plain}
    BY <2>9, OpensForKey
  <2>1. Opened(output.enc, kdf(ka_agree_enc(op.esk, op.pk_d), output.epk)) = {plain}
    BY <2>7, <2>8, Zenon
  <2> DEFINE notes == {n \in parse(domain, plain, op.pk_d) :
                         /\ \A s \in derive_esk(n) : s = op.esk
                         /\ Valid(n, output)}
  <2>2. notes = {note}
    BY <1>3, <1>5, <1>6, <1>7
  <2> HIDE DEF notes
  <2>3. {Found(n, plain) : n \in notes} = {[note |-> note, memo |-> text]}
    BY <1>5, <2>2 DEF Found
  <2>4. recover(domain, ovk, cv, output) =
        UNION {UNION {{Found(n, q) : n \in {n \in parse(domain, q, o.pk_d) :
                                             /\ \A s \in derive_esk(n) : s = o.esk
                                             /\ Valid(n, output)}}
                       : q \in Opened(output.enc, kdf(ka_agree_enc(o.esk, o.pk_d), output.epk))}
               : o \in {op}}
    BY <1>9, <1>10, Zenon DEF recover
  <2>5. recover(domain, ovk, cv, output) =
        UNION {{Found(n, q) : n \in {n \in parse(domain, q, op.pk_d) :
                                      /\ \A s \in derive_esk(n) : s = op.esk
                                      /\ Valid(n, output)}} : q \in {plain}}
    BY <2>1, <2>4
  <2>6. recover(domain, ovk, cv, output) = {Found(n, plain) : n \in notes}
    BY <2>5 DEF notes
  <2> QED
    BY <1>1, <1>10, <2>3, <2>6 DEF output
<1>11. CASE from # ovk
  <2>1. Opened(output.out, derive_ock(ovk, cv, output.cm, output.epk)) = {}
    BY <1>9, <1>11
  <2>2. recover(domain, ovk, cv, output) = {}
    BY <2>1 DEF recover
  <2> QED
    BY <1>1, <1>11, <2>2 DEF output
<1> QED
  BY <1>10, <1>11

(* What is sent reaches its recipient, comes back to its sender and shows
   itself to nobody else.                                                  *)
LEMMA MailIsSeen == MailInv => SentNotesAreSeen
<1> SUFFICES ASSUME MailInv, NEW s \in sends, NEW u \in User
             PROVE  LET seen == {[note |-> s.note, memo |-> s.text]}
                    IN  /\ FoundBy(u, s.at) = IF u = s.to.user THEN seen ELSE {}
                        /\ RecoveredBy(u, s.at) =
                             IF u = s.from /\ s.recoverable THEN seen ELSE {}
  BY Zenon DEF SentNotesAreSeen
<1> DEFINE seen == {[note |-> s.note, memo |-> s.text]}
           entry == published[s.at]
<1>1. IsSend(s, published)
  BY Zenon DEF MailInv
<1>2. /\ IsHandedOut(s.to) /\ entry.rho = s.at
      /\ IsOutput(entry.output, s.note, s.text, s.from, entry.cv, s.recoverable)
  BY <1>1, Zenon DEF IsSend
<1>3. PICK value, expiry : IsOutputNote(s.note, s.to, value, expiry, s.text, s.at)
  BY <1>1, Zenon DEF IsSend
<1>4. Domain(s.at) = [community |-> Community, rho |-> s.at]
  BY <1>2, Zenon DEF Domain
<1> DEFINE domain == Domain(s.at)
           cv == entry.cv
           output == entry.output
<1>5. PICK ovks : /\ (ovks = {s.from} /\ s.recoverable) \/ (ovks = {} /\ ~s.recoverable)
                  /\ output = encrypt(s.note, s.text, ovks, cv)
  BY <1>2, Zenon DEF IsOutput
<1>6. /\ domain = [community |-> Community, rho |-> s.at] /\ IsHandedOut(s.to)
      /\ seen = {[note |-> s.note, memo |-> s.text]}
      /\ (ovks = {s.from} \/ ovks = {}) /\ output = encrypt(s.note, s.text, ovks, cv)
  BY <1>2, <1>4, <1>5, Zenon
<1> HIDE DEF domain, cv, output, seen
<1>7. ASSUME NEW note, note = s.note, NEW to, to = s.to, NEW text, text = s.text,
             NEW from, from = s.from, NEW at, at = s.at
      PROVE  /\ decrypt(domain, IvkOf(u), output) = IF u = to.user THEN seen ELSE {}
             /\ recover(domain, u, cv, output) = IF u \in ovks THEN seen ELSE {}
  <2>1. /\ IsOutputNote(note, to, value, expiry, text, at) /\ IsHandedOut(to)
        /\ domain = [community |-> Community, rho |-> at]
        /\ (ovks = {from} \/ ovks = {}) /\ output = encrypt(note, text, ovks, cv)
        /\ seen = {[note |-> note, memo |-> text]}
    BY <1>3, <1>6, <1>7, Zenon
  <2>2. note.pk_d = Times(diversify_hash(note.d), IvkOf(to.user))
    <3>1. note.d = to.address.d /\ note.pk_d = to.address.pk_d
      BY <2>1 DEF IsOutputNote
    <3>2. to.address.pk_d = Times(diversify_hash(to.address.d), IvkOf(to.user))
      BY <2>1, Zenon DEF IsHandedOut
    <3> QED
      BY <3>1, <3>2, Zenon
  <2>3. IvkOf(to.user) = IvkOf(u) <=> u = to.user
    BY KeysDiffer
  <2>4. decrypt(domain, IvkOf(u), encrypt(note, text, ovks, cv)) =
          IF IvkOf(to.user) = IvkOf(u) THEN {[note |-> note, memo |-> text]} ELSE {}
    BY <2>1, <2>2, SentIsFound
  <2>5. decrypt(domain, IvkOf(u), output) = IF u = to.user THEN seen ELSE {}
    BY <2>1, <2>3, <2>4, Zenon
  <2>6. recover(domain, u, cv, encrypt(note, text, {}, cv)) = {}
    BY <2>1, SentIsRecovered
  <2>7. recover(domain, u, cv, encrypt(note, text, {from}, cv)) =
          IF from = u THEN {[note |-> note, memo |-> text]} ELSE {}
    BY <2>1, SentIsRecovered
  <2>8. recover(domain, u, cv, output) = IF u \in ovks THEN seen ELSE {}
    <3>1. CASE ovks = {from}
      BY <2>1, <2>7, <3>1
    <3>2. CASE ovks = {}
      BY <2>1, <2>6, <3>2
    <3> QED
      BY <2>1, <3>1, <3>2
  <2> QED
    BY <2>5, <2>8, Zenon
<1>8. u \in {s.from} <=> u = s.from
  OBVIOUS
<1>9. u \in ovks <=> u = s.from /\ s.recoverable
  BY <1>5, <1>8, Zenon
<1>10. /\ FoundBy(u, s.at) = decrypt(domain, IvkOf(u), output)
      /\ RecoveredBy(u, s.at) = recover(domain, u, cv, output)
  BY FindsWithKey, Zenon DEF domain, cv, output
<1>11. /\ FoundBy(u, s.at) = IF u = s.to.user THEN seen ELSE {}
      /\ RecoveredBy(u, s.at) = IF u = s.from /\ s.recoverable THEN seen ELSE {}
  BY <1>10, <1>7, <1>9, Zenon
<1> QED
  BY <1>11, Zenon DEF seen

THEOREM SentNotesHold == DeliverySpec => []SentNotesAreSeen
BY MailIsSeen, MailInvHolds, PTL

(* "nobody can change the text afterwards": whoever reads, and whatever was
   exchanged in between, the text for a commitment of the ledger is the one
   in it, and a memo left alone is read.                                   *)
THEOREM MemosHold == DeliverySpec => []MemosAreCommitted
<1>1. ASSUME MailInv PROVE MemosAreCommitted
  <2>1. ASSUME NEW a \in shown, NEW b \in shown, a.cm = b.cm PROVE a.text = b.text
    BY <1>1, <2>1, Zenon DEF MailInv, IsShown
  <2>2. ASSUME NEW s \in sends
        PROVE  /\ s.note.memo_cm = commit(s.text, s.at)
               /\ s.to.user \in User
    <3>1. IsSend(s, published)
      BY <1>1, Zenon DEF MailInv
    <3>2. PICK value, expiry : IsOutputNote(s.note, s.to, value, expiry, s.text, s.at)
      BY <3>1, Zenon DEF IsSend
    <3>3. s.to.user \in User
      BY <3>1, Zenon DEF IsSend, IsHandedOut
    <3> QED
      BY <3>2, <3>3 DEF IsOutputNote
  <2>3. ASSUME NEW s \in sends, NEW a \in shown, a.cm = commitment(s.note)
        PROVE  a.text = s.text
    <3>1. a.text = commitment(s.note).memo_cm.text
      BY <1>1, <2>3, Zenon DEF MailInv, IsShown
    <3>2. commitment(s.note).memo_cm = s.note.memo_cm
      BY DEF commitment
    <3>3. commit(s.text, s.at).text = s.text
      BY DEF commit
    <3> QED
      BY <2>2, <3>1, <3>2, <3>3, Zenon
  <2>4. ASSUME NEW s \in sends, published[s.at].sealed = seal(s.key, s.text, s.at)
        PROVE  \E found \in FoundBy(s.to.user, s.at) :
                 \E memo \in MemosOf(found.note, s.at, s.key) : memo.text = s.text
    <3> DEFINE found == [note |-> s.note, memo |-> s.text]
               memo == [text |-> s.text, r_memo |-> s.at]
    <3>1. FoundBy(s.to.user, s.at) = {found}
      BY <1>1, <2>2, MailIsSeen, Zenon DEF SentNotesAreSeen
    <3>2. open(s.key, published[s.at].sealed) = {memo}
      <4>1. published[s.at].sealed = {[key |-> s.key, plain |-> memo]}
        BY <2>4, Zenon DEF seal
      <4> HIDE DEF memo
      <4>2. Opened(published[s.at].sealed, s.key) = {memo}
        BY <4>1, OpensForKey
      <4> QED
        BY <4>2, Zenon DEF open
    <3>3. memo.text = s.text /\ memo.r_memo = s.at /\ found.note = s.note
      OBVIOUS
    <3> HIDE DEF found, memo
    <3>4. verify(memo.text, memo.r_memo, found.note.memo_cm)
      BY <2>2, <3>3, Zenon DEF verify
    <3>5. memo \in MemosOf(found.note, s.at, s.key)
      BY <3>2, <3>4 DEF MemosOf
    <3> QED
      BY <3>1, <3>3, <3>5
  <2> QED
    BY <2>1, <2>3, <2>4, Zenon DEF MemosAreCommitted
<1> QED
  BY <1>1, MailInvHolds, PTL

-----------------------------------------------------------------------------
(* The hashes behind the sequence of leaves.  What is kept of a tree, and
   what a path has, are subtrees; a position goes up one level by halving. *)
Up(i, level) == i \div 2^level
Leaf(leaves, i) == IF i < Len(leaves) THEN leaves[i + 1] ELSE EmptyLeaf
Sibling(index) == IF index % 2 = 1 THEN index - 1 ELSE index + 1

(* One level further up.                                                   *)
LEMMA UpOnce ==
  ASSUME NEW i \in Nat, NEW level \in Level
  PROVE  /\ Up(i, level) \in Nat /\ Up(i, level + 1) \in Nat
         /\ Up(i, level) = 2 * Up(i, level + 1) + (IF IsRight(i, level) THEN 1 ELSE 0)
<1> DEFINE p == 2^level
           q == i \div p
           r == i % p
           h == q \div 2
           b == q % 2
<1>1. level \in 0..MERKLE_DEPTH
  BY DepthAssumption DEF Level
<1>2. p \in Nat \ {0} /\ 2^(level + 1) = 2 * p
  BY <1>1, PowerAssumption
<1>3. Up(i, level) = q /\ Up(i, level + 1) = i \div (2 * p) /\ (IsRight(i, level) <=> b = 1)
  BY <1>2 DEF Up, IsRight
<1> HIDE DEF p
<1>4. q \in Nat /\ r \in Nat /\ r < p /\ i = p * q + r
  BY <1>2
<1> HIDE DEF q, r
<1>5. h \in Nat /\ b \in 0..1 /\ q = 2 * h + b
  BY <1>4
<1> HIDE DEF h, b
<1>6. i \div (2 * p) = h
  <2> DEFINE n == 2 * p
             rest == b * p + r
  <2>1. n \in Nat \ {0} /\ rest \in Nat /\ rest < n
    <3>1. b = 0 \/ b = 1
      BY <1>5
    <3>2. b * p = 0 \/ b * p = p
      BY <1>2, <3>1
    <3> QED
      BY <1>2, <1>4, <3>2
  <2>2. i = h * n + rest
    <3>1. p * (2 * h + b) = h * (2 * p) + b * p
      BY <1>2, <1>5
    <3>2. p * q = p * (2 * h + b)
      BY <1>5
    <3>3. h * (2 * p) \in Nat /\ b * p \in Nat
      BY <1>2, <1>5
    <3> QED
      BY <1>4, <3>1, <3>2, <3>3
  <2> HIDE DEF n, rest
  <2>3. rest \div n = 0
    BY <2>1
  <2>4. i \div n = h
    BY <1>5, <2>1, <2>2, <2>3, WithMultiple
  <2> QED
    BY <2>4 DEF n
<1>7. CASE b = 1
  BY <1>3, <1>4, <1>5, <1>6, <1>7
<1>8. CASE b = 0
  BY <1>3, <1>4, <1>5, <1>6, <1>8
<1> QED
  BY <1>5, <1>7, <1>8

(* Going up keeps the order.                                               *)
LEMMA UpKeepsOrder ==
  ASSUME NEW i \in Nat, NEW j \in Nat, i <= j, NEW level \in 0..MERKLE_DEPTH
  PROVE  Up(i, level) \in Nat /\ Up(j, level) \in Nat /\ Up(i, level) <= Up(j, level)
<1> DEFINE p == 2^level
           q == i \div p
           t == j \div p
<1>1. p \in Nat \ {0}
  BY PowerAssumption
<1> HIDE DEF p
<1>2. q \in Nat /\ t \in Nat /\ p * q <= i /\ j < p * t + p
  BY <1>1
<1> HIDE DEF q, t
<1>3. q <= t
  <2> SUFFICES ASSUME t + 1 <= q PROVE FALSE
    BY <1>2
  <2>1. (t + 1) * p <= q * p
    BY <1>1, <1>2, ProductsGrow
  <2>2. (t + 1) * p = p * t + p /\ q * p = p * q /\ p * t \in Nat /\ p * q \in Nat
    BY <1>1, <1>2
  <2> QED
    BY <1>1, <1>2, <2>1, <2>2
<1> QED
  BY <1>2, <1>3 DEF Up, p, q, t

(* A position stays within its level, and ends at the root.                *)
LEMMA UpStaysInside ==
  ASSUME NEW i \in 0..(MAX_NOTES - 1)
  PROVE  /\ Up(i, 0) = i /\ Up(i, MERKLE_DEPTH) = 0
         /\ \A level \in 0..MERKLE_DEPTH : Up(i, level) \in 0..(2^(MERKLE_DEPTH - level) - 1)
<1> DEFINE n == MERKLE_DEPTH
           T == {m \in Nat : m <= n => Up(i, m) \in 0..(2^(n - m) - 1)}
<1>1. n \in Nat \ {0} /\ MAX_NOTES = 2^n /\ i \in Nat /\ 2^0 = 1
  BY DepthAssumption, MaxNotesAssumption, PowerAssumption
<1>2. Up(i, 0) = i
  BY <1>1 DEF Up
<1>3. 0 \in T
  <2>1. n - 0 = n
    BY <1>1
  <2> QED
    BY <1>1, <1>2, <2>1
<1>4. ASSUME NEW m \in Nat, m \in T PROVE m + 1 \in T
  <2> SUFFICES ASSUME m + 1 <= n PROVE Up(i, m + 1) \in 0..(2^(n - (m + 1)) - 1)
    OBVIOUS
  <2> DEFINE k == n - (m + 1)
             p == 2^k
  <2>1. m \in Level /\ k \in 0..n /\ n - m = k + 1
    BY <1>1 DEF Level
  <2>2. p \in Nat \ {0} /\ 2^(n - m) = 2 * p
    BY <2>1, PowerAssumption
  <2>3. Up(i, m) \in 0..(2^(n - m) - 1)
    BY <1>1, <1>4
  <2>4. Up(i, m + 1) \in Nat /\ 2 * Up(i, m + 1) <= Up(i, m)
    BY <1>1, <2>1, UpOnce
  <2> HIDE DEF p
  <2>5. Up(i, m + 1) \in 0..(p - 1)
    <3>1. ASSUME NEW x \in Nat, NEW y \in 0..(2 * p - 1), 2 * x <= y
          PROVE  x \in 0..(p - 1)
      BY <3>1, <2>2
    <3> QED
      BY <2>2, <2>3, <2>4, <3>1
  <2> QED
    BY <2>5 DEF p
<1>5. \A m \in Nat : m \in T
  <2> HIDE DEF T
  <2> QED
    BY <1>3, <1>4, InductionOnSet
<1>6. \A m \in 0..n : Up(i, m) \in 0..(2^(n - m) - 1)
  BY <1>1, <1>5
<1>7. Up(i, n) = 0
  <2>1. n \in 0..n /\ n - n = 0
    BY <1>1
  <2>2. Up(i, n) \in 0..(2^0 - 1)
    BY <1>6, <2>1
  <2> QED
    BY <1>1, <2>2
<1> QED
  BY <1>2, <1>6, <1>7

-----------------------------------------------------------------------------
(* The subtrees.                                                           *)
AreSubtrees(node, leaves, n) ==
  node = [level \in 0..n |->
            [index \in 0..(2^(MERKLE_DEPTH - level) - 1) |->
               IF level = 0
               THEN IF index < Len(leaves) THEN leaves[index + 1] ELSE EmptyLeaf
               ELSE combine(level - 1, node[level - 1][2 * index], node[level - 1][2 * index + 1])]]

(* Every sequence of leaves has its subtrees.                              *)
LEMMA SubtreesExist ==
  ASSUME NEW leaves
  PROVE  AreSubtrees(Subtrees(leaves), leaves, MERKLE_DEPTH)
<1> DEFINE T == {m \in Nat : \E node : AreSubtrees(node, leaves, m)}
           row(level, below) ==
             [index \in 0..(2^(MERKLE_DEPTH - level) - 1) |->
               IF level = 0
               THEN IF index < Len(leaves) THEN leaves[index + 1] ELSE EmptyLeaf
               ELSE combine(level - 1, below[2 * index], below[2 * index + 1])]
<1>1. \A node, n : AreSubtrees(node, leaves, n) <=> node = [level \in 0..n |-> row(level, node[level - 1])]
  BY Zenon DEF AreSubtrees
<1> HIDE DEF row
<1>2. 0 \in T
  <2> DEFINE f == [level \in 0..0 |-> row(0, leaves)]
  <2>0. \A below : row(0, below) = row(0, leaves)
    BY Zenon DEF row
  <2>1. f = [level \in 0..0 |-> row(level, f[level - 1])]
    BY <2>0
  <2> HIDE DEF f
  <2> QED
    BY <1>1, <2>1
<1>3. ASSUME NEW m \in Nat, m \in T PROVE m + 1 \in T
  <2>1. PICK f : f = [level \in 0..m |-> row(level, f[level - 1])]
    BY <1>1, <1>3
  <2> DEFINE g == [level \in 0..(m + 1) |-> row(level, f[level - 1])]
  <2>2. \A level \in 0..m : g[level] = f[level]
    <3> TAKE level \in 0..m
    <3>1. g[level] = row(level, f[level - 1])
      OBVIOUS
    <3> QED
      BY <2>1, <3>1
  <2>3. \A level \in 0..(m + 1) : level # 0 => g[level - 1] = f[level - 1]
    <3> HIDE DEF g
    <3>1. \A level \in 0..(m + 1) : level # 0 => level - 1 \in 0..m
      OBVIOUS
    <3> QED
      BY <2>2, <3>1
  <2>4. \A level \in 0..(m + 1) : row(level, f[level - 1]) = row(level, g[level - 1])
    <3> TAKE level \in 0..(m + 1)
    <3>1. CASE level = 0
      BY <3>1, Zenon DEF row
    <3>2. CASE level # 0
      BY <2>3, <3>2
    <3> QED
      BY <3>1, <3>2
  <2>5. g = [level \in 0..(m + 1) |-> row(level, g[level - 1])]
    BY <2>4
  <2> HIDE DEF g
  <2>6. \E node : AreSubtrees(node, leaves, m + 1)
    BY <1>1, <2>5, Zenon
  <2> QED
    BY <2>6
<1>4. MERKLE_DEPTH \in T
  <2> HIDE DEF T
  <2>1. MERKLE_DEPTH \in Nat
    BY DepthAssumption
  <2> QED
    BY <1>2, <1>3, <2>1, InductionOnSet
<1>5. \E node : AreSubtrees(node, leaves, MERKLE_DEPTH)
  BY <1>4
<1>6. Subtrees(leaves) = CHOOSE node : AreSubtrees(node, leaves, MERKLE_DEPTH)
  BY Zenon DEF Subtrees, AreSubtrees
<1> QED
  BY <1>5, <1>6, Zenon

(* A leaf, and a subtree of two.                                           *)
LEMMA SubtreeIs ==
  ASSUME NEW leaves, NEW node, node = Subtrees(leaves)
  PROVE  /\ \A i \in 0..(MAX_NOTES - 1) : node[0][i] = Leaf(leaves, i)
         /\ \A level \in Level : \A index \in 0..(2^(MERKLE_DEPTH - (level + 1)) - 1) :
              node[level + 1][index] =
                combine(level, node[level][2 * index], node[level][2 * index + 1])
<1>1. AreSubtrees(node, leaves, MERKLE_DEPTH)
  BY SubtreesExist
<1>2. MERKLE_DEPTH \in Nat \ {0} /\ MAX_NOTES = 2^MERKLE_DEPTH /\ MERKLE_DEPTH - 0 = MERKLE_DEPTH
  BY DepthAssumption
<1>3. ASSUME NEW i \in 0..(MAX_NOTES - 1) PROVE node[0][i] = Leaf(leaves, i)
  <2>1. 0 \in 0..MERKLE_DEPTH /\ i \in 0..(2^(MERKLE_DEPTH - 0) - 1)
    BY <1>2
  <2> QED
    BY <1>1, <2>1, SMTT(30) DEF AreSubtrees, Leaf
<1>4. ASSUME NEW level \in Level, NEW index \in 0..(2^(MERKLE_DEPTH - (level + 1)) - 1)
      PROVE  node[level + 1][index] =
               combine(level, node[level][2 * index], node[level][2 * index + 1])
  <2> DEFINE above == level + 1
  <2>1. above \in 0..MERKLE_DEPTH /\ above # 0 /\ above - 1 = level
    BY <1>2 DEF Level
  <2>2. index \in 0..(2^(MERKLE_DEPTH - above) - 1)
    OBVIOUS
  <2> HIDE DEF above
  <2>4. node[above] =
          [i \in 0..(2^(MERKLE_DEPTH - above) - 1) |->
             combine(above - 1, node[above - 1][2 * i], node[above - 1][2 * i + 1])]
    BY <1>1, <2>1 DEF AreSubtrees
  <2>3. node[above][index] =
          combine(above - 1, node[above - 1][2 * index], node[above - 1][2 * index + 1])
    BY <2>2, <2>4
  <2> QED
    BY <2>1, <2>3 DEF above
<1> QED
  BY <1>3, <1>4

-----------------------------------------------------------------------------
(* The indices of a level.                                                 *)
Indices(level) == 0..(2^(MERKLE_DEPTH - level) - 1)

(* The two children of a subtree, and what is under them.                  *)
LEMMA Children ==
  ASSUME NEW level \in Level, NEW index \in Indices(level + 1)
  PROVE  /\ index \in Nat /\ 2 * index \in Indices(level) /\ 2 * index + 1 \in Indices(level)
         /\ \A i \in Nat : Up(i, level + 1) = index <=>
                             Up(i, level) = 2 * index \/ Up(i, level) = 2 * index + 1
<1> DEFINE k == MERKLE_DEPTH - (level + 1)
           p == 2^k
<1>1. k \in 0..MERKLE_DEPTH /\ MERKLE_DEPTH - level = k + 1
  BY DepthAssumption DEF Level
<1>2. p \in Nat \ {0} /\ 2^(MERKLE_DEPTH - level) = 2 * p
  BY <1>1, PowerAssumption
<1>3. index \in 0..(p - 1)
  BY DEF Indices
<1> HIDE DEF p
<1>4. index \in Nat /\ 2 * index \in 0..(2 * p - 1) /\ 2 * index + 1 \in 0..(2 * p - 1)
  BY <1>2, <1>3
<1>5. ASSUME NEW i \in Nat
      PROVE  Up(i, level + 1) = index <=>
               Up(i, level) = 2 * index \/ Up(i, level) = 2 * index + 1
  <2> DEFINE u == Up(i, level)
             v == Up(i, level + 1)
  <2>1. u \in Nat /\ v \in Nat /\ (u = 2 * v \/ u = 2 * v + 1)
    BY UpOnce
  <2> HIDE DEF u, v
  <2>2. v = index <=> (u = 2 * index \/ u = 2 * index + 1)
    BY <1>4, <2>1
  <2> QED
    BY <2>2 DEF u, v
<1> QED
  BY <1>2, <1>4, <1>5 DEF Indices

(* Two trees that have the same leaves under a subtree.                    *)
Agree(a, b, level, index) ==
  \A i \in 0..(MAX_NOTES - 1) : Up(i, level) = index => Leaf(a, i) = Leaf(b, i)

(* The hash of two nodes tells them.                                       *)
LEMMA NoCollision ==
  ASSUME NEW level, NEW c, NEW d, NEW e, NEW h
  PROVE  combine(level, c, d) = combine(level, e, h) <=> c = e /\ d = h
BY DEF combine

(* A subtree tells the leaves under it, and depends on nothing else.       *)
LEMMA SubtreeTells ==
  ASSUME NEW a, NEW b
  PROVE  \A level \in 0..MERKLE_DEPTH : \A index \in Indices(level) :
           Subtrees(a)[level][index] = Subtrees(b)[level][index] <=> Agree(a, b, level, index)
<1> DEFINE f == Subtrees(a)
           g == Subtrees(b)
           T == {m \in Nat : m <= MERKLE_DEPTH =>
                   \A index \in Indices(m) : f[m][index] = g[m][index] <=> Agree(a, b, m, index)}
<1>1. /\ \A i \in 0..(MAX_NOTES - 1) : f[0][i] = Leaf(a, i) /\ g[0][i] = Leaf(b, i)
      /\ \A level \in Level : \A index \in Indices(level + 1) :
           /\ f[level + 1][index] = combine(level, f[level][2 * index], f[level][2 * index + 1])
           /\ g[level + 1][index] = combine(level, g[level][2 * index], g[level][2 * index + 1])
  BY SubtreeIs DEF Indices
<1>2. MERKLE_DEPTH \in Nat \ {0} /\ Indices(0) = 0..(MAX_NOTES - 1)
  <2>1. MERKLE_DEPTH \in Nat \ {0} /\ MAX_NOTES = 2^MERKLE_DEPTH
    BY DepthAssumption
  <2>2. MERKLE_DEPTH - 0 = MERKLE_DEPTH
    BY <2>1
  <2> QED
    BY <2>1, <2>2 DEF Indices
<1> HIDE DEF f, g
<1>3. 0 \in T
  <2> SUFFICES ASSUME NEW index \in 0..(MAX_NOTES - 1)
               PROVE  f[0][index] = g[0][index] <=> Agree(a, b, 0, index)
    BY <1>2
  <2>1. \A i \in 0..(MAX_NOTES - 1) : Up(i, 0) = i
    BY UpStaysInside
  <2>2. Agree(a, b, 0, index) <=> Leaf(a, index) = Leaf(b, index)
    BY <2>1, Zenon DEF Agree
  <2> QED
    BY <1>1, <2>2
<1>4. ASSUME NEW m \in Nat, m \in T PROVE m + 1 \in T
  <2> SUFFICES ASSUME m + 1 <= MERKLE_DEPTH, NEW index \in Indices(m + 1)
               PROVE  f[m + 1][index] = g[m + 1][index] <=> Agree(a, b, m + 1, index)
    OBVIOUS
  <2> DEFINE x == 2 * index
             y == 2 * index + 1
  <2>1. m \in Level
    BY <1>2 DEF Level
  <2>2. /\ x \in Indices(m) /\ y \in Indices(m)
        /\ \A i \in Nat : Up(i, m + 1) = index <=> Up(i, m) = x \/ Up(i, m) = y
    BY <2>1, Children
  <2>3. /\ f[m + 1][index] = combine(m, f[m][x], f[m][y])
        /\ g[m + 1][index] = combine(m, g[m][x], g[m][y])
    BY <1>1, <2>1
  <2> HIDE DEF x, y
  <2>4. /\ f[m][x] = g[m][x] <=> Agree(a, b, m, x)
        /\ f[m][y] = g[m][y] <=> Agree(a, b, m, y)
    BY <1>2, <1>4, <2>2
  <2>5. combine(m, f[m][x], f[m][y]) = combine(m, g[m][x], g[m][y]) <=>
          f[m][x] = g[m][x] /\ f[m][y] = g[m][y]
    BY NoCollision
  <2>6. Agree(a, b, m + 1, index) <=> Agree(a, b, m, x) /\ Agree(a, b, m, y)
    <3>1. \A i \in 0..(MAX_NOTES - 1) : Up(i, m + 1) = index <=> Up(i, m) = x \/ Up(i, m) = y
      BY <2>2, MaxNotesAssumption
    <3> QED
      BY <3>1, Zenon DEF Agree
  <2> QED
    BY <2>3, <2>4, <2>5, <2>6, Zenon
<1>5. \A m \in Nat : m \in T
  <2> HIDE DEF T
  <2> QED
    BY <1>3, <1>4, InductionOnSet
<1> QED
  BY <1>2, <1>5 DEF f, g

(* No more leaves, no less.                                                *)
LEMMA SameLeaves ==
  ASSUME NEW a \in Seq(Note), NEW b \in Seq(Note), Len(a) <= MAX_NOTES, Len(b) <= MAX_NOTES,
         \A i \in 0..(MAX_NOTES - 1) : Leaf(a, i) = Leaf(b, i)
  PROVE  a = b
<1>1. /\ Len(a) \in Nat /\ Len(b) \in Nat /\ MAX_NOTES \in Nat
      /\ a = [i \in 1..Len(a) |-> a[i]] /\ b = [i \in 1..Len(b) |-> b[i]]
      /\ \A i \in 1..Len(a) : a[i] \in Note
      /\ \A i \in 1..Len(b) : b[i] \in Note
  BY MaxNotesAssumption
<1>2. EmptyLeaf \notin Note
  BY DepthAssumption
<1>3. ASSUME NEW i \in 0..(MAX_NOTES - 1) PROVE i < Len(a) <=> i < Len(b)
  <2>1. Leaf(a, i) = Leaf(b, i)
    OBVIOUS
  <2>2. (i < Len(a) => i + 1 \in 1..Len(a)) /\ (i < Len(b) => i + 1 \in 1..Len(b))
    BY <1>1
  <2> QED
    BY <1>1, <1>2, <2>1, <2>2 DEF Leaf
<1>4. Len(a) = Len(b)
  <2>1. ~(Len(a) < Len(b))
    <3> SUFFICES ASSUME Len(a) < Len(b) PROVE FALSE
      OBVIOUS
    <3>1. Len(a) \in 0..(MAX_NOTES - 1)
      BY <1>1
    <3> QED
      BY <1>1, <1>3, <3>1
  <2>2. ~(Len(b) < Len(a))
    <3> SUFFICES ASSUME Len(b) < Len(a) PROVE FALSE
      OBVIOUS
    <3>1. Len(b) \in 0..(MAX_NOTES - 1)
      BY <1>1
    <3> QED
      BY <1>1, <1>3, <3>1
  <2>3. Len(a) \in Nat /\ Len(b) \in Nat
    BY <1>1
  <2> QED
    BY <2>1, <2>2, <2>3
<1>5. ASSUME NEW i \in 1..Len(a) PROVE a[i] = b[i]
  <2>1. i - 1 \in 0..(MAX_NOTES - 1) /\ (i - 1) + 1 = i /\ i - 1 < Len(a) /\ i - 1 < Len(b)
    BY <1>1, <1>4
  <2>2. Leaf(a, i - 1) = Leaf(b, i - 1)
    BY <2>1
  <2> QED
    BY <2>1, <2>2 DEF Leaf
<1> QED
  BY <1>1, <1>4, <1>5

-----------------------------------------------------------------------------
(* Walks up the tree: a node and what stands beside it, level by level.    *)
IsWalk(node, n, leaf, pos, beside) ==
  node = [level \in 0..n |->
            IF level = 0 THEN leaf
            ELSE IF IsRight(pos, level - 1)
                 THEN combine(level - 1, beside[level - 1], node[level - 1])
                 ELSE combine(level - 1, node[level - 1], beside[level - 1])]

(* Every walk ends somewhere.                                              *)
LEMMA WalkExists ==
  ASSUME NEW n \in Nat, NEW leaf, NEW pos, NEW beside
  PROVE  \E node : IsWalk(node, n, leaf, pos, beside)
<1> DEFINE T == {m \in Nat : \E node : IsWalk(node, m, leaf, pos, beside)}
           up(level, below) ==
             IF level = 0 THEN leaf
             ELSE IF IsRight(pos, level - 1) THEN combine(level - 1, beside[level - 1], below)
                  ELSE combine(level - 1, below, beside[level - 1])
<1>1. \A node, m : IsWalk(node, m, leaf, pos, beside) <=>
                     node = [level \in 0..m |-> up(level, node[level - 1])]
  BY Zenon DEF IsWalk
<1>2. \A below : up(0, below) = leaf
  BY Zenon
<1> HIDE DEF up
<1>3. 0 \in T
  <2> DEFINE f == [level \in 0..0 |-> leaf]
  <2>1. f = [level \in 0..0 |-> up(level, f[level - 1])]
    BY <1>2
  <2> HIDE DEF f
  <2>2. \E node : IsWalk(node, 0, leaf, pos, beside)
    BY <1>1, <2>1, Zenon
  <2> QED
    BY <2>2
<1>4. ASSUME NEW m \in Nat, m \in T PROVE m + 1 \in T
  <2>1. PICK f : f = [level \in 0..m |-> up(level, f[level - 1])]
    BY <1>1, <1>4
  <2> DEFINE g == [level \in 0..(m + 1) |-> up(level, f[level - 1])]
  <2>2. \A level \in 0..m : g[level] = f[level]
    <3> TAKE level \in 0..m
    <3>1. g[level] = up(level, f[level - 1])
      OBVIOUS
    <3> QED
      BY <2>1, <3>1
  <2>3. \A level \in 0..(m + 1) : level # 0 => g[level - 1] = f[level - 1]
    <3> HIDE DEF g
    <3>1. \A level \in 0..(m + 1) : level # 0 => level - 1 \in 0..m
      OBVIOUS
    <3> QED
      BY <2>2, <3>1
  <2>4. \A level \in 0..(m + 1) : up(level, f[level - 1]) = up(level, g[level - 1])
    <3> TAKE level \in 0..(m + 1)
    <3>1. CASE level = 0
      BY <1>2, <3>1, Zenon
    <3>2. CASE level # 0
      BY <2>3, <3>2
    <3> QED
      BY <3>1, <3>2
  <2>5. g = [level \in 0..(m + 1) |-> up(level, g[level - 1])]
    BY <2>4
  <2> HIDE DEF g
  <2>6. \E node : IsWalk(node, m + 1, leaf, pos, beside)
    BY <1>1, <2>5, Zenon
  <2> QED
    BY <2>6
<1>5. n \in T
  <2> HIDE DEF T
  <2> QED
    BY <1>3, <1>4, InductionOnSet
<1> QED
  BY <1>5

(* From one level of a walk to the next.                                   *)
Climbs(node, n, leaf, pos, beside) ==
  /\ node[0] = leaf
  /\ \A level \in 0..(n - 1) :
       node[level + 1] = IF IsRight(pos, level)
                         THEN combine(level, beside[level], node[level])
                         ELSE combine(level, node[level], beside[level])

(* A walk climbs level by level.                                           *)
LEMMA WalkStep ==
  ASSUME NEW node, NEW n \in 0..MERKLE_DEPTH, NEW leaf, NEW pos \in Nat, NEW beside,
         IsWalk(node, n, leaf, pos, beside)
  PROVE  Climbs(node, n, leaf, pos, beside)
<1>1. n \in Nat
  BY DepthAssumption
<1>2. node[0] = leaf
  <2>1. 0 \in 0..n
    BY <1>1
  <2> QED
    BY <2>1 DEF IsWalk
<1>3. ASSUME NEW level \in 0..(n - 1)
      PROVE  node[level + 1] = IF IsRight(pos, level)
                               THEN combine(level, beside[level], node[level])
                               ELSE combine(level, node[level], beside[level])
  <2> DEFINE above == level + 1
  <2>1. above \in 0..n /\ above # 0 /\ above - 1 = level
    BY <1>1
  <2> HIDE DEF above
  <2>2. node[above] = IF IsRight(pos, above - 1)
                      THEN combine(above - 1, beside[above - 1], node[above - 1])
                      ELSE combine(above - 1, node[above - 1], beside[above - 1])
    BY <2>1, Zenon DEF IsWalk
  <2> QED
    BY <2>1, <2>2 DEF above
<1> QED
  BY <1>2, <1>3, Zenon DEF Climbs

(* A position's ancestor, as child of the next one.                        *)
LEMMA AncestorIs ==
  ASSUME NEW leaves, NEW pos \in 0..(MAX_NOTES - 1), NEW level \in Level,
         NEW s, s = Subtrees(leaves), NEW u, u = Up(pos, level)
  PROVE  /\ IsRight(pos, level) <=> u % 2 = 1
         /\ u \in Indices(level) /\ Sibling(u) \in Indices(level)
         /\ s[level + 1][Up(pos, level + 1)] =
              IF IsRight(pos, level) THEN combine(level, s[level][Sibling(u)], s[level][u])
                                     ELSE combine(level, s[level][u], s[level][Sibling(u)])
<1> DEFINE v == Up(pos, level + 1)
<1>1. pos \in Nat /\ level + 1 \in 0..MERKLE_DEPTH
  BY DepthAssumption DEF Level
<1>2. v \in Nat /\ u \in Nat /\ u = 2 * v + (IF IsRight(pos, level) THEN 1 ELSE 0)
  BY <1>1, UpOnce
<1>3. IsRight(pos, level) <=> u % 2 = 1
  BY Zenon DEF IsRight, Up
<1>4. v \in Indices(level + 1)
  BY <1>1, UpStaysInside DEF Indices
<1>5. 2 * v \in Indices(level) /\ 2 * v + 1 \in Indices(level)
  BY <1>4, Children
<1>6. s[level + 1][v] = combine(level, s[level][2 * v], s[level][2 * v + 1])
  BY <1>4, SubtreeIs DEF Indices
<1> HIDE DEF v
<1>7. CASE IsRight(pos, level)
  <2>1. u = 2 * v + 1 /\ Sibling(u) = 2 * v
    BY <1>2, <1>3, <1>7 DEF Sibling
  <2> QED
    BY <1>3, <1>5, <1>6, <1>7, <2>1 DEF v
<1>8. CASE ~IsRight(pos, level)
  <2>1. u = 2 * v /\ Sibling(u) = 2 * v + 1
    BY <1>2, <1>3, <1>8 DEF Sibling
  <2> QED
    BY <1>3, <1>5, <1>6, <1>8, <2>1 DEF v
<1> QED
  BY <1>7, <1>8

(* A walk past the siblings of a leaf's ancestors visits these.            *)
LEMMA WalkVisitsAncestors ==
  ASSUME NEW leaves, NEW s, s = Subtrees(leaves), NEW pos \in 0..(MAX_NOTES - 1),
         NEW n \in 0..MERKLE_DEPTH, NEW node, NEW beside,
         NEW leaf, leaf = Leaf(leaves, pos), IsWalk(node, n, leaf, pos, beside),
         \A level \in 0..(n - 1) : beside[level] = s[level][Sibling(Up(pos, level))]
  PROVE  node[n] = s[n][Up(pos, n)]
<1> DEFINE S == {m \in Nat : m <= n => node[m] = s[m][Up(pos, m)]}
<1>1. pos \in Nat /\ n \in Nat /\ MERKLE_DEPTH \in Nat
  BY DepthAssumption, MaxNotesAssumption
<1>2. Climbs(node, n, leaf, pos, beside)
  BY <1>1, WalkStep
<1>3. 0 \in S
  <2>1. Up(pos, 0) = pos /\ s[0][pos] = Leaf(leaves, pos)
    BY UpStaysInside, SubtreeIs
  <2> QED
    BY <1>2, <2>1 DEF Climbs
<1>4. ASSUME NEW m \in Nat, m \in S PROVE m + 1 \in S
  <2> SUFFICES ASSUME m + 1 <= n PROVE node[m + 1] = s[m + 1][Up(pos, m + 1)]
    OBVIOUS
  <2>1. m \in 0..(n - 1) /\ m \in Level /\ m <= n
    BY <1>1 DEF Level
  <2> DEFINE u == Up(pos, m)
  <2>2. node[m] = s[m][u] /\ beside[m] = s[m][Sibling(u)]
    BY <1>4, <2>1
  <2>3. s[m + 1][Up(pos, m + 1)] =
          IF IsRight(pos, m) THEN combine(m, s[m][Sibling(u)], s[m][u])
                             ELSE combine(m, s[m][u], s[m][Sibling(u)])
    BY <2>1, AncestorIs
  <2> HIDE DEF u
  <2> QED
    BY <1>2, <2>1, <2>2, <2>3 DEF Climbs
<1>5. \A m \in Nat : m \in S
  <2> HIDE DEF S
  <2> QED
    BY <1>3, <1>4, InductionOnSet
<1> QED
  BY <1>1, <1>5

(* A walk that ends at the root of a tree began at the tree's leaf.        *)
LEMMA WalkTellsLeaf ==
  ASSUME NEW leaves, NEW s, s = Subtrees(leaves), NEW pos \in 0..(MAX_NOTES - 1),
         NEW node, NEW leaf, NEW beside, IsWalk(node, MERKLE_DEPTH, leaf, pos, beside),
         node[MERKLE_DEPTH] = s[MERKLE_DEPTH][0]
  PROVE  leaf = Leaf(leaves, pos)
<1> DEFINE n == MERKLE_DEPTH
           S == {m \in Nat : m <= n => node[n - m] = s[n - m][Up(pos, n - m)]}
<1>1. pos \in Nat /\ n \in Nat \ {0} /\ n \in 0..n /\ n - 0 = n
  BY DepthAssumption, MaxNotesAssumption
<1>2. Climbs(node, n, leaf, pos, beside)
  BY <1>1, WalkStep
<1>3. 0 \in S
  <2>1. Up(pos, n) = 0
    BY UpStaysInside
  <2> QED
    BY <1>1, <2>1
<1>4. ASSUME NEW m \in Nat, m \in S PROVE m + 1 \in S
  <2> SUFFICES ASSUME m + 1 <= n PROVE node[n - (m + 1)] = s[n - (m + 1)][Up(pos, n - (m + 1))]
    OBVIOUS
  <2> DEFINE k == n - (m + 1)
             u == Up(pos, k)
  <2>1. k \in Level /\ k \in 0..(n - 1) /\ n - m = k + 1 /\ m <= n
    BY <1>1 DEF Level
  <2>2. node[k + 1] = s[k + 1][Up(pos, k + 1)]
    BY <1>4, <2>1
  <2> HIDE DEF k
  <2>3. s[k + 1][Up(pos, k + 1)] =
          IF IsRight(pos, k) THEN combine(k, s[k][Sibling(u)], s[k][u])
                             ELSE combine(k, s[k][u], s[k][Sibling(u)])
    BY <2>1, AncestorIs
  <2>4. node[k + 1] = IF IsRight(pos, k)
                      THEN combine(k, beside[k], node[k]) ELSE combine(k, node[k], beside[k])
    BY <1>2, <2>1 DEF Climbs
  <2> HIDE DEF u
  <2>5. node[k] = s[k][u]
    BY <2>2, <2>3, <2>4, NoCollision
  <2> QED
    BY <2>5 DEF k, u
<1>5. \A m \in Nat : m \in S
  <2> HIDE DEF S
  <2> QED
    BY <1>3, <1>4, InductionOnSet
<1>6. node[0] = s[0][Up(pos, 0)]
  <2>1. n \in S /\ n - n = 0 /\ n <= n
    BY <1>1, <1>5
  <2> QED
    BY <2>1
<1>7. Up(pos, 0) = pos /\ s[0][pos] = Leaf(leaves, pos)
  BY UpStaysInside, SubtreeIs
<1> QED
  BY <1>2, <1>6, <1>7 DEF Climbs

-----------------------------------------------------------------------------
AreEmptyRoots(empties) ==
  empties = [level \in 0..MERKLE_DEPTH |->
             IF level = 0 THEN EmptyLeaf
             ELSE combine(level - 1, empties[level - 1], empties[level - 1])]

(* The table of empty roots is one of any empty tree's subtrees.           *)
LEMMA EmptyRootsAre ==
  ASSUME NEW leaves, NEW level \in 0..MERKLE_DEPTH, NEW index \in Indices(level),
         \A i \in 0..(MAX_NOTES - 1) : Up(i, level) = index => Leaf(leaves, i) = EmptyLeaf
  PROVE  Subtrees(leaves)[level][index] = empty_roots[level]
<1> DEFINE s == Subtrees(<<>>)
           n == MERKLE_DEPTH
           empties == [l \in 0..n |-> s[l][0]]
           R == {m \in Nat : m <= n => \A i \in Indices(m) : s[m][i] = s[m][0]}
           S == {m \in Nat : m <= n => \A i \in Indices(m) : s[m][i] = empty_roots[m]}
<1>1. /\ \A i \in 0..(MAX_NOTES - 1) : s[0][i] = Leaf(<<>>, i)
      /\ \A l \in Level : \A i \in Indices(l + 1) :
           s[l + 1][i] = combine(l, s[l][2 * i], s[l][2 * i + 1])
  BY SubtreeIs DEF Indices
<1>2. n \in Nat \ {0} /\ Indices(0) = 0..(MAX_NOTES - 1) /\ \A m \in 0..n : 0 \in Indices(m)
  <2>1. n \in Nat \ {0} /\ MAX_NOTES = 2^n /\ n - 0 = n
    BY DepthAssumption
  <2>2. ASSUME NEW m \in 0..n PROVE 0 \in Indices(m)
    <3>1. n - m \in 0..n
      BY <2>1
    <3>2. 2^(n - m) \in Nat \ {0}
      BY <3>1, PowerAssumption
    <3> QED
      BY <3>2 DEF Indices
  <2> QED
    BY <2>1, <2>2 DEF Indices
<1>3. \A i \in Nat : Leaf(<<>>, i) = EmptyLeaf
  BY DEF Leaf
<1> HIDE DEF s
<1>4. \A i \in Indices(0) : s[0][i] = EmptyLeaf
  BY <1>1, <1>2, <1>3, MaxNotesAssumption
<1>5. ASSUME NEW m \in Nat, m \in R PROVE m + 1 \in R
  <2> SUFFICES ASSUME m + 1 <= n, NEW i \in Indices(m + 1) PROVE s[m + 1][i] = s[m + 1][0]
    OBVIOUS
  <2>1. m \in Level /\ 0 \in Indices(m + 1) /\ m <= n
    BY <1>2 DEF Level
  <2>2. 2 * i \in Indices(m) /\ 2 * i + 1 \in Indices(m)
        /\ 2 * 0 \in Indices(m) /\ 2 * 0 + 1 \in Indices(m)
    BY <2>1, Children
  <2>3. /\ s[m][2 * i] = s[m][0] /\ s[m][2 * i + 1] = s[m][0]
        /\ s[m][2 * 0] = s[m][0] /\ s[m][2 * 0 + 1] = s[m][0]
    BY <1>5, <2>1, <2>2
  <2>4. s[m + 1][i] = combine(m, s[m][2 * i], s[m][2 * i + 1])
        /\ s[m + 1][0] = combine(m, s[m][2 * 0], s[m][2 * 0 + 1])
    BY <1>1, <2>1
  <2> QED
    BY <2>3, <2>4, Zenon
<1>6. \A m \in 0..n : \A i \in Indices(m) : s[m][i] = s[m][0]
  <2>1. 0 \in R
    BY <1>2, <1>4
  <2> HIDE DEF R
  <2>2. \A m \in Nat : m \in R
    BY <1>5, <2>1, InductionOnSet
  <2> QED
    BY <1>2, <2>2 DEF R
<1>7. AreEmptyRoots(empty_roots)
  <2>1. \A l \in 0..n : empties[l] = s[l][0]
    OBVIOUS
  <2>2. ASSUME NEW l \in 0..n
        PROVE  s[l][0] = IF l = 0 THEN EmptyLeaf ELSE combine(l - 1, empties[l - 1], empties[l - 1])
    <3>1. CASE l = 0
      BY <1>2, <1>4, <3>1
    <3>2. CASE l # 0
      <4> DEFINE k == l - 1
      <4>1. k \in Level /\ k \in 0..n /\ l = k + 1 /\ 0 \in Indices(k + 1)
        BY <1>2, <3>2 DEF Level
      <4> HIDE DEF k, empties
      <4>2. 2 * 0 \in Indices(k) /\ 2 * 0 + 1 \in Indices(k)
        BY <4>1, Children
      <4>3. s[k][2 * 0] = s[k][0] /\ s[k][2 * 0 + 1] = s[k][0]
        BY <1>6, <4>1, <4>2
      <4>4. s[k + 1][0] = combine(k, s[k][2 * 0], s[k][2 * 0 + 1])
        BY <1>1, <4>1
      <4>5. s[l][0] = combine(k, empties[k], empties[k])
        BY <2>1, <4>1, <4>3, <4>4
      <4> QED
        BY <3>2, <4>5 DEF k
    <3> QED
      BY <3>1, <3>2
  <2>3. AreEmptyRoots(empties)
    BY <2>2 DEF AreEmptyRoots
  <2> HIDE DEF empties
  <2>4. empty_roots = CHOOSE r : AreEmptyRoots(r)
    BY Zenon DEF empty_roots, AreEmptyRoots
  <2> QED
    BY <2>3, <2>4, Zenon
<1>8. empty_roots[0] = EmptyLeaf
      /\ \A m \in Level : empty_roots[m + 1] = combine(m, empty_roots[m], empty_roots[m])
  <2>1. empty_roots[0] = EmptyLeaf
    BY <1>2, <1>7 DEF AreEmptyRoots
  <2>2. ASSUME NEW m \in Level
        PROVE  empty_roots[m + 1] = combine(m, empty_roots[m], empty_roots[m])
    <3> DEFINE l == m + 1
    <3>1. l \in 0..n /\ l # 0 /\ l - 1 = m
      BY <1>2 DEF Level
    <3> HIDE DEF l
    <3>2. empty_roots[l] = combine(l - 1, empty_roots[l - 1], empty_roots[l - 1])
      BY <1>7, <3>1, Zenon DEF AreEmptyRoots
    <3> QED
      BY <3>1, <3>2 DEF l
  <2> QED
    BY <2>1, <2>2
<1>9. ASSUME NEW m \in Nat, m \in S PROVE m + 1 \in S
  <2> SUFFICES ASSUME m + 1 <= n, NEW i \in Indices(m + 1) PROVE s[m + 1][i] = empty_roots[m + 1]
    OBVIOUS
  <2>1. m \in Level /\ m <= n
    BY <1>2 DEF Level
  <2>2. 2 * i \in Indices(m) /\ 2 * i + 1 \in Indices(m)
    BY <2>1, Children
  <2>3. s[m][2 * i] = empty_roots[m] /\ s[m][2 * i + 1] = empty_roots[m]
    BY <1>9, <2>1, <2>2
  <2> QED
    BY <1>1, <1>8, <2>1, <2>3
<1>10. s[level][index] = empty_roots[level]
  <2>1. 0 \in S
    BY <1>4, <1>8
  <2> HIDE DEF S
  <2>2. \A m \in Nat : m \in S
    BY <1>9, <2>1, InductionOnSet
  <2> QED
    BY <1>2, <2>2 DEF S
<1>11. Agree(leaves, <<>>, level, index)
  BY <1>3, MaxNotesAssumption DEF Agree
<1>12. Subtrees(leaves)[level][index] = Subtrees(<<>>)[level][index]
  BY <1>11, SubtreeTells
<1> QED
  BY <1>10, <1>12 DEF s

-----------------------------------------------------------------------------
(* What is kept of a tree that is not empty: the last leaf, and left of its
   ancestors the subtrees beside them.                                     *)
IsFrontier(frontier, leaves) ==
  /\ frontier.position = Len(leaves) - 1 /\ frontier.leaf = leaves[Len(leaves)]
  /\ \A level \in Level :
       IsRight(frontier.position, level) =>
         frontier.ommers[level] = Subtrees(leaves)[level][Up(frontier.position, level) - 1]

(* The frontier and the table of empty roots have all siblings of the last
   leaf, hence its root is the tree's.                                     *)
LEMMA FrontierGivesRoot ==
  ASSUME NEW leaves \in Seq(Note), Len(leaves) \in 1..MAX_NOTES,
         NEW frontier, IsFrontier(frontier, leaves)
  PROVE  RootOf(frontier) = Subtrees(leaves)[MERKLE_DEPTH][0]
<1> DEFINE n == MERKLE_DEPTH
           pos == frontier.position
           s == Subtrees(leaves)
           beside == [level \in Level |->
                        IF IsRight(pos, level) THEN frontier.ommers[level] ELSE empty_roots[level]]
           climbs(node) ==
             node = [level \in 0..n |->
                       IF level = 0 THEN frontier.leaf
                       ELSE IF IsRight(pos, level - 1)
                            THEN combine(level - 1, frontier.ommers[level - 1], node[level - 1])
                            ELSE combine(level - 1, node[level - 1], empty_roots[level - 1])]
           found == CHOOSE node : climbs(node)
<1>1. /\ n \in Nat \ {0} /\ n \in 0..n /\ Level = 0..(n - 1)
      /\ pos \in 0..(MAX_NOTES - 1) /\ Len(leaves) = pos + 1 /\ pos \in Nat
      /\ frontier.leaf = leaves[Len(leaves)]
  BY DepthAssumption, MaxNotesAssumption DEF IsFrontier, Level
<1>2. frontier.leaf = Leaf(leaves, pos)
  BY <1>1 DEF Leaf
<1>3. RootOf(frontier) = found[n]
  BY Zenon DEF RootOf
<1>4. \A level \in Level : beside[level] = IF IsRight(pos, level) THEN frontier.ommers[level]
                                                                  ELSE empty_roots[level]
  OBVIOUS
<1> HIDE DEF beside
<1>5. ASSUME NEW node PROVE climbs(node) <=> IsWalk(node, n, frontier.leaf, pos, beside)
  <2>1. ASSUME NEW level \in 0..n, level # 0
        PROVE  IF IsRight(pos, level - 1)
               THEN combine(level - 1, frontier.ommers[level - 1], node[level - 1]) =
                      combine(level - 1, beside[level - 1], node[level - 1])
               ELSE combine(level - 1, node[level - 1], empty_roots[level - 1]) =
                      combine(level - 1, node[level - 1], beside[level - 1])
    <3>1. level - 1 \in Level
      BY <1>1, <2>1
    <3> QED
      BY <1>4, <3>1
  <2>2. [level \in 0..n |->
           IF level = 0 THEN frontier.leaf
           ELSE IF IsRight(pos, level - 1)
                THEN combine(level - 1, frontier.ommers[level - 1], node[level - 1])
                ELSE combine(level - 1, node[level - 1], empty_roots[level - 1])] =
        [level \in 0..n |->
           IF level = 0 THEN frontier.leaf
           ELSE IF IsRight(pos, level - 1)
                THEN combine(level - 1, beside[level - 1], node[level - 1])
                ELSE combine(level - 1, node[level - 1], beside[level - 1])]
    BY <2>1
  <2> QED
    BY <2>2, Zenon DEF IsWalk
<1>6. IsWalk(found, n, frontier.leaf, pos, beside)
  <2>1. \E node : IsWalk(node, n, frontier.leaf, pos, beside)
    BY <1>1, WalkExists
  <2>2. \E node : climbs(node)
    BY <1>5, <2>1
  <2>3. climbs(found)
    BY <2>2, Zenon
  <2> HIDE DEF found, climbs
  <2> QED
    BY <1>5, <2>3
<1> HIDE DEF found, climbs
<1>7. ASSUME NEW level \in 0..(n - 1), NEW u, u = Up(pos, level)
      PROVE  beside[level] = s[level][Sibling(u)]
  <2>1. level \in Level /\ level \in 0..n
    BY <1>1
  <2>2. (IsRight(pos, level) <=> u % 2 = 1) /\ Sibling(u) \in Indices(level)
    BY <1>1, <1>7, <2>1, AncestorIs
  <2>3. CASE IsRight(pos, level)
    <3>1. frontier.ommers[level] = s[level][u - 1]
      BY <1>7, <2>1, <2>3 DEF IsFrontier
    <3> HIDE DEF s
    <3> QED
      BY <1>4, <2>1, <2>2, <2>3, <3>1 DEF Sibling
  <2>4. CASE ~IsRight(pos, level)
    <3>1. Sibling(u) = u + 1
      BY <2>2, <2>4 DEF Sibling
    <3>2. ASSUME NEW i \in 0..(MAX_NOTES - 1), Up(i, level) = Sibling(u)
          PROVE  Leaf(leaves, i) = EmptyLeaf
      <4>1. i \in Nat
        BY MaxNotesAssumption
      <4>2. ~(i <= pos)
        <5> SUFFICES ASSUME i <= pos PROVE FALSE
          OBVIOUS
        <5>1. Up(i, level) \in Nat /\ u \in Nat /\ Up(i, level) <= u
          BY <1>1, <1>7, <2>1, <4>1, UpKeepsOrder
        <5> QED
          BY <3>1, <3>2, <5>1
      <4> QED
        BY <1>1, <4>1, <4>2 DEF Leaf
    <3>3. s[level][Sibling(u)] = empty_roots[level]
      BY <2>1, <2>2, <3>2, EmptyRootsAre
    <3> HIDE DEF s
    <3> QED
      BY <1>4, <2>1, <2>4, <3>3
  <2> QED
    BY <2>3, <2>4
<1> HIDE DEF s
<1>8. found[n] = s[n][Up(pos, n)]
  <2> DEFINE leaf == frontier.leaf
  <2>1. leaf = Leaf(leaves, pos) /\ IsWalk(found, n, leaf, pos, beside)
    BY <1>2, <1>6
  <2> HIDE DEF leaf
  <2>2. s = Subtrees(leaves) /\ n \in 0..MERKLE_DEPTH
    BY <1>1 DEF s
  <2> QED
    BY <1>1, <1>7, <2>1, <2>2, WalkVisitsAncestors
<1>9. Up(pos, n) = 0
  BY <1>1, UpStaysInside
<1> QED
  BY <1>3, <1>8, <1>9 DEF s

-----------------------------------------------------------------------------
(* Counting on: the ones at the low end become zeros, the first zero a one,
   and what is above stays.                                                *)
LEMMA CountingOn ==
  ASSUME NEW pos \in Nat, NEW full \in 0..MERKLE_DEPTH, ~IsRight(pos, full),
         \A below \in 0..(full - 1) : IsRight(pos, below)
  PROVE  \A level \in 0..MERKLE_DEPTH :
           Up(pos + 1, level) = IF level <= full THEN Up(pos, level) + 1 ELSE Up(pos, level)
<1> DEFINE n == MERKLE_DEPTH
           S == {m \in Nat : m <= n =>
                   Up(pos + 1, m) = IF m <= full THEN Up(pos, m) + 1 ELSE Up(pos, m)}
<1>1. n \in Nat /\ full \in Nat
  BY DepthAssumption
<1>2. 0 \in S
  <2>1. Up(pos + 1, 0) = pos + 1 /\ Up(pos, 0) = pos
    BY PowerAssumption DEF Up
  <2> QED
    BY <1>1, <2>1
<1>3. ASSUME NEW m \in Nat, m \in S PROVE m + 1 \in S
  <2> SUFFICES ASSUME m + 1 <= n
               PROVE  Up(pos + 1, m + 1) = IF m + 1 <= full THEN Up(pos, m + 1) + 1
                                                            ELSE Up(pos, m + 1)
    OBVIOUS
  <2> DEFINE u == Up(pos, m)
             v == Up(pos, m + 1)
             x == Up(pos + 1, m)
             y == Up(pos + 1, m + 1)
             b == IF IsRight(pos, m) THEN 1 ELSE 0
             c == IF IsRight(pos + 1, m) THEN 1 ELSE 0
  <2>1. m \in Level /\ m <= n
    BY <1>1 DEF Level
  <2>2. u \in Nat /\ v \in Nat /\ u = 2 * v + b
    BY <2>1, UpOnce
  <2>3. x \in Nat /\ y \in Nat /\ x = 2 * y + c
    BY <2>1, UpOnce
  <2>4. (b = 0 \/ b = 1) /\ (c = 0 \/ c = 1)
    BY Zenon
  <2>5. (m < full => b = 1) /\ (m = full => b = 0)
    BY <1>1
  <2>6. x = IF m <= full THEN u + 1 ELSE u
    BY <1>3, <2>1
  <2> HIDE DEF u, v, x, y, b, c
  <2>7. b \in {0, 1} /\ c \in {0, 1}
    BY <2>4
  <2>8. y = IF m + 1 <= full THEN v + 1 ELSE v
    <3>1. CASE m < full
      <4>1. x = u + 1 /\ b = 1
        BY <1>1, <2>5, <2>6, <3>1
      <4>2. y = v + 1
        BY <2>2, <2>3, <2>7, <4>1
      <4> QED
        BY <1>1, <3>1, <4>2
    <3>2. CASE m = full
      <4>1. x = u + 1 /\ b = 0
        BY <1>1, <2>5, <2>6, <3>2
      <4>2. y = v
        BY <2>2, <2>3, <2>7, <4>1
      <4> QED
        BY <1>1, <3>2, <4>2
    <3>3. CASE m > full
      <4>1. x = u
        BY <1>1, <2>6, <3>3
      <4>2. y = v
        BY <2>2, <2>3, <2>7, <4>1
      <4> QED
        BY <1>1, <3>3, <4>2
    <3> QED
      BY <1>1, <3>1, <3>2, <3>3
  <2> QED
    BY <2>8 DEF v, y
<1>4. \A m \in Nat : m \in S
  <2> HIDE DEF S
  <2> QED
    BY <1>2, <1>3, InductionOnSet
<1> QED
  BY <1>1, <1>4

(* There is a first zero.                                                  *)
LEMMA FirstZero ==
  ASSUME NEW pos \in 0..(MAX_NOTES - 1)
  PROVE  \E full \in 0..MERKLE_DEPTH :
           ~IsRight(pos, full) /\ \A below \in 0..(full - 1) : IsRight(pos, below)
<1> DEFINE S == {m \in Nat : m <= MERKLE_DEPTH /\ ~IsRight(pos, m)}
<1>1. MERKLE_DEPTH \in Nat
  BY DepthAssumption
<1>2. MERKLE_DEPTH \in S
  <2>1. Up(pos, MERKLE_DEPTH) = 0
    BY UpStaysInside
  <2>2. ~IsRight(pos, MERKLE_DEPTH)
    BY <2>1 DEF Up, IsRight
  <2> QED
    BY <1>1, <2>2
<1>3. PICK full \in S : \A m \in S : full <= m
  BY <1>2, Least
<1>4. \A below \in 0..(full - 1) : IsRight(pos, below)
  <2> TAKE below \in 0..(full - 1)
  <2>1. below \in Nat /\ below <= MERKLE_DEPTH /\ ~(full <= below)
    BY <1>1
  <2> QED
    BY <1>3, <2>1
<1> QED
  BY <1>1, <1>4

-----------------------------------------------------------------------------
(* The first leaf has nothing left of it.                                  *)
LEMMA FirstIsFrontier ==
  ASSUME NEW cm
  PROVE  IsFrontier([position |-> 0, leaf |-> cm, ommers |-> <<>>], Append(<<>>, cm))
<1>1. \A level \in Level : ~IsRight(0, level)
  <2> TAKE level \in Level
  <2>1. level \in 0..MERKLE_DEPTH
    BY DepthAssumption DEF Level
  <2>2. 2^level \in Nat \ {0}
    BY <2>1, PowerAssumption
  <2> QED
    BY <2>2 DEF IsRight
<1>2. Len(Append(<<>>, cm)) = 1 /\ Append(<<>>, cm)[1] = cm
  OBVIOUS
<1> QED
  BY <1>1, <1>2 DEF IsFrontier

(* One more leaf leaves the subtrees before it as they were.               *)
LEMMA EarlierSubtreesStay ==
  ASSUME NEW leaves \in Seq(Note), Len(leaves) < MAX_NOTES, NEW cm, NEW more, more = Append(leaves, cm),
         NEW level \in 0..MERKLE_DEPTH, NEW index \in Indices(level),
         NEW u, u = Up(Len(leaves), level), index < u
  PROVE  Subtrees(more)[level][index] = Subtrees(leaves)[level][index]
<1>1. ASSUME NEW i \in 0..(MAX_NOTES - 1), Up(i, level) = index
      PROVE  Leaf(more, i) = Leaf(leaves, i)
  <2>1. i \in Nat /\ Len(leaves) \in Nat
    BY MaxNotesAssumption
  <2>2. ~(Len(leaves) <= i)
    <3> SUFFICES ASSUME Len(leaves) <= i PROVE FALSE
      OBVIOUS
    <3>1. u \in Nat /\ Up(i, level) \in Nat /\ u <= Up(i, level)
      BY <2>1, UpKeepsOrder
    <3> QED
      BY <1>1, <3>1
  <2>3. Len(more) = Len(leaves) + 1 /\ more[i + 1] = leaves[i + 1]
    BY <2>1, <2>2
  <2> QED
    BY <2>1, <2>2, <2>3 DEF Leaf
<1>2. Agree(more, leaves, level, index)
  BY <1>1, Zenon DEF Agree
<1> QED
  BY <1>2, SubtreeTells

(* The roots that the last leaf completes, level by level.                 *)
IsClosing(node, frontier, full) ==
  node = [level \in 0..full |->
            IF level = 0 THEN frontier.leaf
            ELSE combine(level - 1, frontier.ommers[level - 1], node[level - 1])]

(* What the last leaf completes up to the first zero is a subtree.         *)
LEMMA ClosedIsSubtree ==
  ASSUME NEW leaves \in Seq(Note), Len(leaves) \in 1..MAX_NOTES,
         NEW frontier, IsFrontier(frontier, leaves), NEW pos, pos = frontier.position,
         NEW full \in 0..MERKLE_DEPTH, \A below \in 0..(full - 1) : IsRight(pos, below),
         NEW closed,
         closed = CHOOSE node : IsClosing(node, frontier, full)
  PROVE  closed[full] = Subtrees(leaves)[full][Up(pos, full)]
<1> DEFINE n == MERKLE_DEPTH
           s == Subtrees(leaves)
           beside == frontier.ommers
           leaf == frontier.leaf
<1>1. /\ n \in Nat \ {0} /\ full \in Nat /\ Level = 0..(n - 1)
      /\ pos \in 0..(MAX_NOTES - 1) /\ Len(leaves) = pos + 1 /\ pos \in Nat
      /\ leaf = leaves[Len(leaves)]
  BY DepthAssumption, MaxNotesAssumption DEF IsFrontier, Level
<1>2. leaf = Leaf(leaves, pos)
  BY <1>1 DEF Leaf
<1>3. \A node : IsClosing(node, frontier, full) <=>
        node = [level \in 0..full |->
                  IF level = 0 THEN leaf
                  ELSE combine(level - 1, beside[level - 1], node[level - 1])]
  BY Zenon DEF IsClosing
<1>4. ASSUME NEW level \in 0..(full - 1), NEW u, u = Up(pos, level)
      PROVE  beside[level] = s[level][Sibling(u)]
  <2>1. level \in Level /\ IsRight(pos, level)
    BY <1>1
  <2>2. u % 2 = 1
    BY <1>1, <1>4, <2>1, AncestorIs
  <2>3. beside[level] = s[level][u - 1]
    BY <1>4, <2>1 DEF IsFrontier
  <2> HIDE DEF s, beside
  <2> QED
    BY <2>2, <2>3 DEF Sibling
<1> HIDE DEF beside, leaf
<1>5. ASSUME NEW node PROVE IsClosing(node, frontier, full) <=> IsWalk(node, full, leaf, pos, beside)
  <2>1. ASSUME NEW level \in 0..full, level # 0
        PROVE  combine(level - 1, beside[level - 1], node[level - 1]) =
                 IF IsRight(pos, level - 1)
                 THEN combine(level - 1, beside[level - 1], node[level - 1])
                 ELSE combine(level - 1, node[level - 1], beside[level - 1])
    <3>1. level - 1 \in 0..(full - 1)
      BY <1>1, <2>1
    <3>2. IsRight(pos, level - 1)
      BY <3>1
    <3> QED
      BY <3>2
  <2>2. [level \in 0..full |->
           IF level = 0 THEN leaf
           ELSE combine(level - 1, beside[level - 1], node[level - 1])] =
        [level \in 0..full |->
           IF level = 0 THEN leaf
           ELSE IF IsRight(pos, level - 1)
                THEN combine(level - 1, beside[level - 1], node[level - 1])
                ELSE combine(level - 1, node[level - 1], beside[level - 1])]
    BY <2>1
  <2> QED
    BY <1>3, <2>2, Zenon DEF IsWalk
<1>6. IsWalk(closed, full, leaf, pos, beside)
  <2>1. \E node : IsWalk(node, full, leaf, pos, beside)
    BY <1>1, WalkExists
  <2>2. \E node : IsClosing(node, frontier, full)
    BY <1>5, <2>1
  <2>3. IsClosing(closed, frontier, full)
    BY <2>2, Zenon
  <2> QED
    BY <1>5, <2>3
<1>7. \A level \in 0..(full - 1) : beside[level] = s[level][Sibling(Up(pos, level))]
  BY <1>4
<1> HIDE DEF s
<1>8. s = Subtrees(leaves)
  BY DEF s
<1>9. closed[full] = s[full][Up(pos, full)]
  BY <1>1, <1>2, <1>6, <1>7, <1>8, WalkVisitsAncestors
<1> QED
  BY <1>8, <1>9

(* What is kept stays what is to be kept when a leaf is appended.          *)
LEMMA GrownIsFrontier ==
  ASSUME NEW leaves \in Seq(Note), Len(leaves) \in 1..MAX_NOTES, Len(leaves) < MAX_NOTES, NEW cm,
         NEW frontier, IsFrontier(frontier, leaves), NEW more, more = Append(leaves, cm)
  PROVE  IsFrontier(Grown(frontier, cm), more)
<1> DEFINE n == MERKLE_DEPTH
           pos == frontier.position
           full == CHOOSE level \in 0..MERKLE_DEPTH :
                     /\ ~IsRight(frontier.position, level)
                     /\ \A below \in 0..(level - 1) : IsRight(frontier.position, below)
           closed == CHOOSE node : IsClosing(node, frontier, full)
           ommers == [level \in {l \in Level : IsRight(pos + 1, l)} |->
                        IF level = full THEN closed[full] ELSE frontier.ommers[level]]
           grown == Grown(frontier, cm)
<1>1. /\ n \in Nat \ {0} /\ Level = 0..(n - 1)
      /\ pos \in 0..(MAX_NOTES - 1) /\ Len(leaves) = pos + 1 /\ pos \in Nat
      /\ Len(more) = pos + 2 /\ more[Len(more)] = cm
  BY DepthAssumption, MaxNotesAssumption DEF IsFrontier, Level
<1>2. grown = [position |-> pos + 1, leaf |-> cm, ommers |-> ommers]
  BY Zenon DEF Grown, IsClosing
<1>3. full \in 0..n /\ ~IsRight(pos, full) /\ \A below \in 0..(full - 1) : IsRight(pos, below)
  <2>1. \E level \in 0..MERKLE_DEPTH :
          ~IsRight(pos, level) /\ \A below \in 0..(level - 1) : IsRight(pos, below)
    BY <1>1, FirstZero
  <2> QED
    BY <2>1, Zenon
<1>4. closed = CHOOSE node : IsClosing(node, frontier, full)
  OBVIOUS
<1> HIDE DEF full
<1> HIDE DEF closed
<1>5. closed[full] = Subtrees(leaves)[full][Up(pos, full)]
  <2>1. pos = frontier.position
    OBVIOUS
  <2> HIDE DEF pos, ommers, grown
  <2>2. full \in 0..MERKLE_DEPTH /\ \A below \in 0..(full - 1) : IsRight(pos, below)
    BY <1>3
  <2> QED
    BY <1>4, <2>1, <2>2, ClosedIsSubtree
<1>6. \A level \in 0..n :
        Up(pos + 1, level) = IF level <= full THEN Up(pos, level) + 1 ELSE Up(pos, level)
  BY <1>1, <1>3, CountingOn
<1>7. ASSUME NEW level \in Level, IsRight(pos + 1, level), NEW v, v = Up(pos + 1, level)
      PROVE  ommers[level] = Subtrees(more)[level][v - 1]
  <2> DEFINE u == Up(pos, level)
  <2>1. level \in 0..n /\ level \in Nat /\ full \in Nat
    BY <1>1, <1>3
  <2>2. pos + 1 \in 0..(MAX_NOTES - 1) /\ MAX_NOTES \in Nat
    BY <1>1, MaxNotesAssumption
  <2>3. v \in Indices(level) /\ v % 2 = 1
    BY <1>7, <2>2, AncestorIs
  <2>4. u \in Indices(level) /\ (IsRight(pos, level) <=> u % 2 = 1)
    BY <1>1, AncestorIs
  <2>5. u \in Nat /\ v \in Nat /\ v - 1 \in Nat /\ v - 1 \in Indices(level)
    <3>1. level \in 0..MERKLE_DEPTH /\ MERKLE_DEPTH - level \in 0..MERKLE_DEPTH
      BY <1>1, <2>1
    <3>2. 2^(MERKLE_DEPTH - level) \in Nat
      BY <3>1, PowerAssumption
    <3> QED
      BY <2>3, <2>4, <3>2 DEF Indices
  <2>6. v = IF level <= full THEN u + 1 ELSE u
    BY <1>6, <1>7, <2>1
  <2>7. ommers[level] = IF level = full THEN closed[full] ELSE frontier.ommers[level]
    BY <1>7
  <2>8. Subtrees(more)[level][v - 1] = Subtrees(leaves)[level][v - 1]
    <3> DEFINE w == v - 1
    <3>1. v = Up(Len(leaves), level) /\ w < v
      BY <1>1, <1>7, <2>5
    <3>2. level \in 0..MERKLE_DEPTH /\ w \in Indices(level)
      BY <1>1, <2>1, <2>5
    <3> HIDE DEF w
    <3>3. Subtrees(more)[level][w] = Subtrees(leaves)[level][w]
      BY <3>1, <3>2, EarlierSubtreesStay, Zenon
    <3> QED
      BY <3>3 DEF w
  <2>9. u = Up(pos, level)
    OBVIOUS
  <2> HIDE DEF u, ommers
  <2>10. CASE level < full
    <3>1. u % 2 = 1
      BY <1>3, <2>1, <2>4, <2>10
    <3>2. v = u + 1
      BY <2>1, <2>6, <2>10
    <3> QED
      BY <2>3, <2>5, <3>1, <3>2
  <2>11. CASE level = full
    <3>1. v - 1 = u
      BY <2>1, <2>5, <2>6, <2>11
    <3> QED
      BY <1>5, <2>7, <2>8, <2>9, <2>11, <3>1
  <2>12. CASE level > full
    <3>1. v = u /\ level # full
      BY <2>1, <2>6, <2>12
    <3>2. IsRight(pos, level)
      BY <2>3, <2>4, <3>1
    <3>3. frontier.ommers[level] = Subtrees(leaves)[level][Up(pos, level) - 1]
      BY <3>2 DEF IsFrontier
    <3> QED
      BY <2>7, <2>8, <2>9, <3>1, <3>3
  <2> QED
    BY <2>1, <2>10, <2>11, <2>12
<1> HIDE DEF ommers
<1>8. grown.position = pos + 1 /\ grown.leaf = cm /\ grown.ommers = ommers
  BY <1>2
<1> HIDE DEF grown
<1>9. IsFrontier(grown, more)
  <2>1. grown.position = Len(more) - 1 /\ grown.leaf = more[Len(more)]
    BY <1>1, <1>8
  <2>2. \A level \in Level : IsRight(grown.position, level) =>
          grown.ommers[level] = Subtrees(more)[level][Up(grown.position, level) - 1]
    BY <1>7, <1>8
  <2> QED
    BY <2>1, <2>2 DEF IsFrontier
<1> QED
  BY <1>9 DEF grown

-----------------------------------------------------------------------------
(* A tree and what is kept of it.                                          *)
TreeRecord == [leaves : Seq(Note), marked : SUBSET Nat, checkpoints : Nat]

Keeps(kept, leaves) ==
  IF leaves = <<>> THEN kept = {}
  ELSE \E frontier : kept = {frontier} /\ IsFrontier(frontier, leaves)

IsKept(rec, kept) ==
  /\ rec \in TreeRecord /\ Len(rec.leaves) <= MAX_NOTES
  /\ \A position \in rec.marked : position < Len(rec.leaves)
  /\ Keeps(kept, rec.leaves)

(* The invariant of the two trees.                                         *)
MerkleInv ==
  /\ trees \in [Trees -> TreeRecord] /\ frontiers = [t \in Trees |-> frontiers[t]]
  /\ \A t \in Trees : IsKept(trees[t], frontiers[t])

(* What one append makes of a tree's record.                               *)
LEMMA RecordAppended ==
  ASSUME NEW rec \in TreeRecord, NEW cm \in Note, NEW keep \in BOOLEAN,
         NEW more, more = Appended(rec, cm, keep)
  PROVE  /\ more \in TreeRecord /\ more.leaves = Append(rec.leaves, cm)
         /\ \A position \in more.marked : position \in rec.marked \/ position = Len(rec.leaves)
<1> DEFINE marks == IF keep THEN rec.marked \cup {Size(rec)} ELSE rec.marked
           longer == Append(rec.leaves, cm)
           mid == [rec EXCEPT !.leaves = longer]
<1>1. longer \in Seq(Note) /\ Len(rec.leaves) \in Nat /\ rec.marked \in SUBSET Nat
  BY DEF TreeRecord
<1>2. marks \in SUBSET Nat /\ \A position \in marks : position \in rec.marked \/ position = Len(rec.leaves)
  <2>1. CASE keep
    BY <1>1, <2>1 DEF Size
  <2>2. CASE ~keep
    BY <1>1, <2>2
  <2> QED
    BY <2>1, <2>2
<1>3. more = [mid EXCEPT !.marked = marks]
  BY DEF Appended, TreeRecord
<1> HIDE DEF marks, longer
<1>4. mid \in TreeRecord /\ mid.leaves = longer
  BY <1>1 DEF TreeRecord
<1> HIDE DEF mid
<1>5. more \in TreeRecord /\ more.leaves = mid.leaves /\ more.marked = marks
  BY <1>2, <1>3, <1>4 DEF TreeRecord
<1> QED
  BY <1>2, <1>4, <1>5 DEF longer

(* An append keeps what is to be kept.                                     *)
LEMMA AppendKeeps ==
  ASSUME NEW rec, NEW kept, IsKept(rec, kept), Len(rec.leaves) + 1 <= MAX_NOTES,
         NEW cm \in Note, NEW keep \in BOOLEAN, NEW grown,
         grown = IF kept = {} THEN {[position |-> 0, leaf |-> cm, ommers |-> <<>>]}
                 ELSE {Grown(frontier, cm) : frontier \in kept}
  PROVE  IsKept(Appended(rec, cm, keep), grown)
<1> DEFINE more == Appended(rec, cm, keep)
           leaves == rec.leaves
           longer == Append(leaves, cm)
<1>1. /\ more \in TreeRecord /\ more.leaves = longer
      /\ \A position \in more.marked : position \in rec.marked \/ position = Len(leaves)
  BY RecordAppended DEF IsKept
<1>2. leaves \in Seq(Note) /\ Len(leaves) \in Nat /\ Len(leaves) <= MAX_NOTES /\ MAX_NOTES \in Nat
  BY MaxNotesAssumption DEF IsKept, TreeRecord
<1> HIDE DEF more
<1>3. Keeps(grown, longer)
  <2>1. longer # <<>> /\ Len(longer) = Len(leaves) + 1
    BY <1>2
  <2>2. Keeps(kept, leaves)
    BY DEF IsKept
  <2> HIDE DEF longer
  <2>3. CASE leaves = <<>>
    <3>1. grown = {[position |-> 0, leaf |-> cm, ommers |-> <<>>]} /\ longer = Append(<<>>, cm)
      BY <2>2, <2>3 DEF Keeps, longer
    <3> QED
      BY <2>1, <3>1, FirstIsFrontier, Zenon DEF Keeps
  <2>4. CASE leaves # <<>>
    <3>1. PICK frontier : kept = {frontier} /\ IsFrontier(frontier, leaves)
      BY <2>2, <2>4, Zenon DEF Keeps
    <3>2. grown = {Grown(frontier, cm)}
      <4>1. kept # {}
        BY <3>1
      <4>2. grown = {Grown(f, cm) : f \in kept}
        BY <4>1, Zenon
      <4> QED
        BY <3>1, <4>2, Zenon
    <3>3. Len(leaves) \in 1..MAX_NOTES /\ Len(leaves) < MAX_NOTES
      BY <1>2, <2>4, EmptySeq
    <3>4. longer = Append(leaves, cm)
      BY DEF longer
    <3> HIDE DEF leaves
    <3>5. IsFrontier(Grown(frontier, cm), longer)
      BY <1>2, <3>1, <3>3, <3>4, GrownIsFrontier
    <3> QED
      BY <2>1, <3>2, <3>5, Zenon DEF Keeps
  <2> QED
    BY <2>3, <2>4
<1>4. \A position \in more.marked : position < Len(longer)
  <2>1. Len(longer) = Len(leaves) + 1
    BY <1>2
  <2>2. \A position \in rec.marked : position \in Nat /\ position < Len(leaves)
    BY DEF IsKept, TreeRecord
  <2> HIDE DEF longer, leaves
  <2> QED
    BY <1>1, <1>2, <2>1, <2>2
<1>5. Len(longer) <= MAX_NOTES
  BY <1>2
<1> QED
  BY <1>1, <1>3, <1>4, <1>5 DEF IsKept, more

(* Trees begin empty, and nothing is kept of them.                        *)
LEMMA MerkleInitInv ==
  ASSUME MerkleInit
  PROVE  MerkleInv
<1>1. EmptyTree \in TreeRecord /\ EmptyTree.leaves = <<>> /\ EmptyTree.marked = {}
  BY DEF EmptyTree, TreeRecord
<1>2. IsKept(EmptyTree, {})
  <2>1. Len(<<>>) <= MAX_NOTES
    BY MaxNotesAssumption
  <2> QED
    BY <1>1, <2>1, Zenon DEF IsKept, Keeps
<1> HIDE DEF EmptyTree
<1> QED
  BY <1>1, <1>2 DEF MerkleInit, MerkleInv

(* Every append, to either tree, keeps the invariant.                      *)
LEMMA MerkleNextInv ==
  ASSUME MerkleInv, [MerkleNext]_merkleVars
  PROVE  MerkleInv'
<1>1. CASE UNCHANGED merkleVars
  BY <1>1 DEF MerkleInv, merkleVars
<1>2. ASSUME NEW s \in Trees, NEW cm \in Note, AppendTo(s, cm)
      PROVE  MerkleInv'
  <2> DEFINE keep == s = "wallet" /\ cm \in Own
             rec == trees[s]
             kept == frontiers[s]
             more == Appended(rec, cm, keep)
             grown == IF kept = {} THEN {[position |-> 0, leaf |-> cm, ommers |-> <<>>]}
                      ELSE {Grown(frontier, cm) : frontier \in kept}
  <2>1. /\ HasRoomFor(rec, 1)
        /\ trees' = [trees EXCEPT ![s] = more]
        /\ frontiers' = [frontiers EXCEPT ![s] = grown]
    BY <1>2, Zenon DEF AppendTo
  <2>2. IsKept(rec, kept) /\ keep \in BOOLEAN
    BY DEF MerkleInv
  <2>3. Len(rec.leaves) + 1 <= MAX_NOTES
    BY <2>1 DEF HasRoomFor, Size
  <2>4. grown = IF kept = {} THEN {[position |-> 0, leaf |-> cm, ommers |-> <<>>]}
                ELSE {Grown(frontier, cm) : frontier \in kept}
    OBVIOUS
  <2> HIDE DEF rec, kept, keep, grown
  <2>5. IsKept(more, grown)
    BY <2>2, <2>3, <2>4, AppendKeeps
  <2> HIDE DEF more
  <2>6. more \in TreeRecord
    BY <2>5 DEF IsKept
  <2>7. trees \in [Trees -> TreeRecord] /\ frontiers = [t \in Trees |-> frontiers[t]]
        /\ \A t \in Trees : IsKept(trees[t], frontiers[t])
    BY DEF MerkleInv
  <2>8. trees' \in [Trees -> TreeRecord] /\ frontiers' = [t \in Trees |-> frontiers'[t]]
    BY <2>1, <2>6, <2>7
  <2>9. ASSUME NEW t \in Trees PROVE IsKept(trees'[t], frontiers'[t])
    <3>1. CASE t = s
      <4>1. trees'[t] = more /\ frontiers'[t] = grown
        BY <2>1, <2>7, <3>1
      <4> QED
        BY <2>5, <4>1
    <3>2. CASE t # s
      <4>1. trees'[t] = trees[t] /\ frontiers'[t] = frontiers[t]
        BY <2>1, <2>7, <3>2
      <4> QED
        BY <2>7, <4>1
    <3> QED
      BY <3>1, <3>2
  <2> QED
    BY <2>8, <2>9 DEF MerkleInv
<1> QED
  BY <1>1, <1>2 DEF MerkleNext

(* In every reachable state what is kept of a tree is what its root needs. *)
THEOREM MerkleInvHolds == MerkleSpec => []MerkleInv
<1>1. MerkleInit => MerkleInv
  BY MerkleInitInv
<1>2. MerkleInv /\ [MerkleNext]_merkleVars => MerkleInv'
  BY MerkleNextInv
<1> QED
  BY <1>1, <1>2, PTL DEF MerkleSpec

-----------------------------------------------------------------------------
(* The computed root is the whole tree's.                                  *)
LEMMA RootIs ==
  ASSUME MerkleInv, NEW t \in Trees
  PROVE  Root(t) = Subtrees(trees[t].leaves)[MERKLE_DEPTH][0]
<1> DEFINE leaves == trees[t].leaves
           kept == frontiers[t]
<1>1. leaves \in Seq(Note) /\ Len(leaves) <= MAX_NOTES /\ Keeps(kept, leaves)
  BY DEF MerkleInv, IsKept, TreeRecord
<1>2. Root(t) = IF kept = {} THEN empty_roots[MERKLE_DEPTH]
                ELSE RootOf(CHOOSE frontier \in kept : TRUE)
  BY Zenon DEF Root
<1> HIDE DEF leaves, kept
<1>3. MERKLE_DEPTH \in 0..MERKLE_DEPTH /\ 0 \in Indices(MERKLE_DEPTH)
  <2>1. MERKLE_DEPTH \in Nat /\ MERKLE_DEPTH - MERKLE_DEPTH = 0
    BY DepthAssumption
  <2> QED
    BY <2>1, PowerAssumption DEF Indices
<1>4. CASE leaves = <<>>
  <2>1. kept = {}
    BY <1>1, <1>4 DEF Keeps
  <2>2. \A i \in 0..(MAX_NOTES - 1) : Leaf(leaves, i) = EmptyLeaf
    BY <1>4, MaxNotesAssumption DEF Leaf
  <2>3. Subtrees(leaves)[MERKLE_DEPTH][0] = empty_roots[MERKLE_DEPTH]
    BY <1>3, <2>2, EmptyRootsAre
  <2> QED
    BY <1>2, <2>1, <2>3 DEF leaves
<1>5. CASE leaves # <<>>
  <2>1. PICK frontier : kept = {frontier} /\ IsFrontier(frontier, leaves)
    BY <1>1, <1>5, Zenon DEF Keeps
  <2>2. Root(t) = RootOf(frontier)
    <3>1. (CHOOSE f \in kept : TRUE) = frontier
      BY <2>1
    <3>2. kept # {}
      BY <2>1
    <3> QED
      BY <1>2, <3>1, <3>2, Zenon
  <2>3. Len(leaves) \in 1..MAX_NOTES
    BY <1>1, <1>5, EmptySeq, MaxNotesAssumption
  <2> QED
    BY <1>1, <2>1, <2>2, <2>3, FrontierGivesRoot DEF leaves
<1> QED
  BY <1>4, <1>5

(* RootIsOfAllLeaves: what a node or wallet computes from the frontier it
   keeps is the root of the whole tree, at every depth.                    *)
THEOREM RootsAreOfAllLeaves == MerkleSpec => []RootIsOfAllLeaves
<1>1. MerkleInv => RootIsOfAllLeaves
  BY RootIs DEF RootIsOfAllLeaves
<1> QED
  BY <1>1, MerkleInvHolds, PTL

-----------------------------------------------------------------------------
(* The root of a tree tells the tree.                                      *)
LEMMA RootTells ==
  ASSUME NEW a \in Seq(Note), NEW b \in Seq(Note), Len(a) <= MAX_NOTES, Len(b) <= MAX_NOTES
  PROVE  Subtrees(a)[MERKLE_DEPTH][0] = Subtrees(b)[MERKLE_DEPTH][0] <=> a = b
<1>1. MERKLE_DEPTH \in 0..MERKLE_DEPTH /\ 0 \in Indices(MERKLE_DEPTH)
  <2>1. MERKLE_DEPTH \in Nat /\ MERKLE_DEPTH - MERKLE_DEPTH = 0
    BY DepthAssumption
  <2> QED
    BY <2>1, PowerAssumption DEF Indices
<1>2. Subtrees(a)[MERKLE_DEPTH][0] = Subtrees(b)[MERKLE_DEPTH][0] <=> Agree(a, b, MERKLE_DEPTH, 0)
  BY <1>1, SubtreeTells
<1>3. Agree(a, b, MERKLE_DEPTH, 0) => a = b
  <2>1. \A i \in 0..(MAX_NOTES - 1) : Up(i, MERKLE_DEPTH) = 0
    BY UpStaysInside
  <2> QED
    BY <2>1, SameLeaves DEF Agree
<1> QED
  BY <1>2, <1>3

(* merkle_root walks up the path.                                          *)
LEMMA MerkleRootWalks ==
  ASSUME NEW leaf, NEW pos, NEW path
  PROVE  \E node : IsWalk(node, MERKLE_DEPTH, leaf, pos, path)
                   /\ merkle_root(leaf, pos, path) = node[MERKLE_DEPTH]
<1> DEFINE node == CHOOSE f : IsWalk(f, MERKLE_DEPTH, leaf, pos, path)
<1>1. merkle_root(leaf, pos, path) = node[MERKLE_DEPTH]
  BY Zenon DEF merkle_root, IsWalk
<1>2. \E f : IsWalk(f, MERKLE_DEPTH, leaf, pos, path)
  BY DepthAssumption, WalkExists
<1>3. IsWalk(node, MERKLE_DEPTH, leaf, pos, path)
  BY <1>2, Zenon
<1> QED
  BY <1>1, <1>3, Zenon

(* A path that leads to a root, wherever it is read, leads there from the
   leaf that stands there.                                                 *)
LEMMA LeadsFromLeaf ==
  ASSUME NEW leaves \in Seq(Note), NEW leaf \in Note, NEW pos \in 0..(MAX_NOTES - 1), NEW path,
         merkle_root(leaf, pos, path) = Subtrees(leaves)[MERKLE_DEPTH][0]
  PROVE  StandsAt(leaf, pos, leaves)
<1>1. PICK node : IsWalk(node, MERKLE_DEPTH, leaf, pos, path)
                  /\ merkle_root(leaf, pos, path) = node[MERKLE_DEPTH]
  BY MerkleRootWalks
<1>2. leaf = Leaf(leaves, pos)
  BY <1>1, WalkTellsLeaf
<1>3. EmptyLeaf \notin Note /\ pos \in Nat /\ Len(leaves) \in Nat /\ DOMAIN leaves = 1..Len(leaves)
  BY DepthAssumption, MaxNotesAssumption
<1>4. pos < Len(leaves) /\ leaf = leaves[pos + 1]
  BY <1>2, <1>3 DEF Leaf
<1> QED
  BY <1>3, <1>4 DEF StandsAt

(* The siblings of a leaf do not depend on it: the path with another leaf
   leads to the root of the tree with that leaf in its place.              *)
LEMMA PathOfChanged ==
  ASSUME NEW leaves \in Seq(Note), Len(leaves) <= MAX_NOTES, NEW own \in Nat, own < Len(leaves),
         NEW leaf \in Note, NEW changed \in Seq(Note), Len(changed) = Len(leaves),
         changed[own + 1] = leaf,
         \A i \in 1..Len(leaves) : i # own + 1 => changed[i] = leaves[i]
  PROVE  merkle_root(leaf, own, Siblings(leaves, own)) = Subtrees(changed)[MERKLE_DEPTH][0]
<1> DEFINE n == MERKLE_DEPTH
           path == Siblings(leaves, own)
           s == Subtrees(changed)
<1>1. /\ n \in Nat \ {0} /\ n \in 0..n /\ Level = 0..(n - 1)
      /\ own \in 0..(MAX_NOTES - 1) /\ MAX_NOTES \in Nat /\ Len(leaves) \in Nat
  BY DepthAssumption, MaxNotesAssumption DEF Level
<1>2. leaf = Leaf(changed, own)
  BY <1>1 DEF Leaf
<1>3. ASSUME NEW level \in 0..(n - 1), NEW u, u = Up(own, level)
      PROVE  path[level] = s[level][Sibling(u)]
  <2>1. level \in Level /\ level \in 0..n
    BY <1>1
  <2>2. path[level] = Subtrees(leaves)[level][Sibling(u)]
    BY <1>3, <2>1, Zenon DEF Siblings, Sibling, Up
  <2>3. u \in Indices(level) /\ Sibling(u) \in Indices(level)
    BY <1>1, <1>3, <2>1, AncestorIs
  <2>4. u # Sibling(u)
    <3>1. u \in Nat
      BY <2>3 DEF Indices
    <3> QED
      BY <3>1 DEF Sibling
  <2>5. ASSUME NEW i \in 0..(MAX_NOTES - 1), Up(i, level) = Sibling(u)
        PROVE  Leaf(changed, i) = Leaf(leaves, i)
    <3>1. i # own
      BY <1>3, <2>4, <2>5
    <3>2. i \in Nat
      BY <1>1
    <3>3. i < Len(leaves) => changed[i + 1] = leaves[i + 1]
      BY <1>1, <3>1, <3>2
    <3> QED
      BY <3>3 DEF Leaf
  <2>6. Agree(changed, leaves, level, Sibling(u))
    BY <2>5, Zenon DEF Agree
  <2>7. s[level][Sibling(u)] = Subtrees(leaves)[level][Sibling(u)]
    BY <2>1, <2>3, <2>6, SubtreeTells
  <2> QED
    BY <2>2, <2>7
<1>4. \A level \in 0..(n - 1) : path[level] = s[level][Sibling(Up(own, level))]
  BY <1>3
<1>5. s = Subtrees(changed)
  OBVIOUS
<1> HIDE DEF path, s
<1>6. PICK node : IsWalk(node, n, leaf, own, path) /\ merkle_root(leaf, own, path) = node[n]
  BY MerkleRootWalks
<1>7. node[n] = s[n][Up(own, n)]
  BY <1>1, <1>2, <1>4, <1>5, <1>6, WalkVisitsAncestors
<1>8. Up(own, n) = 0
  BY <1>1, UpStaysInside
<1> QED
  BY <1>5, <1>6, <1>7, <1>8 DEF path

(* PathsAreExact: paths lead where CommitmentTree says, at every depth.    *)
THEOREM PathsLeadExactly == MerkleSpec => []PathsAreExact
<1>1. MerkleInv => PathsAreExact
  <2> SUFFICES ASSUME MerkleInv,
                      NEW own \in trees["wallet"].marked, NEW position \in 0..(MAX_NOTES - 1),
                      NEW leaf \in Note, NEW t \in Trees
               PROVE  LET leads == merkle_root(leaf, position, Siblings(trees["wallet"].leaves, own)) = Root(t)
                      IN  /\ leads => StandsAt(leaf, position, trees[t].leaves)
                          /\ position = own =>
                               (leads <=> PathLeadsTo(leaf, position, Witness(trees["wallet"], own),
                                                      TreeRoot(trees[t])))
    BY Zenon DEF PathsAreExact
  <2> DEFINE wallet == trees["wallet"]
             w == wallet.leaves
             l == trees[t].leaves
             path == Siblings(w, own)
             changed == [w EXCEPT ![own + 1] = leaf]
  <2>1. /\ w \in Seq(Note) /\ Len(w) <= MAX_NOTES /\ own \in Nat /\ own < Len(w)
        /\ l \in Seq(Note) /\ Len(l) <= MAX_NOTES
    <3>1. "wallet" \in Trees
      BY DEF Trees
    <3>2. IsKept(wallet, frontiers["wallet"]) /\ IsKept(trees[t], frontiers[t])
      BY <3>1 DEF MerkleInv
    <3> QED
      BY <3>2 DEF IsKept, TreeRecord
  <2>2. Root(t) = Subtrees(l)[MERKLE_DEPTH][0]
    BY RootIs
  <2>3. PathLeadsTo(leaf, own, Witness(wallet, own), TreeRoot(trees[t])) <=> l = changed
    BY DEF PathLeadsTo, Witness, TreeRoot
  <2> HIDE DEF l, w
  <2>4. /\ changed \in Seq(Note) /\ Len(changed) = Len(w)
        /\ merkle_root(leaf, own, path) = Subtrees(changed)[MERKLE_DEPTH][0]
    <3>1. /\ changed \in Seq(Note) /\ Len(changed) = Len(w) /\ changed[own + 1] = leaf
          /\ \A i \in 1..Len(w) : i # own + 1 => changed[i] = w[i]
      BY <2>1
    <3> HIDE DEF changed
    <3> QED
      BY <2>1, <3>1, PathOfChanged
  <2> HIDE DEF path, changed
  <2>5. merkle_root(leaf, position, path) = Root(t) => StandsAt(leaf, position, l)
    BY <2>1, <2>2, LeadsFromLeaf
  <2>6. merkle_root(leaf, own, path) = Root(t) <=> l = changed
    BY <2>1, <2>2, <2>4, RootTells
  <2> QED
    BY <2>3, <2>5, <2>6, Zenon DEF path, l, w, wallet
<1> QED
  BY <1>1, MerkleInvHolds, PTL

-----------------------------------------------------------------------------
(* Where the fields of a tag are.                                          *)
Picks(bytes, tag) == [i \in DOMAIN bytes |-> IF bytes[i].tag = tag THEN <<bytes[i]>> ELSE <<>>]

(* They are parts.                                                         *)
ArePicks(parts, b, t) ==
  /\ Fields(b, t) = FlattenSeq(parts) /\ Listed(parts) /\ Len(parts) = Len(b)
  /\ Len(b) \in Nat
  /\ \A i \in 1..Len(b) : parts[i] = (IF b[i].tag = t THEN <<b[i]>> ELSE <<>>)
  /\ \A i \in 1..Len(b) : Listed(parts[i])

(* Every list has them.                                                    *)
LEMMA PicksAreParts ==
  ASSUME NEW b, Listed(b), NEW t
  PROVE  ArePicks(Picks(b, t), b, t)
<1> DEFINE parts == Picks(b, t)
<1>1. Len(b) \in Nat /\ DOMAIN b = 1..Len(b)
  BY ListedProperties
<1> DEFINE n == Len(b)
<1>2. n \in Nat /\ DOMAIN b = 1..n
  BY <1>1
<1> HIDE DEF n
<1>3. DOMAIN parts = 1..n /\ parts = [i \in 1..n |-> parts[i]]
  BY <1>2 DEF Picks
<1>4. Listed(parts) /\ Len(parts) = n
  BY <1>2, <1>3, Lists
<1>5. \A i \in 1..n : parts[i] = (IF b[i].tag = t THEN <<b[i]>> ELSE <<>>)
  BY <1>2 DEF Picks
<1>6. Fields(b, t) = FlattenSeq(parts)
  BY DEF Fields, Picks
<1> HIDE DEF parts
<1>7. \A i \in 1..n : Listed(parts[i])
  <2> TAKE i \in 1..n
  <2>1. Listed(<<b[i]>>) /\ Listed(<<>>)
    BY OneElement, EmptyList
  <2>2. parts[i] = <<b[i]>> \/ parts[i] = <<>>
    BY <1>5
  <2> QED
    BY <2>1, <2>2, Zenon
<1> QED
  BY <1>2, <1>4, <1>5, <1>6, <1>7 DEF n, parts, ArePicks

(* The fields of a tag are fields of the message that have it.             *)
LEMMA FieldsAreListed ==
  ASSUME NEW b, Listed(b), NEW t, NEW fields, fields = Fields(b, t)
  PROVE  /\ Listed(fields)
         /\ \A j \in 1..Len(fields) : \E i \in 1..Len(b) : fields[j] = b[i] /\ b[i].tag = t
<1> DEFINE parts == Picks(b, t)
           n == Len(b)
<1>1. /\ Fields(b, t) = FlattenSeq(parts) /\ Listed(parts) /\ Len(parts) = Len(b)
      /\ Len(b) \in Nat
      /\ \A i \in 1..Len(b) :
           parts[i] = (IF b[i].tag = t THEN <<b[i]>> ELSE <<>>) /\ Listed(parts[i])
  <2> HIDE DEF n
  <2> QED
    BY PicksAreParts DEF ArePicks
<1> HIDE DEF parts, n
<1>2. n \in Nat /\ Listed(parts) /\ Len(parts) = n /\ \A i \in 1..n : Listed(parts[i])
  BY <1>1 DEF n
<1>3. /\ Listed(FlattenSeq(parts))
      /\ \A j \in 1..Len(FlattenSeq(parts)) :
           \E i \in 1..n : \E k \in 1..Len(parts[i]) : FlattenSeq(parts)[j] = parts[i][k]
  BY <1>2, FlattenedElements
<1>4. /\ Listed(fields)
      /\ \A j \in 1..Len(fields) : \E i \in 1..n : \E k \in 1..Len(parts[i]) : fields[j] = parts[i][k]
  BY <1>1, <1>3
<1>5. ASSUME NEW j \in 1..Len(fields)
      PROVE  \E i \in 1..n : fields[j] = b[i] /\ b[i].tag = t
  <2>1. PICK i \in 1..n : \E k \in 1..Len(parts[i]) : fields[j] = parts[i][k]
    BY <1>4
  <2>2. PICK k \in 1..Len(parts[i]) : fields[j] = parts[i][k]
    BY <2>1
  <2>3. parts[i] = (IF b[i].tag = t THEN <<b[i]>> ELSE <<>>)
    BY <1>1 DEF n
  <2>4. b[i].tag = t
    BY <2>2, <2>3, EmptyList
  <2>5. parts[i] = <<b[i]>>
    BY <2>3, <2>4
  <2>6. Len(parts[i]) = 1 /\ parts[i][1] = b[i]
    BY <2>5, OneElement
  <2>7. k = 1
    BY <2>6
  <2> QED
    BY <2>2, <2>4, <2>6, <2>7
<1> QED
  BY <1>4, <1>5 DEF n

(* There are none.                                                         *)
LEMMA NoFields ==
  ASSUME NEW b, Listed(b), NEW t, \A i \in 1..Len(b) : b[i].tag # t
  PROVE  Fields(b, t) = <<>>
<1> DEFINE parts == Picks(b, t)
           n == Len(b)
<1>1. /\ Fields(b, t) = FlattenSeq(parts) /\ Listed(parts) /\ Len(parts) = n
      /\ n \in Nat
      /\ \A i \in 1..n : parts[i] = (IF b[i].tag = t THEN <<b[i]>> ELSE <<>>)
  BY PicksAreParts DEF ArePicks
<1>2. \A i \in 1..n : b[i].tag # t
  OBVIOUS
<1> HIDE DEF parts, n
<1>3. \A i \in 1..n : parts[i] = <<>>
  BY <1>1, <1>2
<1> QED
  BY <1>1, <1>3, NoPart

(* There is one.                                                           *)
LEMMA OneField ==
  ASSUME NEW b, Listed(b), NEW t, NEW k \in 1..Len(b), b[k].tag = t,
         \A i \in 1..Len(b) : i # k => b[i].tag # t
  PROVE  Fields(b, t) = <<b[k]>>
<1> DEFINE parts == Picks(b, t)
           n == Len(b)
<1>1. /\ Fields(b, t) = FlattenSeq(parts) /\ Listed(parts) /\ Len(parts) = n
      /\ n \in Nat
      /\ \A i \in 1..n :
           parts[i] = (IF b[i].tag = t THEN <<b[i]>> ELSE <<>>) /\ Listed(parts[i])
  BY PicksAreParts DEF ArePicks
<1>2. k \in 1..n /\ \A i \in 1..n : i # k => b[i].tag # t
  OBVIOUS
<1> HIDE DEF parts, n
<1>3. /\ parts[k] = <<b[k]>> /\ Listed(parts[k])
      /\ \A i \in 1..n : i # k => parts[i] = <<>>
  BY <1>1, <1>2
<1> QED
  BY <1>1, <1>2, <1>3, OnePart

(* All have the tag.                                                       *)
LEMMA AllFields ==
  ASSUME NEW b, Listed(b), NEW t, \A i \in 1..Len(b) : b[i].tag = t
  PROVE  Fields(b, t) = b
<1> DEFINE parts == Picks(b, t)
<1>1. Fields(b, t) = FlattenSeq(parts)
  BY PicksAreParts DEF ArePicks
<1>2. DOMAIN b = 1..Len(b)
  BY ListedProperties
<1>3. DOMAIN parts = DOMAIN b /\ parts = [i \in DOMAIN b |-> <<b[i]>>]
  BY <1>2 DEF Picks
<1> HIDE DEF parts
<1> QED
  BY <1>1, <1>3, SingleParts

(* One list behind the other.                                              *)
IsJoin(c, a, b) ==
  /\ Listed(c) /\ Len(c) = Len(a) + Len(b)
  /\ \A i \in 1..Len(a) : c[i] = a[i]
  /\ \A i \in 1..Len(b) : c[Len(a) + i] = b[i]

(* The fields of one message and then another.                             *)
LEMMA FieldsOfBoth ==
  ASSUME NEW a, NEW b, Listed(a), Listed(b), NEW t
  PROVE  Fields(a \o b, t) = Fields(a, t) \o Fields(b, t)
<1> DEFINE pa == Picks(a, t)
           pb == Picks(b, t)
           c == a \o b
           pc == Picks(c, t)
           pj == pa \o pb
<1>1. IsJoin(c, a, b)
  BY Joining DEF IsJoin
<1>2. ArePicks(pa, a, t) /\ ArePicks(pb, b, t)
  BY PicksAreParts
<1>3. ArePicks(pc, c, t)
  <2>1. Listed(c)
    BY <1>1 DEF IsJoin
  <2> HIDE DEF c
  <2> QED
    BY <2>1, PicksAreParts
<1> HIDE DEF c, pa, pb, pc
<1>4. IsJoin(pj, pa, pb)
  <2>1. Listed(pa) /\ Listed(pb)
    BY <1>2 DEF ArePicks
  <2> QED
    BY <2>1, Joining DEF IsJoin
<1>5. FlattenSeq(pj) = FlattenSeq(pa) \o FlattenSeq(pb)
  <2>1. /\ Listed(pa) /\ Listed(pb)
        /\ \A i \in 1..Len(pa) : Listed(pa[i])
        /\ \A i \in 1..Len(pb) : Listed(pb[i])
    BY <1>2 DEF ArePicks
  <2> QED
    BY <2>1, FlattenedJoin
<1> DEFINE m == Len(a)
           n == Len(b)
<1> HIDE DEF pj
<1>6. m \in Nat /\ n \in Nat /\ Len(pa) = m /\ Len(pb) = n
  BY <1>2 DEF ArePicks
<1>7. Len(c) = m + n /\ Len(pc) = m + n /\ Len(pj) = m + n
  BY <1>1, <1>3, <1>4, <1>6 DEF IsJoin, ArePicks
<1>8. ASSUME NEW i \in 1..m PROVE pc[i] = pj[i]
  <2>1. i \in 1..(m + n)
    BY <1>6
  <2>2. c[i] = a[i] /\ pj[i] = pa[i]
    BY <1>1, <1>4, <1>6 DEF IsJoin
  <2>3. pa[i] = IF a[i].tag = t THEN <<a[i]>> ELSE <<>>
    BY <1>2 DEF ArePicks
  <2>4. pc[i] = IF c[i].tag = t THEN <<c[i]>> ELSE <<>>
    BY <1>3, <1>7, <2>1 DEF ArePicks
  <2> QED
    BY <2>2, <2>3, <2>4
<1>9. ASSUME NEW i \in 1..n PROVE pc[m + i] = pj[m + i]
  <2>1. m + i \in 1..(m + n)
    BY <1>6
  <2>2. c[m + i] = b[i] /\ pj[m + i] = pb[i]
    BY <1>1, <1>4, <1>6 DEF IsJoin
  <2>3. pb[i] = IF b[i].tag = t THEN <<b[i]>> ELSE <<>>
    BY <1>2 DEF ArePicks
  <2>4. pc[m + i] = IF c[m + i].tag = t THEN <<c[m + i]>> ELSE <<>>
    BY <1>3, <1>7, <2>1 DEF ArePicks
  <2> QED
    BY <2>2, <2>3, <2>4
<1> HIDE DEF m, n
<1>10. \A i \in 1..(m + n) : pc[i] = pj[i]
  <2> TAKE i \in 1..(m + n)
  <2>1. CASE i <= m
    <3>1. i \in 1..m
      BY <1>6, <2>1
    <3> QED
      BY <1>8, <3>1
  <2>2. CASE ~(i <= m)
    <3> DEFINE j == i - m
    <3>1. j \in 1..n /\ i = m + j
      BY <1>6, <2>2
    <3> HIDE DEF j
    <3> QED
      BY <1>9, <3>1
  <2> QED
    BY <2>1, <2>2
<1>11. pc = pj
  <2>1. Listed(pc) /\ Listed(pj)
    BY <1>3, <1>4 DEF ArePicks, IsJoin
  <2> QED
    BY <1>7, <1>10, <2>1, SameLists
<1>12. Fields(a, t) = FlattenSeq(pa) /\ Fields(b, t) = FlattenSeq(pb) /\ Fields(c, t) = FlattenSeq(pc)
  BY <1>2, <1>3 DEF ArePicks
<1> QED
  BY <1>5, <1>11, <1>12 DEF c

(* A message in which each part has the tag of its place: the fields of a
   tag are the part.                                                       *)
LEMMA FieldsOfParts ==
  ASSUME NEW parts, NEW n \in Nat, Listed(parts), Len(parts) = n,
         \A i \in 1..n : Listed(parts[i]),
         \A i \in 1..n : \A j \in 1..Len(parts[i]) : parts[i][j].tag = i
  PROVE  /\ Listed(FlattenSeq(parts))
         /\ \A t \in 1..n : Fields(FlattenSeq(parts), t) = parts[t]
<1>1. PICK p : Heads(p, parts, n) /\ FlattenSeq(parts) = p[n] /\ Listed(p[n])
  BY Flattened
<1>2. \A i \in 0..n : Listed(p[i])
  BY <1>1, HeadsAreListed
<1>3. ASSUME NEW t \in 1..n
      PROVE  Fields(p[n], t) = parts[t]
  <2> DEFINE At(m) == Fields(p[m], t) = IF m < t THEN <<>> ELSE parts[t]
             T == {m \in Nat : m <= n => At(m)}
  <2>1. 0 \in T
    <3>1. p[0] = <<>> /\ 0 < t
      BY <1>1 DEF Heads
    <3>2. Fields(<<>>, t) = <<>>
      <4>1. Listed(<<>>) /\ \A i \in 1..Len(<<>>) : <<>>[i].tag # t
        BY EmptyList
      <4> QED
        BY <4>1, NoFields
    <3>3. At(0)
      BY <3>1, <3>2
    <3> HIDE DEF At
    <3> QED
      BY <3>3
  <2>2. ASSUME NEW m \in Nat, m \in T
        PROVE  m + 1 \in T
    <3> HIDE DEF At
    <3> SUFFICES ASSUME m + 1 <= n PROVE At(m + 1)
      OBVIOUS
    <3>1. m + 1 \in 1..n /\ (m + 1) - 1 = m /\ m \in 0..n /\ At(m)
      BY <2>2
    <3> DEFINE before == p[m]
               part == parts[m + 1]
               after == p[m + 1]
    <3>2. Listed(before) /\ Listed(part) /\ after = before \o part
      BY <1>1, <1>2, <3>1 DEF Heads
    <3>3. \A j \in 1..Len(part) : part[j].tag = m + 1
      BY <3>1
    <3>4. Fields(before, t) = IF m < t THEN <<>> ELSE parts[t]
      BY <3>1 DEF At
    <3> HIDE DEF T
    <3>5. part = parts[m + 1]
      OBVIOUS
    <3> HIDE DEF before, part
    <3> HIDE DEF after
    <3>6. Fields(after, t) = Fields(before, t) \o Fields(part, t)
      <4>1. Fields(before \o part, t) = Fields(before, t) \o Fields(part, t)
        BY <3>2, FieldsOfBoth
      <4> QED
        BY <3>2, <4>1
    <3>7. CASE m + 1 = t
      <4>1. m < t /\ ~(m + 1 < t)
        BY <3>7
      <4>2. Fields(part, t) = part
        BY <3>2, <3>3, <3>7, AllFields
      <4>3. Fields(before, t) = <<>>
        BY <3>4, <4>1
      <4>4. Fields(after, t) = <<>> \o part
        BY <3>6, <4>2, <4>3, Zenon
      <4>5. Fields(after, t) = parts[t]
        BY <3>2, <3>5, <3>7, <4>4, EmptyList, Zenon
      <4> QED
        BY <4>1, <4>5 DEF At, after
    <3>8. CASE m + 1 # t
      <4>1. m < t <=> m + 1 < t
        <5>1. t \in Nat
          OBVIOUS
        <5> QED
          BY <2>2, <3>8, <5>1, SMTT(30)
      <4>2. Fields(part, t) = <<>>
        BY <3>2, <3>3, <3>8, NoFields
      <4>3. Fields(after, t) = Fields(before, t)
        <5>1. Listed(Fields(before, t))
          BY <3>2, FieldsAreListed
        <5> QED
          BY <3>6, <4>2, <5>1, EmptyList, Zenon
      <4> QED
        BY <3>4, <4>1, <4>3 DEF At, after
    <3> QED
      BY <3>7, <3>8
  <2>3. At(n)
    <3> HIDE DEF T, At
    <3>1. n \in T
      BY <2>1, <2>2, InductionOnSet
    <3> QED
      BY <3>1 DEF T
  <2>4. ~(n < t)
    OBVIOUS
  <2> QED
    BY <2>3, <2>4
<1> QED
  BY <1>1, <1>3

(* What contents can be: no bytes among them, and all are lists.           *)
Contents(C) == <<>> \in C /\ \A b \in C : Listed(b)

(* A value that a field can have.                                          *)
Fits(field, value, C) ==
  /\ field.is \in {"uint32", "uint64", "bytes", "repeated bytes", "repeated", "message"}
  /\ field.is = "uint32" => value \in Nat /\ value < WORD32
  /\ field.is = "uint64" => value \in Nat /\ value < WORD64
  /\ field.is = "bytes" => value \in Atom \cup C
  /\ field.is \in {"repeated bytes", "repeated"} => value \in Seq(Atom \cup C)
  /\ field.is = "message" => value = {} \/ \E b \in C : value = {b}

(* A field whose varints have 64 bits.                                     *)
IsWhole(field) == field.number < WORD64 /\ field.extra # EXCESS

LEMMA WholeFieldsFit ==
  ASSUME NEW bytes, \A i \in DOMAIN bytes : IsWhole(bytes[i])
  PROVE  VarintsFit(bytes)
BY DEF VarintsFit, IsWhole

(* The sizes of words.                                                     *)
LEMMA WordsFit == WORD64 \in Nat /\ WORD64 > 0 /\ WORD32 \in Nat /\ WORD32 <= WORD64
BY WireAssumption DEF WireAssumption

(* What is written for numbers and for bytes are fields, and whole.        *)
LEMMA NewFields ==
  ASSUME NEW tag \in Nat, NEW C, Contents(C)
  PROVE  /\ \A n \in Nat : n < WORD64 => Varint(tag, n) \in FieldOf(C) /\ IsWhole(Varint(tag, n))
         /\ \A b \in Atom \cup C : Bytes(tag, b) \in FieldOf(C)
         /\ \A b : IsWhole(Bytes(tag, b))
         /\ \A n : /\ Varint(tag, n).tag = tag /\ Varint(tag, n).type = "varint"
                   /\ Varint(tag, n).number = n /\ Varint(tag, n).bytes = <<>>
         /\ \A b : /\ Bytes(tag, b).tag = tag /\ Bytes(tag, b).type = "bytes"
                   /\ Bytes(tag, b).number = 0 /\ Bytes(tag, b).bytes = b
<1>1. <<>> \in Atom \cup C
  BY DEF Contents
<1>2. ASSUME NEW n \in Nat, n < WORD64
      PROVE  Varint(tag, n) \in FieldOf(C) /\ IsWhole(Varint(tag, n))
  <2>1. n \in 0..(64 * WORD64 - 1)
    BY <1>2, WordsFit
  <2>2. Varint(tag, n) \in FieldOf(C)
    BY <1>1, <2>1 DEF Varint, FieldOf
  <2>3. IsWhole(Varint(tag, n))
    BY <1>2 DEF IsWhole, Varint, EXCESS
  <2> QED
    BY <2>2, <2>3
<1>3. \A b \in Atom \cup C : Bytes(tag, b) \in FieldOf(C)
  <2>1. 0 \in 0..(64 * WORD64 - 1)
    BY WordsFit
  <2> QED
    BY <1>1, <2>1 DEF Bytes, FieldOf
<1>6. \A b : IsWhole(Bytes(tag, b))
  BY WordsFit DEF IsWhole, Bytes, EXCESS
<1>4. \A n : /\ Varint(tag, n).tag = tag /\ Varint(tag, n).type = "varint"
             /\ Varint(tag, n).number = n /\ Varint(tag, n).bytes = <<>>
  BY DEF Varint
<1>5. \A b : /\ Bytes(tag, b).tag = tag /\ Bytes(tag, b).type = "bytes"
             /\ Bytes(tag, b).number = 0 /\ Bytes(tag, b).bytes = b
  BY DEF Bytes
<1> QED
  BY <1>2, <1>3, <1>4, <1>5, <1>6

(* The wire type of a field.                                               *)
TypeOf(field) == IF IsNumber(field) THEN "varint" ELSE "bytes"

(* What is written for a value: fields of its tag and of its type, with the
   bytes of the value.                                                     *)
IsPart(fields, field, tag, value, C) ==
  /\ fields \in Seq(FieldOf(C))
  /\ \A i \in 1..Len(fields) :
       /\ fields[i].tag = tag /\ fields[i].type = TypeOf(field) /\ IsWhole(fields[i])
       /\ field.is = "message" => value = {fields[i].bytes}
       /\ field.is = "repeated" => i \in DOMAIN value /\ fields[i].bytes = value[i]

(* Every value that fits is written as such fields, and read as before.    *)
LEMMA FieldRoundTrip ==
  ASSUME WORD32 \in Nat,
         NEW field, NEW tag \in Nat, NEW value, NEW C, Contents(C), Fits(field, value, C)
  PROVE  /\ IsPart(FieldsFor(field, tag, value), field, tag, value, C)
         /\ \A merges : ValueOf(field, FieldsFor(field, tag, value), merges) = value
<1> DEFINE fields == FieldsFor(field, tag, value)
<1> SUFFICES /\ IsPart(fields, field, tag, value, C)
             /\ \A merges : ValueOf(field, fields, merges) = value
  OBVIOUS
<1>0. ASSUME NEW e, NEW S, e \in S
      PROVE  <<e>> \in Seq(S) /\ Len(<<e>>) = 1 /\ <<e>>[1] = e /\ Last(<<e>>) = e /\ <<e>> # <<>>
  BY <1>0 DEF Last
<1>01. LastNumber(<<>>) = 0 /\ LastBytes(<<>>) = <<>>
  BY DEF LastNumber, LastBytes
<1>02. \A S : <<>> \in Seq(S) /\ Len(<<>>) = 0
  OBVIOUS
<1>1. CASE IsNumber(field)
  <2>0. TypeOf(field) = "varint" /\ field.is # "message" /\ field.is # "repeated"
    BY <1>1 DEF IsNumber, TypeOf
  <2>1. value \in Nat /\ value < WORD64
    <3>1. CASE field.is = "uint32"
      <4>1. value \in Nat /\ value < WORD32
        BY <3>1 DEF Fits
      <4> QED
        BY <4>1, WordsFit
    <3>2. CASE field.is = "uint64"
      BY <3>2 DEF Fits
    <3> QED
      BY <1>1, <3>1, <3>2 DEF IsNumber
  <2>2. fields = IF value = 0 THEN <<>> ELSE <<Varint(tag, value)>>
    BY <1>1 DEF FieldsFor, IsNumber
  <2>3. \A merges : ValueOf(field, fields, merges) =
          IF field.is = "uint32" THEN LastNumber(fields) % WORD32 ELSE LastNumber(fields)
    BY <1>1 DEF ValueOf, IsNumber
  <2> HIDE DEF fields
  <2> DEFINE e == Varint(tag, value)
  <2>4. /\ e \in FieldOf(C) /\ e.tag = tag /\ e.type = "varint" /\ e.number = value
        /\ IsWhole(e)
    BY <2>1, NewFields
  <2>5. CASE value = 0
    <3>1. fields = <<>>
      BY <2>2, <2>5
    <3>2. IsPart(fields, field, tag, value, C)
      BY <1>02, <3>1 DEF IsPart
    <3>3. field.is = "uint32" => 0 % WORD32 = 0
      <4> SUFFICES ASSUME field.is = "uint32" PROVE 0 % WORD32 = 0
        OBVIOUS
      <4>1. WORD32 \in Nat \ {0}
        BY <2>1 DEF Fits
      <4> QED
        BY <4>1
    <3> QED
      BY <1>01, <2>3, <2>5, <3>1, <3>2, <3>3
  <2>6. CASE value # 0
    <3>1. fields = <<e>>
      BY <2>2, <2>6
    <3> HIDE DEF e
    <3>2. <<e>> \in Seq(FieldOf(C)) /\ Len(<<e>>) = 1 /\ <<e>>[1] = e /\ Last(<<e>>) = e /\ <<e>> # <<>>
      BY <1>0, <2>4
    <3>3. IsPart(fields, field, tag, value, C)
      BY <2>0, <2>4, <3>1, <3>2 DEF IsPart
    <3>4. LastNumber(fields) = value
      <4>1. value % WORD64 = value
        BY <2>1, WordsFit, SmallRemainder
      <4> QED
        BY <2>4, <3>1, <3>2, <4>1 DEF LastNumber, ReadVarint
    <3>5. field.is = "uint32" => value % WORD32 = value
      <4> SUFFICES ASSUME field.is = "uint32" PROVE value % WORD32 = value
        OBVIOUS
      <4>1. WORD32 \in Nat \ {0} /\ value < WORD32
        BY <2>1 DEF Fits
      <4> QED
        BY <2>1, <4>1, SmallRemainder
    <3> QED
      BY <2>3, <3>3, <3>4, <3>5
  <2> QED
    BY <2>5, <2>6
<1>2. CASE field.is = "bytes"
  <2>1. value \in Atom \cup C /\ TypeOf(field) = "bytes" /\ ~IsNumber(field)
    BY <1>2 DEF Fits, IsNumber, TypeOf
  <2>2. fields = IF value = <<>> THEN <<>> ELSE <<Bytes(tag, value)>>
    BY <1>2, <2>1 DEF FieldsFor
  <2>3. \A merges : ValueOf(field, fields, merges) = LastBytes(fields)
    BY <1>2 DEF ValueOf
  <2> HIDE DEF fields
  <2> DEFINE e == Bytes(tag, value)
  <2>4. e \in FieldOf(C) /\ e.tag = tag /\ e.type = "bytes" /\ e.bytes = value /\ IsWhole(e)
    BY <2>1, NewFields
  <2>5. CASE value = <<>>
    <3>1. fields = <<>>
      BY <2>2, <2>5
    <3>2. IsPart(fields, field, tag, value, C)
      BY <1>02, <3>1 DEF IsPart
    <3> QED
      BY <1>01, <2>3, <2>5, <3>1, <3>2
  <2>6. CASE value # <<>>
    <3>1. fields = <<e>>
      BY <2>2, <2>6
    <3> HIDE DEF e
    <3>2. <<e>> \in Seq(FieldOf(C)) /\ Len(<<e>>) = 1 /\ <<e>>[1] = e /\ Last(<<e>>) = e /\ <<e>> # <<>>
      BY <1>0, <2>4
    <3>3. IsPart(fields, field, tag, value, C)
      BY <1>2, <2>1, <2>4, <3>1, <3>2 DEF IsPart
    <3>4. LastBytes(fields) = value
      BY <2>4, <3>1, <3>2 DEF LastBytes
    <3> QED
      BY <2>3, <3>3, <3>4
  <2> QED
    BY <2>5, <2>6
<1>3. CASE field.is = "message"
  <2>1. (value = {} \/ \E b \in C : value = {b}) /\ TypeOf(field) = "bytes" /\ ~IsNumber(field)
    BY <1>3 DEF Fits, IsNumber, TypeOf
  <2>2. fields = IF value = {} THEN <<>> ELSE <<Bytes(tag, CHOOSE b \in value : TRUE)>>
    BY <1>3, <2>1 DEF FieldsFor
  <2>3. \A merges : ValueOf(field, fields, merges) =
          IF fields = <<>> THEN {}
          ELSE {IF merges THEN FlattenSeq([i \in DOMAIN fields |-> fields[i].bytes])
                ELSE LastBytes(fields)}
    BY <1>3 DEF ValueOf
  <2> HIDE DEF fields
  <2>4. CASE value = {}
    <3>1. fields = <<>>
      BY <2>2, <2>4
    <3>2. IsPart(fields, field, tag, value, C)
      BY <1>02, <3>1 DEF IsPart
    <3> QED
      BY <2>3, <2>4, <3>1, <3>2
  <2>5. CASE value # {}
    <3>1. PICK b \in C : value = {b}
      BY <2>1, <2>5
    <3>2. (CHOOSE x \in value : TRUE) = b
      BY <3>1
    <3> DEFINE e == Bytes(tag, b)
    <3>3. fields = <<e>>
      BY <2>2, <2>5, <3>2
    <3>4. e \in FieldOf(C) /\ e.tag = tag /\ e.type = "bytes" /\ e.bytes = b /\ IsWhole(e)
      BY NewFields
    <3> HIDE DEF e
    <3>5. <<e>> \in Seq(FieldOf(C)) /\ Len(<<e>>) = 1 /\ <<e>>[1] = e /\ Last(<<e>>) = e /\ <<e>> # <<>>
      BY <1>0, <3>4
    <3>6. IsPart(fields, field, tag, value, C)
      BY <1>3, <2>1, <3>1, <3>3, <3>4, <3>5 DEF IsPart
    <3>7. LastBytes(fields) = b
      BY <3>3, <3>4, <3>5 DEF LastBytes
    <3> DEFINE parts == [i \in DOMAIN fields |-> fields[i].bytes]
    <3>8. FlattenSeq(parts) = b
      <4>1. DOMAIN parts = 1..1 /\ parts = [i \in 1..1 |-> parts[i]] /\ parts[1] = b
        BY <3>3, <3>4
      <4> HIDE DEF parts
      <4>2. Listed(parts) /\ Len(parts) = 1 /\ Listed(b)
        BY <4>1, Lists DEF Contents
      <4>3. 1 \in Nat /\ 1 \in 1..1 /\ Listed(parts[1]) /\ \A i \in 1..1 : i # 1 => parts[i] = <<>>
        BY <4>1, <4>2
      <4>4. FlattenSeq(parts) = parts[1]
        BY <4>2, <4>3, OnePart
      <4> QED
        BY <4>1, <4>4
    <3>9. fields # <<>>
      BY <3>3, <3>5
    <3> QED
      BY <2>3, <3>1, <3>6, <3>7, <3>8, <3>9
  <2> QED
    BY <2>4, <2>5
<1>4. CASE field.is \in {"repeated bytes", "repeated"}
  <2>1. value \in Seq(Atom \cup C) /\ TypeOf(field) = "bytes" /\ ~IsNumber(field) /\ field.is # "message"
    BY <1>4 DEF Fits, IsNumber, TypeOf
  <2>2. fields = [i \in DOMAIN value |-> Bytes(tag, value[i])]
    BY <1>4, <2>1 DEF FieldsFor
  <2>3. \A merges : ValueOf(field, fields, merges) = [i \in DOMAIN fields |-> fields[i].bytes]
    BY <1>4 DEF ValueOf
  <2> HIDE DEF fields
  <2> DEFINE n == Len(value)
  <2>4. n \in Nat /\ DOMAIN value = 1..n /\ (\A i \in 1..n : value[i] \in Atom \cup C)
        /\ value = [i \in 1..n |-> value[i]]
    BY <2>1, SequencesAreLists, ListedProperties
  <2> HIDE DEF n
  <2>5. DOMAIN fields = 1..n /\ fields = [i \in 1..n |-> fields[i]]
    BY <2>2, <2>4
  <2>6. \A i \in 1..n : fields[i] = Bytes(tag, value[i])
    BY <2>2, <2>4
  <2>7. \A i \in 1..n : /\ fields[i] \in FieldOf(C) /\ fields[i].tag = tag
                        /\ fields[i].type = "bytes" /\ fields[i].bytes = value[i]
                        /\ IsWhole(fields[i])
    BY <2>4, <2>6, NewFields
  <2>8. Listed(fields) /\ Len(fields) = n
    BY <2>4, <2>5, Lists
  <2>9. fields \in Seq(FieldOf(C))
    BY <2>7, <2>8, ListsAreSequences
  <2>10. IsPart(fields, field, tag, value, C)
    BY <2>1, <2>4, <2>7, <2>8, <2>9 DEF IsPart
  <2>11. [i \in DOMAIN fields |-> fields[i].bytes] = value
    BY <2>4, <2>5, <2>7
  <2> QED
    BY <2>3, <2>10, <2>11
<1>5. field.is = "uint32" \/ field.is = "uint64" => IsNumber(field)
  BY DEF IsNumber
<1> QED
  BY <1>1, <1>2, <1>3, <1>4, <1>5 DEF Fits

-----------------------------------------------------------------------------
(* The tags of a schema are numbers up to a greatest.                      *)
IsSchema(schema) ==
  \E n \in Nat \ {0} : DOMAIN schema \subseteq 1..n /\ n \in DOMAIN schema

(* A message that a schema describes, its parts being among C.             *)
FitsAll(schema, message, C) ==
  /\ IsSchema(schema) /\ message = [tag \in DOMAIN schema |-> message[tag]]
  /\ \A tag \in DOMAIN schema : Fits(schema[tag], message[tag], C)

(* Where a written field comes from.                                       *)
ComesFrom(field, schema, message) ==
  /\ field.tag \in DOMAIN schema /\ field.type = TypeOf(schema[field.tag]) /\ IsWhole(field)
  /\ schema[field.tag].is = "message" => message[field.tag] = {field.bytes}
  /\ schema[field.tag].is = "repeated" =>
       \E i \in DOMAIN message[field.tag] : field.bytes = message[field.tag][i]

(* What is written for a message, tag by tag.                              *)
LEMMA Written ==
  ASSUME WORD32 \in Nat, NEW schema, NEW message, NEW C, Contents(C), FitsAll(schema, message, C)
  PROVE  /\ Write1(schema, message) \in Seq(FieldOf(C))
         /\ \A i \in 1..Len(Write1(schema, message)) :
              ComesFrom(Write1(schema, message)[i], schema, message)
         /\ \A tag \in DOMAIN schema :
              Fields(Write1(schema, message), tag) = FieldsFor(schema[tag], tag, message[tag])
<1>1. PICK n \in Nat \ {0} : DOMAIN schema \subseteq 1..n /\ n \in DOMAIN schema
  BY DEF FitsAll, IsSchema
<1>2. Max(DOMAIN schema) = n
  <2>1. /\ Max(DOMAIN schema) \in DOMAIN schema
        /\ \A m \in DOMAIN schema : m <= Max(DOMAIN schema)
    <3>1. n \in Nat /\ DOMAIN schema \in SUBSET (1..n) /\ DOMAIN schema # {}
      BY <1>1
    <3> QED
      BY <3>1, Greatest
  <2> DEFINE m == Max(DOMAIN schema)
  <2>2. m \in 1..n /\ n <= m
    BY <1>1, <2>1
  <2> HIDE DEF m
  <2>3. m = n
    BY <1>1, <2>2
  <2> QED
    BY <2>3 DEF m
<1> DEFINE parts == [tag \in 1..n |-> IF tag \in DOMAIN schema
                                      THEN FieldsFor(schema[tag], tag, message[tag]) ELSE <<>>]
           w == FlattenSeq(parts)
           F == FieldOf(C)
<1>3. Write1(schema, message) = w
  BY <1>2, Zenon DEF Write1
<1>4. \A tag \in DOMAIN schema :
        IsPart(FieldsFor(schema[tag], tag, message[tag]), schema[tag], tag, message[tag], C)
  <2> TAKE tag \in DOMAIN schema
  <2>1. tag \in Nat /\ Fits(schema[tag], message[tag], C)
    BY <1>1 DEF FitsAll
  <2> QED
    BY <2>1, FieldRoundTrip
<1>5. DOMAIN parts = 1..n /\ parts = [tag \in 1..n |-> parts[tag]]
  OBVIOUS
<1>6. /\ \A tag \in DOMAIN schema : parts[tag] = FieldsFor(schema[tag], tag, message[tag])
      /\ \A tag \in 1..n : tag \notin DOMAIN schema => parts[tag] = <<>>
  BY <1>1
<1> HIDE DEF parts, F
<1>7. \A tag \in DOMAIN schema : IsPart(parts[tag], schema[tag], tag, message[tag], C)
  BY <1>4, <1>6
<1>8. \A tag \in 1..n : parts[tag] \in Seq(F)
  <2> TAKE tag \in 1..n
  <2>1. CASE tag \in DOMAIN schema
    BY <1>7, <2>1 DEF IsPart, F
  <2>2. CASE tag \notin DOMAIN schema
    <3>1. parts[tag] = <<>> /\ <<>> \in Seq(F)
      BY <1>6, <2>2
    <3> QED
      BY <3>1, Zenon
  <2> QED
    BY <2>1, <2>2
<1>9. \A tag \in 1..n : \A j \in 1..Len(parts[tag]) : tag \in DOMAIN schema /\ parts[tag][j].tag = tag
  <2> TAKE tag \in 1..n
  <2>1. CASE tag \in DOMAIN schema
    BY <1>7, <2>1 DEF IsPart
  <2>2. CASE tag \notin DOMAIN schema
    BY <1>6, <2>2, EmptyList
  <2> QED
    BY <2>1, <2>2
<1>10. Listed(parts) /\ Len(parts) = n
  BY <1>1, <1>5, Lists
<1>11. \A tag \in 1..n : Listed(parts[tag])
  BY <1>8, SequencesAreLists
<1>12. /\ Listed(w)
       /\ \A tag \in 1..n : Fields(w, tag) = parts[tag]
  BY <1>1, <1>9, <1>10, <1>11, FieldsOfParts
<1>13. \A j \in 1..Len(w) : \E i \in 1..n : \E k \in 1..Len(parts[i]) : w[j] = parts[i][k]
  BY <1>1, <1>10, <1>11, FlattenedElements
<1> HIDE DEF w
<1>14. ASSUME NEW j \in 1..Len(w)
       PROVE  w[j] \in F /\ ComesFrom(w[j], schema, message)
  <2>1. PICK tag \in 1..n : \E k \in 1..Len(parts[tag]) : w[j] = parts[tag][k]
    BY <1>13
  <2>2. PICK k \in 1..Len(parts[tag]) : w[j] = parts[tag][k]
    BY <2>1
  <2> DEFINE field == w[j]
             part == parts[tag]
  <2>3. part \in Seq(F) /\ k \in 1..Len(part) /\ field = part[k] /\ tag \in DOMAIN schema
    BY <1>8, <1>9, <2>2
  <2>4. IsPart(part, schema[tag], tag, message[tag], C)
    BY <1>7, <2>3
  <2> HIDE DEF field, part
  <2>5. field \in F
    BY <2>3
  <2>6. /\ field.tag = tag /\ field.type = TypeOf(schema[tag]) /\ IsWhole(field)
        /\ schema[tag].is = "message" => message[tag] = {field.bytes}
        /\ schema[tag].is = "repeated" => k \in DOMAIN message[tag] /\ field.bytes = message[tag][k]
    BY <2>3, <2>4 DEF IsPart
  <2>7. ComesFrom(field, schema, message)
    BY <2>3, <2>6 DEF ComesFrom
  <2> QED
    BY <2>5, <2>7 DEF field
<1>15. w \in Seq(F)
  BY <1>12, <1>14, ListsAreSequences
<1>16. \A tag \in DOMAIN schema : Fields(w, tag) = FieldsFor(schema[tag], tag, message[tag])
  BY <1>1, <1>6, <1>12
<1> QED
  BY <1>3, <1>14, <1>15, <1>16 DEF F

(* A message of one level is read as it was written.                       *)
LEMMA RoundTrip1 ==
  ASSUME WORD32 \in Nat, NEW schema, NEW message, NEW C, Contents(C), FitsAll(schema, message, C),
         NEW merges
  PROVE  Read1(schema, Write1(schema, message), merges) = message
<1> DEFINE w == Write1(schema, message)
<1>1. \A tag \in DOMAIN schema : Fields(w, tag) = FieldsFor(schema[tag], tag, message[tag])
  BY Written
<1> HIDE DEF w
<1>2. ASSUME NEW tag \in DOMAIN schema
      PROVE  ValueOf(schema[tag], Fields(w, tag), merges) = message[tag]
  <2>1. tag \in Nat /\ Fits(schema[tag], message[tag], C)
    BY DEF FitsAll, IsSchema
  <2>2. ValueOf(schema[tag], FieldsFor(schema[tag], tag, message[tag]), merges) = message[tag]
    BY <2>1, FieldRoundTrip
  <2> QED
    BY <1>1, <2>2
<1>3. Read1(schema, w, merges) = [tag \in DOMAIN schema |-> message[tag]]
  BY <1>2 DEF Read1
<1> QED
  BY <1>3 DEF FitsAll, w

(* And can be decoded, when it is not an atom.                             *)
LEMMA Decodes1 ==
  ASSUME WORD32 \in Nat, NEW schema, NEW message, NEW C, Contents(C), FitsAll(schema, message, C),
         Write1(schema, message) \notin Atom
  PROVE  Decodable1(schema, Write1(schema, message), TRUE)
<1> DEFINE w == Write1(schema, message)
<1>1. w \in Seq(FieldOf(C)) /\ \A i \in 1..Len(w) : ComesFrom(w[i], schema, message)
  BY Written
<1> HIDE DEF w
<1>2. DOMAIN w = 1..Len(w)
  BY <1>1
<1>3. \A i \in DOMAIN w : w[i].type = TypeOf(schema[w[i].tag])
  BY <1>1, <1>2 DEF ComesFrom
<1>4. w \notin Atom
  BY DEF w
<1>6. VarintsFit(w)
  <2>1. \A i \in DOMAIN w : IsWhole(w[i])
    BY <1>1, <1>2 DEF ComesFrom
  <2> QED
    BY <2>1, WholeFieldsFit
<1>5. Decodable1(schema, w, TRUE)
  BY <1>3, <1>4, <1>6 DEF Decodable1, TypeOf
<1> QED
  BY <1>5 DEF w

(* A message with messages inside: those among B, their bytes among C.     *)
FitsInside(schema, message, B, C) ==
  /\ IsSchema(schema) /\ message = [tag \in DOMAIN schema |-> message[tag]]
  /\ Seq(FieldOf(B)) \subseteq C
  /\ \A tag \in DOMAIN schema :
       CASE schema[tag].is = "message" ->
              \/ message[tag] = {}
              \/ \E v : message[tag] = {v} /\ FitsAll(schema[tag].of, v, B)
         [] schema[tag].is = "repeated" ->
              /\ Listed(message[tag])
              /\ \A i \in DOMAIN message[tag] : FitsAll(schema[tag].of, message[tag][i], B)
         [] OTHER -> Fits(schema[tag], message[tag], C)

(* With the messages inside written, it is a message of one level.         *)
LEMMA InsideFits ==
  ASSUME WORD32 \in Nat, NEW schema, NEW message, NEW B, NEW C, Contents(B), Contents(C),
         FitsInside(schema, message, B, C)
  PROVE  FitsAll(schema, Inside(schema, message, Write1), C)
<1> DEFINE inner == Inside(schema, message, Write1)
<1>1. inner = [tag \in DOMAIN schema |-> inner[tag]]
  BY DEF Inside
<1>2. \A tag \in DOMAIN schema : inner[tag] =
        CASE schema[tag].is = "message" -> {Write1(schema[tag].of, v) : v \in message[tag]}
          [] schema[tag].is = "repeated" ->
               [i \in DOMAIN message[tag] |-> Write1(schema[tag].of, message[tag][i])]
          [] OTHER -> message[tag]
  BY DEF Inside
<1> HIDE DEF inner
<1>3. ASSUME NEW tag \in DOMAIN schema
      PROVE  Fits(schema[tag], inner[tag], C)
  <2> DEFINE field == schema[tag]
             value == message[tag]
             new == inner[tag]
  <2> SUFFICES Fits(field, new, C)
    OBVIOUS
  <2>1. /\ field.is = "message" => \/ value = {}
                                   \/ \E v : value = {v} /\ FitsAll(field.of, v, B)
        /\ field.is = "repeated" => /\ Listed(value)
                                    /\ \A i \in DOMAIN value : FitsAll(field.of, value[i], B)
        /\ field.is \notin {"message", "repeated"} => Fits(field, value, C)
    BY DEF FitsInside
  <2>2. /\ field.is = "message" => new = {Write1(field.of, v) : v \in value}
        /\ field.is = "repeated" => new = [i \in DOMAIN value |-> Write1(field.of, value[i])]
        /\ field.is \notin {"message", "repeated"} => new = value
    BY <1>2
  <2> HIDE DEF field, value, new
  <2>3. \A v : FitsAll(field.of, v, B) => Write1(field.of, v) \in C
    <3> TAKE v
    <3> HAVE FitsAll(field.of, v, B)
    <3>1. Write1(field.of, v) \in Seq(FieldOf(B))
      BY Written
    <3>2. Seq(FieldOf(B)) \subseteq C
      BY DEF FitsInside
    <3> QED
      BY <3>1, <3>2, Zenon
  <2>4. CASE field.is = "message"
    <3>1. new = {} \/ \E b \in C : new = {b}
      <4>1. CASE value = {}
        BY <2>2, <2>4, <4>1
      <4>2. CASE value # {}
        <5>1. PICK v : value = {v} /\ FitsAll(field.of, v, B)
          BY <2>1, <2>4, <4>2
        <5>2. new = {Write1(field.of, v)} /\ Write1(field.of, v) \in C
          BY <2>2, <2>3, <2>4, <5>1
        <5> QED
          BY <5>2
      <4> QED
        BY <4>1, <4>2
    <3> QED
      BY <2>4, <3>1 DEF Fits
  <2>5. CASE field.is = "repeated"
    <3> DEFINE n == Len(value)
    <3>1. n \in Nat /\ DOMAIN value = 1..n
      BY <2>1, <2>5, ListedProperties
    <3> HIDE DEF n
    <3>2. DOMAIN new = 1..n /\ new = [i \in 1..n |-> new[i]]
      BY <2>2, <2>5, <3>1
    <3>3. \A i \in 1..n : new[i] \in Atom \cup C
      BY <2>1, <2>2, <2>3, <2>5, <3>1
    <3>4. Listed(new) /\ Len(new) = n
      BY <3>1, <3>2, Lists
    <3>5. new \in Seq(Atom \cup C)
      BY <3>3, <3>4, ListsAreSequences
    <3> QED
      BY <2>5, <3>5 DEF Fits
  <2>6. CASE field.is \notin {"message", "repeated"}
    BY <2>1, <2>2, <2>6
  <2> QED
    BY <2>4, <2>5, <2>6
<1> QED
  BY <1>1, <1>3 DEF FitsAll, FitsInside, inner

(* A message of two levels is read as it was written.                      *)
LEMMA RoundTrip2 ==
  ASSUME WORD32 \in Nat, NEW schema, NEW message, NEW B, NEW C, Contents(B), Contents(C),
         FitsInside(schema, message, B, C), NEW merges
  PROVE  Read2(schema, EncodeMessage(schema, message), merges) = message
<1> DEFINE inner == Inside(schema, message, Write1)
           w == Write1(schema, inner)
<1>1. EncodeMessage(schema, message) = w
  BY DEF EncodeMessage
<1>2. Read1(schema, w, merges) = inner
  <2>1. FitsAll(schema, inner, C)
    BY InsideFits
  <2> HIDE DEF inner
  <2> QED
    BY <2>1, RoundTrip1
<1> HIDE DEF w
<1>3. \A tag \in DOMAIN schema : inner[tag] =
        CASE schema[tag].is = "message" -> {Write1(schema[tag].of, v) : v \in message[tag]}
          [] schema[tag].is = "repeated" ->
               [i \in DOMAIN message[tag] |-> Write1(schema[tag].of, message[tag][i])]
          [] OTHER -> message[tag]
  BY DEF Inside
<1> HIDE DEF inner
<1> DEFINE back == Read2(schema, w, merges)
<1>4. back =
        [tag \in DOMAIN schema |->
           CASE schema[tag].is = "message" -> {Read1(schema[tag].of, b, merges) : b \in inner[tag]}
             [] schema[tag].is = "repeated" ->
                  [i \in DOMAIN inner[tag] |-> Read1(schema[tag].of, inner[tag][i], merges)]
             [] OTHER -> inner[tag]]
  BY <1>2 DEF Read2, Inside
<1> HIDE DEF back
<1>5. ASSUME NEW tag \in DOMAIN schema
      PROVE  back[tag] = message[tag]
  <2> DEFINE field == schema[tag]
             value == message[tag]
             mid == inner[tag]
             new == back[tag]
  <2> SUFFICES new = value
    OBVIOUS
  <2>1. /\ field.is = "message" => \/ value = {}
                                   \/ \E v : value = {v} /\ FitsAll(field.of, v, B)
        /\ field.is = "repeated" => /\ Listed(value)
                                    /\ \A i \in DOMAIN value : FitsAll(field.of, value[i], B)
    BY DEF FitsInside
  <2>2. /\ field.is = "message" => mid = {Write1(field.of, v) : v \in value}
        /\ field.is = "repeated" => mid = [i \in DOMAIN value |-> Write1(field.of, value[i])]
        /\ field.is \notin {"message", "repeated"} => mid = value
    BY <1>3
  <2>3. /\ field.is = "message" => new = {Read1(field.of, b, merges) : b \in mid}
        /\ field.is = "repeated" => new = [i \in DOMAIN mid |-> Read1(field.of, mid[i], merges)]
        /\ field.is \notin {"message", "repeated"} => new = mid
    BY <1>4
  <2> HIDE DEF field, value, mid, new
  <2>4. \A v : FitsAll(field.of, v, B) => Read1(field.of, Write1(field.of, v), merges) = v
    BY RoundTrip1
  <2>5. CASE field.is = "message"
    <3>1. CASE value = {}
      BY <2>2, <2>3, <2>5, <3>1
    <3>2. CASE value # {}
      <4>1. PICK v : value = {v} /\ FitsAll(field.of, v, B)
        BY <2>1, <2>5, <3>2
      <4>2. mid = {Write1(field.of, v)}
        BY <2>2, <2>5, <4>1
      <4>3. new = {Read1(field.of, Write1(field.of, v), merges)}
        BY <2>3, <2>5, <4>2
      <4> QED
        BY <2>4, <4>1, <4>3
    <3> QED
      BY <3>1, <3>2
  <2>6. CASE field.is = "repeated"
    <3>1. DOMAIN mid = DOMAIN value /\ \A i \in DOMAIN value : mid[i] = Write1(field.of, value[i])
      BY <2>2, <2>6
    <3>2. new = [i \in DOMAIN value |-> Read1(field.of, mid[i], merges)]
      BY <2>3, <2>6, <3>1
    <3>3. \A i \in DOMAIN value : Read1(field.of, mid[i], merges) = value[i]
      BY <2>1, <2>4, <2>6, <3>1
    <3>4. value = [i \in DOMAIN value |-> value[i]]
      BY <2>1, <2>6, ListedProperties
    <3> QED
      BY <3>2, <3>3, <3>4
  <2>7. CASE field.is \notin {"message", "repeated"}
    BY <2>2, <2>3, <2>7
  <2> QED
    BY <2>5, <2>6, <2>7
<1>6. back = [tag \in DOMAIN schema |-> message[tag]]
  BY <1>4, <1>5
<1>7. back = message
  BY <1>6 DEF FitsInside
<1> QED
  BY <1>1, <1>7 DEF back

(* It is a sequence of fields and can be decoded.                          *)
LEMMA Decodes2 ==
  ASSUME WORD32 \in Nat, NEW schema, NEW message, NEW B, NEW C, Contents(B), Contents(C),
         FitsInside(schema, message, B, C),
         \A atom \in Atom : atom \notin Seq(FieldOf(C)) /\ atom \notin Seq(FieldOf(B))
  PROVE  /\ EncodeMessage(schema, message) \in Seq(FieldOf(C))
         /\ Decodable2(schema, EncodeMessage(schema, message), TRUE)
<1> DEFINE inner == Inside(schema, message, Write1)
           w == Write1(schema, inner)
<1>1. EncodeMessage(schema, message) = w
  BY DEF EncodeMessage
<1>2. \A tag \in DOMAIN schema : inner[tag] =
        CASE schema[tag].is = "message" -> {Write1(schema[tag].of, v) : v \in message[tag]}
          [] schema[tag].is = "repeated" ->
               [i \in DOMAIN message[tag] |-> Write1(schema[tag].of, message[tag][i])]
          [] OTHER -> message[tag]
  BY DEF Inside
<1>3. FitsAll(schema, inner, C)
  BY InsideFits
<1> HIDE DEF inner
<1>4. w \in Seq(FieldOf(C)) /\ \A i \in 1..Len(w) : ComesFrom(w[i], schema, inner)
  BY <1>3, Written
<1>5. w \notin Atom
  BY <1>4
<1>6. Decodable1(schema, w, TRUE)
  BY <1>3, <1>5, Decodes1
<1> HIDE DEF w
<1>7. ASSUME NEW i \in Nested(schema, w)
      PROVE  Decodable1(schema[w[i].tag].of, w[i].bytes, TRUE)
  <2> DEFINE field == w[i]
             tag == field.tag
             what == schema[tag]
             value == message[tag]
             mid == inner[tag]
  <2>1. i \in 1..Len(w) /\ tag \in DOMAIN schema /\ IsNested(what)
    BY <1>4 DEF Nested
  <2>2. ComesFrom(field, schema, inner)
    BY <1>4, <2>1
  <2>3. /\ what.is = "message" => \/ value = {}
                                   \/ \E v : value = {v} /\ FitsAll(what.of, v, B)
        /\ what.is = "repeated" => /\ Listed(value)
                                   /\ \A k \in DOMAIN value : FitsAll(what.of, value[k], B)
    BY <2>1 DEF FitsInside
  <2>4. /\ what.is = "message" => mid = {Write1(what.of, v) : v \in value}
        /\ what.is = "repeated" => mid = [k \in DOMAIN value |-> Write1(what.of, value[k])]
    BY <1>2, <2>1
  <2>5. /\ what.is = "message" => mid = {field.bytes}
        /\ what.is = "repeated" => \E k \in DOMAIN mid : field.bytes = mid[k]
    BY <2>2 DEF ComesFrom
  <2> HIDE DEF field, what, value, mid, tag
  <2>6. \E v : FitsAll(what.of, v, B) /\ field.bytes = Write1(what.of, v)
    <3>1. CASE what.is = "message"
      <4>1. value # {}
        BY <2>4, <2>5, <3>1
      <4>2. PICK v : value = {v} /\ FitsAll(what.of, v, B)
        BY <2>3, <3>1, <4>1
      <4>3. mid = {Write1(what.of, v)}
        BY <2>4, <3>1, <4>2
      <4>4. field.bytes = Write1(what.of, v)
        BY <2>5, <3>1, <4>3
      <4> QED
        BY <4>2, <4>4
    <3>2. CASE what.is = "repeated"
      <4>1. PICK k \in DOMAIN mid : field.bytes = mid[k]
        BY <2>5, <3>2
      <4>2. k \in DOMAIN value /\ mid[k] = Write1(what.of, value[k])
        BY <2>4, <3>2
      <4>3. FitsAll(what.of, value[k], B)
        BY <2>3, <3>2, <4>2
      <4> QED
        BY <4>1, <4>2, <4>3
    <3> QED
      BY <2>1, <3>1, <3>2 DEF IsNested
  <2>7. PICK v : FitsAll(what.of, v, B) /\ field.bytes = Write1(what.of, v)
    BY <2>6
  <2>8. Write1(what.of, v) \in Seq(FieldOf(B))
    BY <2>7, Written
  <2>9. Write1(what.of, v) \notin Atom
    BY <2>8
  <2>10. Decodable1(what.of, Write1(what.of, v), TRUE)
    BY <2>7, <2>9, Decodes1
  <2> QED
    BY <2>7, <2>10 DEF field, what, tag
<1>8. Decodable2(schema, w, TRUE)
  BY <1>6, <1>7 DEF Decodable2
<1> QED
  BY <1>1, <1>4, <1>8

-----------------------------------------------------------------------------
(* Fewer levels are also more levels, and all of them can be contents.     *)
LEMMA Levels ==
  /\ Contents(Message0) /\ Contents(Message1) /\ Contents(Message2) /\ Contents(Message3)
  /\ Contents(Message4)
  /\ Message0 \subseteq Message1 /\ Message1 \subseteq Message2 /\ Message2 \subseteq Message3
  /\ Message3 \subseteq Message4 /\ Message4 \subseteq Message5
<1>1. \A C, D : C \subseteq D => Seq(FieldOf(C)) \subseteq Seq(FieldOf(D))
  <2> TAKE C, D
  <2> HAVE C \subseteq D
  <2>1. FieldOf(C) \subseteq FieldOf(D)
    BY DEF FieldOf
  <2> DEFINE F == FieldOf(C)
             G == FieldOf(D)
  <2>2. F \subseteq G
    BY <2>1
  <2> HIDE DEF F, G
  <2>3. Seq(F) \subseteq Seq(G)
    BY <2>2
  <2> QED
    BY <2>3 DEF F, G
<1>2. \A S : <<>> \in Seq(S) /\ \A b \in Seq(S) : Listed(b)
  BY SequencesAreLists
<1>3. Message0 \subseteq Message1
  BY <1>2 DEF Message0, Message1
<1>4. Message1 \subseteq Message2
  BY <1>1, <1>3 DEF Message1, Message2
<1>5. Message2 \subseteq Message3
  BY <1>1, <1>4 DEF Message2, Message3
<1>6. Message3 \subseteq Message4
  BY <1>1, <1>5 DEF Message3, Message4
<1>7. Message4 \subseteq Message5
  BY <1>1, <1>6 DEF Message4, Message5
<1>8. Contents(Message0)
  BY EmptyList DEF Contents, Message0
<1>9. Contents(Message1)
  BY <1>2 DEF Contents, Message1
<1>10. Contents(Message2)
  BY <1>2 DEF Contents, Message2
<1>11. Contents(Message3)
  BY <1>2 DEF Contents, Message3
<1>12. Contents(Message4)
  BY <1>2 DEF Contents, Message4
<1> QED
  BY <1>3, <1>4, <1>5, <1>6, <1>7, <1>8, <1>9, <1>10, <1>11, <1>12

(* No message is an atom.                                                  *)
LEMMA NoAtoms ==
  \A atom \in Atom : /\ atom \notin Message0 /\ atom \notin Message1 /\ atom \notin Message2
                     /\ atom \notin Message3 /\ atom \notin Message4 /\ atom \notin Message5
BY AtomAssumption, Levels DEF AtomAssumption

(* The schemas.                                                            *)
LEMMA Schemas ==
  /\ IsSchema(AnchorSchema) /\ DOMAIN AnchorSchema = 1..2
  /\ AnchorSchema[1].is = "bytes" /\ AnchorSchema[2].is = "uint32"
  /\ IsSchema(ActionSchema) /\ DOMAIN ActionSchema = 1..7
  /\ \A tag \in 1..7 : ActionSchema[tag].is = "bytes"
  /\ IsSchema(TimestampSchema) /\ DOMAIN TimestampSchema = 1..2
  /\ TimestampSchema[1].is = "uint64" /\ TimestampSchema[2].is = "uint32"
  /\ IsSchema(OutputOpeningMessage) /\ DOMAIN OutputOpeningMessage = 1..9
  /\ \A tag \in {1, 5, 6, 7, 8, 9} : OutputOpeningMessage[tag].is = "bytes"
  /\ \A tag \in {2, 4} : OutputOpeningMessage[tag].is = "uint64"
  /\ OutputOpeningMessage[3].is = "uint32"
<1>1. IsSchema(AnchorSchema) /\ DOMAIN AnchorSchema = 1..2
  <2>1. DOMAIN AnchorSchema = 1..2
    BY DEF AnchorSchema
  <2> QED
    BY <2>1 DEF IsSchema
<1>2. AnchorSchema[1].is = "bytes" /\ AnchorSchema[2].is = "uint32"
  BY DEF AnchorSchema, Is
<1>3. IsSchema(ActionSchema) /\ DOMAIN ActionSchema = 1..7
  <2>1. DOMAIN ActionSchema = 1..7
    BY DEF ActionSchema
  <2> QED
    BY <2>1 DEF IsSchema
<1>4. \A tag \in 1..7 : ActionSchema[tag].is = "bytes"
  BY DEF ActionSchema, Is
<1>5. IsSchema(TimestampSchema) /\ DOMAIN TimestampSchema = 1..2
  <2>1. DOMAIN TimestampSchema = 1..2
    BY DEF TimestampSchema
  <2> QED
    BY <2>1 DEF IsSchema
<1>6. TimestampSchema[1].is = "uint64" /\ TimestampSchema[2].is = "uint32"
  BY DEF TimestampSchema, Is
<1>7. IsSchema(OutputOpeningMessage) /\ DOMAIN OutputOpeningMessage = 1..9
  <2>1. DOMAIN OutputOpeningMessage = 1..9
    BY DEF OutputOpeningMessage
  <2> QED
    BY <2>1 DEF IsSchema
<1>8. \A tag \in {1, 5, 6, 7, 8, 9} : OutputOpeningMessage[tag].is = "bytes"
  BY DEF OutputOpeningMessage, Is
<1>9. (\A tag \in {2, 4} : OutputOpeningMessage[tag].is = "uint64") /\ OutputOpeningMessage[3].is = "uint32"
  BY DEF OutputOpeningMessage, Is
<1> QED
  BY <1>1, <1>2, <1>3, <1>4, <1>5, <1>6, <1>7, <1>8, <1>9

(* Those with messages inside.                                             *)
LEMMA OuterSchemas ==
  /\ IsSchema(ShieldedBundle) /\ DOMAIN ShieldedBundle = 1..4
  /\ ShieldedBundle[1].is = "message" /\ ShieldedBundle[1].of = AnchorSchema
  /\ ShieldedBundle[2].is = "repeated" /\ ShieldedBundle[2].of = ActionSchema
  /\ ShieldedBundle[3].is = "bytes" /\ ShieldedBundle[4].is = "uint32"
  /\ IsSchema(ShieldedAuthorization) /\ DOMAIN ShieldedAuthorization = 1..3
  /\ ShieldedAuthorization[1].is = "bytes" /\ ShieldedAuthorization[2].is = "repeated bytes"
  /\ ShieldedAuthorization[3].is = "bytes"
  /\ IsSchema(LocalTransferBody) /\ DOMAIN LocalTransferBody = {2, 3, 6}
  /\ LocalTransferBody[2].is = "message" /\ LocalTransferBody[2].of = TimestampSchema
  /\ LocalTransferBody[3].is = "uint32" /\ LocalTransferBody[6].is = "bytes"
  /\ IsSchema(SigningRequestMessage) /\ DOMAIN SigningRequestMessage = 1..3
  /\ SigningRequestMessage[1].is = "bytes" /\ SigningRequestMessage[2].is = "repeated"
  /\ SigningRequestMessage[2].of = OutputOpeningMessage
  /\ SigningRequestMessage[3].is = "repeated bytes"
<1>1. IsSchema(ShieldedBundle) /\ DOMAIN ShieldedBundle = 1..4
  <2>1. DOMAIN ShieldedBundle = 1..4
    BY DEF ShieldedBundle
  <2> QED
    BY <2>1 DEF IsSchema
<1>2. /\ ShieldedBundle[1].is = "message" /\ ShieldedBundle[1].of = AnchorSchema
      /\ ShieldedBundle[2].is = "repeated" /\ ShieldedBundle[2].of = ActionSchema
      /\ ShieldedBundle[3].is = "bytes" /\ ShieldedBundle[4].is = "uint32"
  BY DEF ShieldedBundle, Is, MessageOf, RepeatedOf
<1>3. IsSchema(ShieldedAuthorization) /\ DOMAIN ShieldedAuthorization = 1..3
  <2>1. DOMAIN ShieldedAuthorization = 1..3
    BY DEF ShieldedAuthorization
  <2> QED
    BY <2>1 DEF IsSchema
<1>4. /\ ShieldedAuthorization[1].is = "bytes" /\ ShieldedAuthorization[2].is = "repeated bytes"
      /\ ShieldedAuthorization[3].is = "bytes"
  BY DEF ShieldedAuthorization, Is
<1>5. IsSchema(LocalTransferBody) /\ DOMAIN LocalTransferBody = {2, 3, 6}
  <2>1. DOMAIN LocalTransferBody = {2, 3, 6}
    BY DEF LocalTransferBody
  <2>2. {2, 3, 6} \subseteq 1..6 /\ 6 \in Nat \ {0}
    OBVIOUS
  <2> QED
    BY <2>1, <2>2 DEF IsSchema
<1>6. /\ LocalTransferBody[2].is = "message" /\ LocalTransferBody[2].of = TimestampSchema
      /\ LocalTransferBody[3].is = "uint32" /\ LocalTransferBody[6].is = "bytes"
  BY DEF LocalTransferBody, Is, MessageOf
<1>7. IsSchema(SigningRequestMessage) /\ DOMAIN SigningRequestMessage = 1..3
  <2>1. DOMAIN SigningRequestMessage = 1..3
    BY DEF SigningRequestMessage
  <2> QED
    BY <2>1 DEF IsSchema
<1>8. /\ SigningRequestMessage[1].is = "bytes" /\ SigningRequestMessage[2].is = "repeated"
      /\ SigningRequestMessage[2].of = OutputOpeningMessage
      /\ SigningRequestMessage[3].is = "repeated bytes"
  BY DEF SigningRequestMessage, Is, RepeatedOf
<1> QED
  BY <1>1, <1>2, <1>3, <1>4, <1>5, <1>6, <1>7, <1>8

(* What is in an atom of a bundle.                                         *)
LEMMA SentIsTyped ==
  ASSUME NEW s \in Sent
  PROVE  /\ s.bundle \in SentBundle /\ s.created_at \in Nat /\ s.version_number \in Nat
         /\ s.created_at < WORD64
         /\ s.version_number < WORD32 /\ WORD32 \in Nat /\ WORD32 > 1 /\ CIRCUIT_VERSION \in Nat
         /\ CIRCUIT_VERSION < WORD32
         /\ s.outputs \in Seq(SentOpening)
         /\ s.alphas \in Seq({{}} \cup {{alpha} : alpha \in Scalar})
<1>1. s \in [bundle : SentBundle, created_at : 0..(WORD64 - 1),
             version_number : 0..(WORD32 - 1), outputs : Seq(SentOpening), alphas : Seq({{}} \cup {{alpha} : alpha \in Scalar})]
  BY SentAssumption DEF SentAssumption
<1>2. WORD32 \in Nat /\ CIRCUIT_VERSION \in 0..(WORD32 - 1) /\ WORD32 > 1
  BY WireAssumption, RequestAssumption DEF WireAssumption, RequestAssumption
<1>3. s.version_number \in 0..(WORD32 - 1)
  BY <1>1
<1>4. s.created_at \in 0..(WORD64 - 1)
  BY <1>1
<1> QED
  BY <1>1, <1>2, <1>3, <1>4, WordsFit

(* Parts of what is sent are atoms.                                        *)
LEMMA SentAtoms ==
  /\ \A a \in SentAction : /\ a.cv_net \in Atom /\ a.nullifier \in Atom /\ a.rk \in Atom
                           /\ a.cm \in Atom /\ a.epk \in Atom /\ a.enc \in Atom /\ a.out \in Atom
  /\ Element \subseteq Atom /\ \A n : AtomOf(n) \subseteq Atom
<1>1. \A n : AtomOf(n) \subseteq Atom
  BY DEF AtomOf
<1>2. Element \subseteq Atom /\ Point \subseteq Atom
  BY <1>1, WireAssumption DEF WireAssumption
<1> QED
  BY <1>1, <1>2 DEF SentAction

(* A bundle is sent as a message of two levels.                            *)
LEMMA ShieldedFits ==
  ASSUME NEW b \in SentBundle, WORD32 \in Nat, CIRCUIT_VERSION \in Nat, CIRCUIT_VERSION < WORD32
  PROVE  FitsInside(ShieldedBundle, shielded_to_wire(b.anchor, b.actions), Message0, Message1)
<1> DEFINE message == shielded_to_wire(b.anchor, b.actions)
           n == BUNDLE_ACTIONS
<1>1. b.anchor \in Atom /\ b.actions \in [1..n -> SentAction] /\ n \in Nat
  BY SentAtoms, SentAssumption DEF SentBundle, SentAssumption
<1> HIDE DEF n
<1>2. DOMAIN message = 1..4 /\ message = [tag \in 1..4 |-> message[tag]]
  BY DEF shielded_to_wire
<1>3. FitsAll(AnchorSchema, <<b.anchor, 0>>, Message0)
  <2> DEFINE v == <<b.anchor, 0>>
  <2>1. DOMAIN v = 1..2 /\ v = [tag \in 1..2 |-> v[tag]] /\ v[1] \in Atom /\ v[2] = 0
    BY <1>1
  <2> HIDE DEF v
  <2>2. Fits(AnchorSchema[1], v[1], Message0)
    BY <2>1, Schemas DEF Fits
  <2>3. Fits(AnchorSchema[2], v[2], Message0)
    <3>1. 0 \in Nat /\ 0 < WORD32
      OBVIOUS
    <3> QED
      BY <2>1, <3>1, Schemas DEF Fits
  <2>4. \A tag \in 1..2 : Fits(AnchorSchema[tag], v[tag], Message0)
    BY <2>2, <2>3
  <2>5. FitsAll(AnchorSchema, v, Message0)
    BY <2>1, <2>4, Schemas DEF FitsAll
  <2> QED
    BY <2>5 DEF v
<1>4. /\ DOMAIN message[2] = 1..n /\ Listed(message[2])
      /\ \A i \in 1..n : FitsAll(ActionSchema, message[2][i], Message0)
  <2> DEFINE wired == message[2]
  <2>1. /\ DOMAIN wired = 1..n /\ wired = [i \in 1..n |-> wired[i]]
        /\ \A i \in 1..n : wired[i] = <<b.actions[i].cv_net, b.actions[i].nullifier, b.actions[i].rk,
                                        b.actions[i].cm, b.actions[i].epk, b.actions[i].enc,
                                        b.actions[i].out>>
    BY <1>1 DEF shielded_to_wire
  <2> HIDE DEF wired
  <2>2. Listed(wired)
    BY <1>1, <2>1, Lists
  <2>3. ASSUME NEW i \in 1..n
        PROVE  FitsAll(ActionSchema, wired[i], Message0)
    <3> DEFINE v == wired[i]
               a == b.actions[i]
    <3>1. a \in SentAction /\ v = <<a.cv_net, a.nullifier, a.rk, a.cm, a.epk, a.enc, a.out>>
      BY <1>1, <2>1
    <3> HIDE DEF v, a
    <3>2. DOMAIN v = 1..7 /\ v = [tag \in 1..7 |-> v[tag]] /\ \A tag \in 1..7 : v[tag] \in Atom
      BY <3>1, SentAtoms
    <3>3. \A tag \in 1..7 : Fits(ActionSchema[tag], v[tag], Message0)
      BY <3>2, Schemas DEF Fits
    <3>4. FitsAll(ActionSchema, v, Message0)
      BY <3>2, <3>3, Schemas DEF FitsAll
    <3> QED
      BY <3>4 DEF v
  <2> QED
    BY <2>1, <2>2, <2>3 DEF wired
<1>5. message[1] = {<<b.anchor, 0>>} /\ message[3] = <<>> /\ message[4] = CIRCUIT_VERSION
  BY DEF shielded_to_wire
<1> HIDE DEF message
<1>6. Fits(ShieldedBundle[3], message[3], Message1)
  BY <1>5, OuterSchemas, Levels DEF Fits, Contents
<1>7. Fits(ShieldedBundle[4], message[4], Message1)
  BY <1>5, OuterSchemas DEF Fits
<1> DEFINE TagFits(tag) ==
       CASE ShieldedBundle[tag].is = "message" ->
              \/ message[tag] = {}
              \/ \E v : message[tag] = {v} /\ FitsAll(ShieldedBundle[tag].of, v, Message0)
         [] ShieldedBundle[tag].is = "repeated" ->
              /\ Listed(message[tag])
              /\ \A i \in DOMAIN message[tag] :
                   FitsAll(ShieldedBundle[tag].of, message[tag][i], Message0)
         [] OTHER -> Fits(ShieldedBundle[tag], message[tag], Message1)
<1>8. TagFits(1)
  BY <1>3, <1>5, OuterSchemas
<1>9. TagFits(2)
  BY <1>4, OuterSchemas
<1>10. TagFits(3)
  BY <1>6, OuterSchemas
<1>11. TagFits(4)
  BY <1>7, OuterSchemas
<1>12. \A tag \in 1..4 : TagFits(tag)
  <2> HIDE DEF TagFits
  <2> QED
    BY <1>8, <1>9, <1>10, <1>11
<1>13. Seq(FieldOf(Message0)) \subseteq Message1
  BY DEF Message1
<1>14. \A tag \in DOMAIN ShieldedBundle : TagFits(tag)
  <2> HIDE DEF TagFits
  <2> QED
    BY <1>12, OuterSchemas
<1>15. FitsInside(ShieldedBundle, message, Message0, Message1)
  <2>1. IsSchema(ShieldedBundle) /\ message = [tag \in DOMAIN ShieldedBundle |-> message[tag]]
    BY <1>2, OuterSchemas
  <2> QED
    BY <1>13, <1>14, <2>1, Zenon DEF FitsInside
<1> QED
  BY <1>15 DEF message

(* An authorisation is a message of atoms.                                 *)
LEMMA AuthorizationFits ==
  ASSUME NEW b \in SentBundle, NEW message,
         message = <<b.proof, b.spend_auth_sigs, b.binding_sig>>
  PROVE  FitsInside(ShieldedAuthorization, message, Message0, Message1)
<1> DEFINE n == BUNDLE_ACTIONS
<1>1. b.proof \in Atom /\ b.spend_auth_sigs \in [1..n -> Atom] /\ b.binding_sig \in Atom /\ n \in Nat
  BY SentAtoms, SentAssumption DEF SentBundle, SentAssumption
<1> HIDE DEF n
<1>2. DOMAIN message = 1..3 /\ message = [tag \in 1..3 |-> message[tag]]
  OBVIOUS
<1>3. message[1] \in Atom /\ message[2] \in [1..n -> Atom] /\ message[3] \in Atom
  BY <1>1
<1>4. message[2] \in Seq(Atom \cup Message1)
  BY <1>1, <1>3
<1>5. /\ Fits(ShieldedAuthorization[1], message[1], Message1)
      /\ Fits(ShieldedAuthorization[3], message[3], Message1)
  BY <1>3, OuterSchemas DEF Fits
<1>6. Fits(ShieldedAuthorization[2], message[2], Message1)
  BY <1>4, OuterSchemas DEF Fits
<1>7. \A tag \in 1..3 : Fits(ShieldedAuthorization[tag], message[tag], Message1)
  BY <1>5, <1>6
<1>8. \A tag \in 1..3 : ShieldedAuthorization[tag].is \notin {"message", "repeated"}
  <2>1. /\ ShieldedAuthorization[1].is = "bytes" /\ ShieldedAuthorization[3].is = "bytes"
        /\ ShieldedAuthorization[2].is = "repeated bytes"
    BY OuterSchemas
  <2>2. \A tag \in 1..3 : tag = 1 \/ tag = 2 \/ tag = 3
    OBVIOUS
  <2> QED
    BY <2>1, <2>2
<1>9. Seq(FieldOf(Message0)) \subseteq Message1
  BY DEF Message1
<1> QED
  BY <1>2, <1>7, <1>8, <1>9, OuterSchemas DEF FitsInside

-----------------------------------------------------------------------------
(* So is the body that is sent, around the bytes of the bundle.            *)
LEMMA BodyFits ==
  ASSUME NEW created_at \in Nat, created_at < WORD64,
         NEW version_number \in Nat, version_number < WORD32,
         NEW shielded \in Message2, NEW message,
         message = [tag \in {2, 3, 6} |-> CASE tag = 2 -> {<<created_at, 0>>}
                                            [] tag = 3 -> version_number
                                            [] tag = 6 -> shielded]
  PROVE  FitsInside(LocalTransferBody, message, Message0, Message2)
<1>1. /\ message = [tag \in {2, 3, 6} |-> message[tag]]
      /\ message[2] = {<<created_at, 0>>} /\ message[3] = version_number /\ message[6] = shielded
  OBVIOUS
<1>2. FitsAll(TimestampSchema, <<created_at, 0>>, Message0)
  <2> DEFINE v == <<created_at, 0>>
  <2>1. /\ DOMAIN v = 1..2 /\ v = [tag \in 1..2 |-> v[tag]]
        /\ v[1] \in Nat /\ v[1] < WORD64 /\ v[2] = 0
    OBVIOUS
  <2> HIDE DEF v
  <2>2. Fits(TimestampSchema[1], v[1], Message0)
    BY <2>1, Schemas DEF Fits
  <2>3. Fits(TimestampSchema[2], v[2], Message0)
    <3>1. 0 \in Nat /\ 0 < WORD32
      BY WireAssumption DEF WireAssumption
    <3> QED
      BY <2>1, <3>1, Schemas DEF Fits
  <2>4. \A tag \in 1..2 : Fits(TimestampSchema[tag], v[tag], Message0)
    BY <2>2, <2>3
  <2>5. FitsAll(TimestampSchema, v, Message0)
    BY <2>1, <2>4, Schemas DEF FitsAll
  <2> QED
    BY <2>5 DEF v
<1>3. Fits(LocalTransferBody[3], message[3], Message2)
  BY <1>1, OuterSchemas DEF Fits
<1>4. Fits(LocalTransferBody[6], message[6], Message2)
  BY <1>1, OuterSchemas DEF Fits
<1> DEFINE TagFits(tag) ==
       CASE LocalTransferBody[tag].is = "message" ->
              \/ message[tag] = {}
              \/ \E v : message[tag] = {v} /\ FitsAll(LocalTransferBody[tag].of, v, Message0)
         [] LocalTransferBody[tag].is = "repeated" ->
              /\ Listed(message[tag])
              /\ \A i \in DOMAIN message[tag] :
                   FitsAll(LocalTransferBody[tag].of, message[tag][i], Message0)
         [] OTHER -> Fits(LocalTransferBody[tag], message[tag], Message2)
<1>5. TagFits(2)
  BY <1>1, <1>2, OuterSchemas
<1>6. TagFits(3)
  BY <1>3, OuterSchemas
<1>7. TagFits(6)
  BY <1>4, OuterSchemas
<1>8. \A tag \in DOMAIN LocalTransferBody : TagFits(tag)
  <2> HIDE DEF TagFits
  <2> QED
    BY <1>5, <1>6, <1>7, OuterSchemas
<1>9. Seq(FieldOf(Message0)) \subseteq Message2
  BY Levels DEF Message1
<1>10. IsSchema(LocalTransferBody) /\ message = [tag \in DOMAIN LocalTransferBody |-> message[tag]]
  BY <1>1, OuterSchemas
<1> QED
  BY <1>8, <1>9, <1>10, Zenon DEF FitsInside

(* The message of a request.                                               *)
RequestMessage(req) ==
  <<req.body,
    [i \in DOMAIN req.outputs |->
       LET o == req.outputs[i]
       IN  <<o.address, o.value, IF o.kind = "Normal" THEN 0 ELSE 1, o.expiry_epoch,
             o.rseed, o.memo_cm, o.free_memo,
             OrEmpty({memo.text : memo \in o.memo}),
             OrEmpty({memo.r_memo : memo \in o.memo})>>],
    [i \in DOMAIN req.alphas |-> OrEmpty(req.alphas[i])]>>

(* What is there of an optional value.                                     *)
LEMMA OrEmptyGives ==
  OrEmpty({}) = <<>> /\ \A e : OrEmpty({e}) = e
<1>1. OrEmpty({}) = <<>>
  BY DEF OrEmpty
<1>2. \A e : OrEmpty({e}) = e
  <2> TAKE e
  <2>1. {e} # {} /\ (CHOOSE bytes \in {e} : TRUE) = e
    OBVIOUS
  <2> QED
    BY <2>1 DEF OrEmpty
<1> QED
  BY <1>1, <1>2

(* A memo is there with both its parts, or neither.                        *)
LEMMA MemoParts ==
  ASSUME NEW o \in SentOpening
  PROVE  \/ /\ o.memo = {} /\ OrEmpty({memo.text : memo \in o.memo}) = <<>>
            /\ OrEmpty({memo.r_memo : memo \in o.memo}) = <<>>
         \/ \E m \in [text : AtomOf(MEMO_LEN), r_memo : Element] :
              /\ o.memo = {m} /\ OrEmpty({memo.text : memo \in o.memo}) = m.text
              /\ OrEmpty({memo.r_memo : memo \in o.memo}) = m.r_memo
<1> DEFINE memos == o.memo
           Memo == [text : AtomOf(MEMO_LEN), r_memo : Element]
<1>1. memos = {} \/ \E m \in Memo : memos = {m}
  BY DEF SentOpening
<1> HIDE DEF memos, Memo
<1>2. CASE memos = {}
  <2>1. {memo.text : memo \in memos} = {} /\ {memo.r_memo : memo \in memos} = {}
    BY <1>2
  <2> QED
    BY <1>2, <2>1, OrEmptyGives DEF memos
<1>3. CASE \E m \in Memo : memos = {m}
  <2>1. PICK m \in Memo : memos = {m}
    BY <1>3
  <2>2. {memo.text : memo \in memos} = {m.text} /\ {memo.r_memo : memo \in memos} = {m.r_memo}
    BY <2>1
  <2>3. /\ OrEmpty({memo.text : memo \in memos}) = m.text
        /\ OrEmpty({memo.r_memo : memo \in memos}) = m.r_memo
    BY <2>2, OrEmptyGives
  <2> QED
    BY <2>1, <2>3 DEF memos, Memo
<1> QED
  BY <1>1, <1>2, <1>3

(* An opening is sent as a message of atoms and numbers.                   *)
LEMMA OpeningFits ==
  ASSUME NEW o \in SentOpening, NEW v,
         v = <<o.address, o.value, IF o.kind = "Normal" THEN 0 ELSE 1, o.expiry_epoch,
               o.rseed, o.memo_cm, o.free_memo,
               OrEmpty({memo.text : memo \in o.memo}),
               OrEmpty({memo.r_memo : memo \in o.memo})>>
  PROVE  FitsAll(OutputOpeningMessage, v, Message0)
<1>1. /\ o.address \in Atom /\ o.value \in 0..(WORD64 - 1) /\ o.expiry_epoch \in 0..(WORD64 - 1)
      /\ o.rseed \in Atom /\ o.memo_cm \in Atom /\ o.free_memo \in Atom
  BY SentAtoms, RequestAssumption DEF SentOpening, RequestAssumption
<1>2. /\ OrEmpty({memo.text : memo \in o.memo}) \in Atom \cup Message0
      /\ OrEmpty({memo.r_memo : memo \in o.memo}) \in Atom \cup Message0
  <2>1. <<>> \in Message0
    BY DEF Message0
  <2> QED
    BY <2>1, MemoParts, SentAtoms
<1>3. /\ DOMAIN v = 1..9 /\ v = [tag \in 1..9 |-> v[tag]]
      /\ v[1] = o.address /\ v[2] = o.value /\ v[3] \in {0, 1} /\ v[4] = o.expiry_epoch
      /\ v[5] = o.rseed /\ v[6] = o.memo_cm /\ v[7] = o.free_memo
      /\ v[8] = OrEmpty({memo.text : memo \in o.memo})
      /\ v[9] = OrEmpty({memo.r_memo : memo \in o.memo})
  <2> DEFINE k == IF o.kind = "Normal" THEN 0 ELSE 1
             x == OrEmpty({memo.text : memo \in o.memo})
             y == OrEmpty({memo.r_memo : memo \in o.memo})
  <2>1. v = <<o.address, o.value, k, o.expiry_epoch, o.rseed, o.memo_cm, o.free_memo, x, y>>
    OBVIOUS
  <2>2. k \in {0, 1}
    OBVIOUS
  <2> HIDE DEF k, x, y
  <2>3. DOMAIN v = 1..9
    BY <2>1
  <2>4. v = [tag \in 1..9 |-> v[tag]]
    BY <2>1
  <2>5. v[1] = o.address /\ v[2] = o.value /\ v[3] = k /\ v[4] = o.expiry_epoch
    BY <2>1
  <2>6. v[5] = o.rseed /\ v[6] = o.memo_cm /\ v[7] = o.free_memo /\ v[8] = x /\ v[9] = y
    BY <2>1
  <2> QED
    BY <2>2, <2>3, <2>4, <2>5, <2>6 DEF x, y
<1>4. 1 < WORD32 /\ 0 < WORD32
  BY WireAssumption, RequestAssumption DEF WireAssumption, RequestAssumption
<1>5. \A tag \in {1, 5, 6, 7, 8, 9} : v[tag] \in Atom \cup Message0
  <2>1. v[1] \in Atom /\ v[5] \in Atom /\ v[6] \in Atom /\ v[7] \in Atom
    BY <1>1, <1>3
  <2>2. v[8] \in Atom \cup Message0 /\ v[9] \in Atom \cup Message0
    BY <1>2, <1>3
  <2> QED
    BY <2>1, <2>2
<1>6. \A tag \in {1, 5, 6, 7, 8, 9} : Fits(OutputOpeningMessage[tag], v[tag], Message0)
  BY <1>5, Schemas DEF Fits
<1>7. \A tag \in {2, 4} : Fits(OutputOpeningMessage[tag], v[tag], Message0)
  <2>1. v[2] \in 0..(WORD64 - 1) /\ v[4] \in 0..(WORD64 - 1)
    BY <1>1, <1>3
  <2>2. OutputOpeningMessage[2] = Is("uint64") /\ OutputOpeningMessage[4] = Is("uint64")
    BY DEF OutputOpeningMessage
  <2>3. ASSUME NEW n \in 0..(WORD64 - 1) PROVE Fits(Is("uint64"), n, Message0)
    <3>1. n \in Nat /\ n < WORD64
      BY WordsFit
    <3> QED
      BY <3>1 DEF Fits, Is
  <2> QED
    BY <2>1, <2>2, <2>3
<1>8. Fits(OutputOpeningMessage[3], v[3], Message0)
  <2>1. v[3] \in Nat /\ v[3] < WORD32
    BY <1>3, <1>4
  <2> QED
    BY <2>1, Schemas DEF Fits
<1>9. \A tag \in 1..9 : Fits(OutputOpeningMessage[tag], v[tag], Message0)
  BY <1>6, <1>7, <1>8
<1> QED
  BY <1>3, <1>9, Schemas DEF FitsAll

(* A request is sent as a message with openings inside.                    *)
LEMMA RequestFits ==
  ASSUME NEW req, req.body \in Message3, req.outputs \in Seq(SentOpening),
         req.alphas \in Seq({{}} \cup {{alpha} : alpha \in Scalar})
  PROVE  FitsInside(SigningRequestMessage, RequestMessage(req), Message0, Message3)
<1> DEFINE message == RequestMessage(req)
           outputs == req.outputs
           alphas == req.alphas
           m == Len(outputs)
           n == Len(alphas)
           wired == message[2]
           written == message[3]
<1>1. /\ DOMAIN message = 1..3 /\ message = [tag \in 1..3 |-> message[tag]]
      /\ message[1] = req.body
  BY DEF RequestMessage
<1>2. m \in Nat /\ DOMAIN outputs = 1..m /\ \A i \in 1..m : outputs[i] \in SentOpening
  OBVIOUS
<1>3. n \in Nat /\ DOMAIN alphas = 1..n /\ \A i \in 1..n : alphas[i] \in {{}} \cup {{alpha} : alpha \in Scalar}
  OBVIOUS
<1>4. wired = [i \in DOMAIN outputs |->
         LET o == outputs[i]
         IN  <<o.address, o.value, IF o.kind = "Normal" THEN 0 ELSE 1, o.expiry_epoch,
               o.rseed, o.memo_cm, o.free_memo,
               OrEmpty({memo.text : memo \in o.memo}),
               OrEmpty({memo.r_memo : memo \in o.memo})>>]
  BY DEF RequestMessage
<1>5. written = [i \in DOMAIN alphas |-> OrEmpty(alphas[i])]
  BY DEF RequestMessage
<1> HIDE DEF message, outputs, alphas, m, n
<1>6. wired = [i \in 1..m |-> wired[i]] /\ DOMAIN wired = 1..m /\ Listed(wired)
  <2>1. wired = [i \in 1..m |-> wired[i]] /\ DOMAIN wired = 1..m
    BY <1>2, <1>4
  <2> QED
    BY <1>2, <2>1, Lists
<1>7. ASSUME NEW i \in 1..m
      PROVE  FitsAll(OutputOpeningMessage, wired[i], Message0)
  <2> DEFINE o == outputs[i]
             v == wired[i]
  <2>1. o \in SentOpening
    BY <1>2
  <2>2. v = <<o.address, o.value, IF o.kind = "Normal" THEN 0 ELSE 1, o.expiry_epoch,
              o.rseed, o.memo_cm, o.free_memo,
              OrEmpty({memo.text : memo \in o.memo}),
              OrEmpty({memo.r_memo : memo \in o.memo})>>
    BY <1>2, <1>4
  <2> HIDE DEF o, v
  <2>3. FitsAll(OutputOpeningMessage, v, Message0)
    BY <2>1, <2>2, OpeningFits
  <2> QED
    BY <2>3 DEF v
<1>8. written \in Seq(Atom \cup Message3)
  <2>1. \A i \in 1..n : OrEmpty(alphas[i]) \in Atom \cup Message3
    <3> TAKE i \in 1..n
    <3>1. <<>> \in Message3
      BY Levels DEF Contents
    <3>2. CASE alphas[i] = {}
      BY <3>1, <3>2, OrEmptyGives
    <3>3. CASE alphas[i] # {}
      <4>1. PICK alpha \in Scalar : alphas[i] = {alpha}
        BY <1>3, <3>3
      <4> QED
        BY <4>1, OrEmptyGives, RequestAssumption DEF RequestAssumption
    <3> QED
      BY <3>2, <3>3
  <2>2. written = [i \in 1..n |-> OrEmpty(alphas[i])]
    BY <1>3, <1>5
  <2> HIDE DEF written
  <2> QED
    BY <1>3, <2>1, <2>2
<1>9. Fits(SigningRequestMessage[1], message[1], Message3)
  BY <1>1, OuterSchemas DEF Fits
<1>10. Fits(SigningRequestMessage[3], message[3], Message3)
  BY <1>8, OuterSchemas DEF Fits
<1> DEFINE TagFits(tag) ==
       CASE SigningRequestMessage[tag].is = "message" ->
              \/ message[tag] = {}
              \/ \E v : message[tag] = {v} /\ FitsAll(SigningRequestMessage[tag].of, v, Message0)
         [] SigningRequestMessage[tag].is = "repeated" ->
              /\ Listed(message[tag])
              /\ \A i \in DOMAIN message[tag] :
                   FitsAll(SigningRequestMessage[tag].of, message[tag][i], Message0)
         [] OTHER -> Fits(SigningRequestMessage[tag], message[tag], Message3)
<1>11. TagFits(1)
  BY <1>9, OuterSchemas
<1>12. TagFits(2)
  BY <1>6, <1>7, OuterSchemas
<1>13. TagFits(3)
  BY <1>10, OuterSchemas
<1>14. \A tag \in DOMAIN SigningRequestMessage : TagFits(tag)
  <2> HIDE DEF TagFits
  <2>1. \A tag \in 1..3 : TagFits(tag)
    BY <1>11, <1>12, <1>13
  <2> QED
    BY <2>1, OuterSchemas
<1>15. Seq(FieldOf(Message0)) \subseteq Message3
  BY Levels DEF Message1
<1>16. /\ IsSchema(SigningRequestMessage)
       /\ message = [tag \in DOMAIN SigningRequestMessage |-> message[tag]]
  BY <1>1, OuterSchemas
<1>17. FitsInside(SigningRequestMessage, message, Message0, Message3)
  BY <1>14, <1>15, <1>16, Zenon DEF FitsInside
<1> QED
  BY <1>17 DEF message

-----------------------------------------------------------------------------
(* A list of checks gives no error exactly when none of them does.         *)
LEMMA FirstOfOk ==
  ASSUME NEW results, Listed(results)
  PROVE  FirstOf(results) = "Ok" <=> \A i \in 1..Len(results) : results[i] = "Ok"
<1>1. DOMAIN results = 1..Len(results) /\ Len(results) \in Nat
  BY ListedProperties
<1>2. ASSUME \A i \in 1..Len(results) : results[i] = "Ok"
      PROVE  FirstOf(results) = "Ok"
  BY <1>1, <1>2 DEF FirstOf
<1>3. ASSUME ~ \A i \in 1..Len(results) : results[i] = "Ok"
      PROVE  FirstOf(results) # "Ok"
  <2> DEFINE T == {i \in 1..Len(results) : results[i] # "Ok"}
             First(i) == results[i] # "Ok" /\ \A j \in 1..(i - 1) : results[j] = "Ok"
  <2>1. T \in SUBSET Nat /\ T # {}
    BY <1>1, <1>3
  <2>2. PICK i \in T : \A j \in T : i <= j
    BY <2>1, Least
  <2>3. i \in DOMAIN results /\ First(i)
    <3>1. \A j \in 1..(i - 1) : j \in 1..Len(results) /\ j \notin T
      BY <1>1, <2>2
    <3> QED
      BY <1>1, <2>2, <3>1
  <2> DEFINE k == CHOOSE j \in DOMAIN results : First(j)
  <2>4. First(k)
    <3> HIDE DEF First
    <3> QED
      BY <2>3
  <2>5. FirstOf(results) = results[k]
    BY <1>1, <1>3, Zenon DEF FirstOf
  <2> QED
    BY <2>4, <2>5
<1> QED
  BY <1>2, <1>3

(* A tuple of checks.                                                      *)
LEMMA TwoChecks ==
  \A a, b : FirstOf(<<a, b>>) = "Ok" <=> a = "Ok" /\ b = "Ok"
<1> TAKE a, b
<1> DEFINE r == <<a, b>>
<1>1. DOMAIN r = 1..2 /\ r = [i \in 1..2 |-> r[i]] /\ r[1] = a /\ r[2] = b
  OBVIOUS
<1> HIDE DEF r
<1>2. Listed(r) /\ Len(r) = 2
  BY <1>1, Lists
<1>3. FirstOf(r) = "Ok" <=> \A i \in 1..2 : r[i] = "Ok"
  BY <1>2, FirstOfOk
<1>4. FirstOf(r) = "Ok" <=> a = "Ok" /\ b = "Ok"
  BY <1>1, <1>3
<1> QED
  BY <1>4 DEF r

(* Checks of all the parts of a list, after or before others.              *)
LEMMA ChecksJoined ==
  ASSUME NEW a, NEW b, Listed(a), Listed(b),
         \A i \in 1..Len(a) : a[i] = "Ok", \A i \in 1..Len(b) : b[i] = "Ok"
  PROVE  Listed(a \o b) /\ \A i \in 1..Len(a \o b) : (a \o b)[i] = "Ok"
<1> DEFINE c == a \o b
<1>1. /\ Listed(c) /\ Len(c) = Len(a) + Len(b)
      /\ \A i \in 1..Len(a) : c[i] = a[i]
      /\ \A i \in 1..Len(b) : c[Len(a) + i] = b[i]
  BY Joining
<1> HIDE DEF c
<1> DEFINE m == Len(a)
           n == Len(b)
<1>2. /\ m \in Nat /\ n \in Nat /\ Len(c) = m + n
      /\ \A i \in 1..m : c[i] = "Ok"
      /\ \A i \in 1..n : c[m + i] = "Ok"
  BY <1>1, ListedProperties
<1> HIDE DEF m, n
<1>3. ASSUME NEW i \in 1..Len(c) PROVE c[i] = "Ok"
  <2>1. CASE i <= m
    BY <1>2, <2>1
  <2>2. CASE ~(i <= m)
    <3> DEFINE j == i - m
    <3>1. j \in 1..n /\ i = m + j
      BY <1>2, <2>2
    <3> HIDE DEF j
    <3> QED
      BY <1>2, <3>1
  <2> QED
    BY <2>1, <2>2
<1> QED
  BY <1>1, <1>3 DEF c

(* Atoms have the length they have.                                        *)
LEMMA AtomLengths ==
  /\ \A n : \A a \in AtomOf(n) : exactly(n, a) = "Ok" /\ LengthOf(a) = n
  /\ \A a \in Element : base(a) = "Ok" /\ IsField(a) /\ a \in AtomOf(32)
  /\ \A a \in Point : point(a) = "Ok"
<1>1. \A a \in Atom : LengthOf(a) = Length(a)
  BY Zenon DEF LengthOf
<1>2. \A n : \A a \in AtomOf(n) : LengthOf(a) = n
  BY <1>1 DEF AtomOf
<1>3. \A n : \A a \in AtomOf(n) : exactly(n, a) = "Ok"
  BY <1>2, Zenon DEF exactly
<1>4. \A a \in Element \cup Point : LengthOf(a) = 32 /\ a \in AtomOf(32)
  BY <1>2, WireAssumption DEF WireAssumption
<1> QED
  BY <1>2, <1>3, <1>4 DEF base, point, IsField

(* Canonical bytes of a message that fits have no error.                   *)
LEMMA WrittenIsCanonical ==
  ASSUME NEW schema, NEW message, NEW limit \in Nat,
         FitsInside(schema, message, Message0, Message1)
           \/ FitsInside(schema, message, Message0, Message3),
         LengthOf(EncodeMessage(schema, message)) \in 0..limit
  PROVE  /\ MessageError(schema, EncodeMessage(schema, message), limit) = "Ok"
         /\ DecodeMessage(schema, EncodeMessage(schema, message)) = message
         /\ EncodeMessage(schema, message) \notin Atom
<1> DEFINE e == EncodeMessage(schema, message)
<1>1. PICK C \in {Message1, Message3} : FitsInside(schema, message, Message0, C)
  OBVIOUS
<1>2. WORD32 \in Nat /\ Contents(Message0) /\ Contents(C)
  BY <1>1, Levels, WireAssumption DEF WireAssumption
<1>3. \A atom \in Atom : atom \notin Seq(FieldOf(C)) /\ atom \notin Seq(FieldOf(Message0))
  BY <1>1, NoAtoms DEF Message1, Message2, Message4
<1>4. e \in Seq(FieldOf(C)) /\ Decodable2(schema, e, TRUE)
  BY <1>1, <1>2, <1>3, Decodes2
<1>5. DecodeMessage(schema, e) = message
  BY <1>1, <1>2, RoundTrip2 DEF DecodeMessage
<1>6. ~(LengthOf(e) > limit)
  OBVIOUS
<1> HIDE DEF e
<1>7. EncodeMessage(schema, DecodeMessage(schema, e)) = e
  BY <1>5 DEF e
<1>8. MessageError(schema, e, limit) = "Ok"
  BY <1>4, <1>6, <1>7, Zenon DEF MessageError
<1>9. e \notin Atom
  BY <1>3, <1>4
<1> QED
  BY <1>5, <1>8, <1>9 DEF e

-----------------------------------------------------------------------------
(* The bundle that is sent, as its bytes are read.                         *)
LEMMA SentShielded ==
  ASSUME NEW s \in Sent, NEW e, e = encode_shielded(s.bundle.anchor, s.bundle.actions)
  PROVE  /\ e \in Message2 /\ e \notin Atom
         /\ MessageError(ShieldedBundle, e, MAX_SHIELDED_BUNDLE_SIZE) = "Ok"
         /\ shielded_error(DecodeMessage(ShieldedBundle, e)) = "Ok"
         /\ decode_shielded(e) = [anchor |-> s.bundle.anchor, actions |-> s.bundle.actions]
<1> DEFINE b == s.bundle
           message == shielded_to_wire(b.anchor, b.actions)
           n == BUNDLE_ACTIONS
<1>1. /\ b \in SentBundle /\ WORD32 \in Nat /\ CIRCUIT_VERSION \in Nat /\ CIRCUIT_VERSION < WORD32
      /\ MAX_SHIELDED_BUNDLE_SIZE \in Nat /\ n \in Nat
      /\ LengthOf(e) \in 0..MAX_SHIELDED_BUNDLE_SIZE
  BY SentIsTyped, SentAssumption DEF SentAssumption
<1>2. e = EncodeMessage(ShieldedBundle, message)
  BY DEF encode_shielded
<1> HIDE DEF b, n
<1>3. FitsInside(ShieldedBundle, message, Message0, Message1)
  BY <1>1, ShieldedFits
<1>4. b.anchor \in Element /\ b.actions \in [1..n -> SentAction]
  BY <1>1 DEF SentBundle, n
<1>5. /\ message[1] = {<<b.anchor, 0>>} /\ message[3] = <<>> /\ message[4] = CIRCUIT_VERSION
      /\ message[2] = [i \in DOMAIN b.actions |->
           LET a == b.actions[i]
           IN  <<a.cv_net, a.nullifier, a.rk, a.cm, a.epk, a.enc, a.out>>]
  BY DEF shielded_to_wire
<1> HIDE DEF message
<1>6. e \in Message2
  <2>1. /\ Contents(Message0) /\ Contents(Message1)
        /\ \A atom \in Atom : atom \notin Seq(FieldOf(Message1)) /\ atom \notin Seq(FieldOf(Message0))
    BY Levels, NoAtoms DEF Message1, Message2
  <2> QED
    BY <1>1, <1>2, <1>3, <2>1, Decodes2 DEF Message2
<1>7. /\ MessageError(ShieldedBundle, e, MAX_SHIELDED_BUNDLE_SIZE) = "Ok"
      /\ DecodeMessage(ShieldedBundle, e) = message /\ e \notin Atom
  BY <1>1, <1>2, <1>3, WrittenIsCanonical
<1> DEFINE wired == message[2]
           written == message[1]
<1>8. /\ DOMAIN wired = 1..n /\ wired = [i \in 1..n |-> wired[i]]
      /\ Listed(wired) /\ Len(wired) = n
  <2>1. DOMAIN wired = 1..n /\ wired = [i \in 1..n |-> wired[i]]
    BY <1>4, <1>5
  <2> HIDE DEF wired
  <2> QED
    BY <1>1, <2>1, Lists
<1>9. \A i \in 1..n : wired[i] =
        <<b.actions[i].cv_net, b.actions[i].nullifier, b.actions[i].rk, b.actions[i].cm,
          b.actions[i].epk, b.actions[i].enc, b.actions[i].out>>
  BY <1>4, <1>5
<1>10. /\ (CHOOSE anchor \in written : TRUE) = <<b.anchor, 0>>
       /\ AnchorOf(written) = b.anchor /\ AnchorError(written) = "Ok"
  <2>1. written = {<<b.anchor, 0>>}
    BY <1>5
  <2> HIDE DEF written
  <2>2. (CHOOSE anchor \in written : TRUE) = <<b.anchor, 0>>
    BY <2>1
  <2>3. AnchorOf(written) = b.anchor
    <3>1. <<b.anchor, 0>>[1] = b.anchor
      OBVIOUS
    <3> QED
      BY <2>2, <3>1, Zenon DEF AnchorOf
  <2>4. written # {} /\ ~(\E anchor \in written : anchor[2] # 0)
    BY <2>1
  <2> QED
    BY <2>2, <2>3, <2>4, Zenon DEF AnchorError
<1> HIDE DEF wired, written
<1>11. ASSUME NEW i \in 1..n
       PROVE  ActionError(wired[i]) = "Ok"
  <2> DEFINE a == b.actions[i]
             v == wired[i]
  <2>1. /\ a \in SentAction
        /\ v = <<a.cv_net, a.nullifier, a.rk, a.cm, a.epk, a.enc, a.out>>
    BY <1>4, <1>9
  <2> HIDE DEF a, v
  <2>2. /\ v[1] = a.cv_net /\ v[2] = a.nullifier /\ v[3] = a.rk /\ v[4] = a.cm
        /\ v[5] = a.epk /\ v[6] = a.enc /\ v[7] = a.out
    BY <2>1
  <2>3. /\ v[1] \in Point /\ v[2] \in Element /\ v[3] \in Point /\ v[4] \in Element
        /\ v[5] \in AtomOf(32) /\ v[6] \in AtomOf(ENC_CIPHERTEXT_SIZE)
        /\ v[7] \in AtomOf(OUT_CIPHERTEXT_SIZE)
    BY <2>1, <2>2 DEF SentAction
  <2> DEFINE r == <<exactly(ENC_CIPHERTEXT_SIZE, v[6]), exactly(OUT_CIPHERTEXT_SIZE, v[7]),
                    base(v[4]), point(v[1]), base(v[2]), point(v[3]), exactly(32, v[5])>>
  <2>4. r = <<"Ok", "Ok", "Ok", "Ok", "Ok", "Ok", "Ok">>
    BY <2>3, AtomLengths
  <2>5. ActionError(v) = FirstOf(r)
    BY DEF ActionError
  <2> HIDE DEF r
  <2>6. DOMAIN r = 1..7 /\ r = [j \in 1..7 |-> r[j]] /\ \A j \in 1..7 : r[j] = "Ok"
    BY <2>4
  <2>7. Listed(r) /\ Len(r) = 7
    BY <2>6, Lists
  <2>8. FirstOf(r) = "Ok"
    BY <2>6, <2>7, FirstOfOk
  <2> QED
    BY <2>5, <2>8 DEF v
<1>12. shielded_error(message) = "Ok"
  <2> DEFINE errors == [i \in DOMAIN wired |-> ActionError(wired[i])]
             root == <<base(AnchorOf(written))>>
  <2>1. Listed(errors) /\ \A i \in 1..Len(errors) : errors[i] = "Ok"
    <3>1. DOMAIN errors = 1..n /\ errors = [i \in 1..n |-> errors[i]] /\ \A i \in 1..n : errors[i] = "Ok"
      BY <1>8, <1>11
    <3> HIDE DEF errors
    <3>2. Listed(errors) /\ Len(errors) = n
      BY <1>1, <3>1, Lists
    <3> QED
      BY <3>1, <3>2
  <2>2. Listed(root) /\ \A i \in 1..Len(root) : root[i] = "Ok"
    <3>1. base(AnchorOf(written)) = "Ok"
      BY <1>4, <1>10, AtomLengths
    <3>2. Listed(root) /\ Len(root) = 1 /\ root[1] = "Ok"
      BY <3>1, OneElement
    <3> QED
      BY <3>2
  <2> HIDE DEF errors, root
  <2>3. Listed(errors \o root) /\ \A i \in 1..Len(errors \o root) : (errors \o root)[i] = "Ok"
    BY <2>1, <2>2, ChecksJoined
  <2> DEFINE all == errors \o root
  <2>4. FirstOf(all) = "Ok"
    <3>1. Listed(all) /\ \A i \in 1..Len(all) : all[i] = "Ok"
      BY <2>3
    <3> HIDE DEF all
    <3> QED
      BY <3>1, FirstOfOk
  <2>5. FirstOf([i \in DOMAIN message[2] |-> ActionError(message[2][i])]
                \o <<base(AnchorOf(message[1]))>>) = "Ok"
    BY <2>4 DEF errors, root, wired, written
  <2>6. /\ message[4] = CIRCUIT_VERSION /\ message[3] = <<>> /\ Len(message[2]) = BUNDLE_ACTIONS
        /\ AnchorError(message[1]) = "Ok"
    BY <1>5, <1>8, <1>10 DEF wired, written, n
  <2> QED
    BY <2>5, <2>6, Zenon DEF shielded_error
<1>13. decode_shielded(e) = [anchor |-> b.anchor, actions |-> b.actions]
  <2> DEFINE back == [i \in DOMAIN wired |->
               [cv_net |-> wired[i][1], nullifier |-> wired[i][2], rk |-> wired[i][3],
                cm |-> wired[i][4], epk |-> wired[i][5], enc |-> wired[i][6], out |-> wired[i][7]]]
  <2>1. decode_shielded(e) = [anchor |-> AnchorOf(written), actions |-> back]
    BY <1>7 DEF decode_shielded, shielded_from_wire, wired, written
  <2>2. ASSUME NEW i \in 1..n PROVE back[i] = b.actions[i]
    <3> DEFINE a == b.actions[i]
               v == wired[i]
    <3>1. a \in SentAction
      BY <1>4
    <3>2. v = <<a.cv_net, a.nullifier, a.rk, a.cm, a.epk, a.enc, a.out>>
      BY <1>9
    <3>3. back[i] = [cv_net |-> v[1], nullifier |-> v[2], rk |-> v[3], cm |-> v[4],
                     epk |-> v[5], enc |-> v[6], out |-> v[7]]
      BY <1>8
    <3> HIDE DEF a, v, back
    <3>4. a = [cv_net |-> a.cv_net, nullifier |-> a.nullifier, rk |-> a.rk, cm |-> a.cm,
               epk |-> a.epk, enc |-> a.enc, out |-> a.out]
      BY <3>1 DEF SentAction
    <3>5. /\ v[1] = a.cv_net /\ v[2] = a.nullifier /\ v[3] = a.rk /\ v[4] = a.cm
          /\ v[5] = a.epk /\ v[6] = a.enc /\ v[7] = a.out
      BY <3>2
    <3>6. back[i] = a
      BY <3>3, <3>4, <3>5
    <3> QED
      BY <3>6 DEF a
  <2>3. back = b.actions
    <3>1. back = [i \in 1..n |-> back[i]] /\ b.actions = [i \in 1..n |-> b.actions[i]]
      BY <1>4, <1>8
    <3> HIDE DEF back
    <3> QED
      BY <2>2, <3>1
  <2> HIDE DEF back
  <2> QED
    BY <1>10, <2>1, <2>3
<1> QED
  BY <1>6, <1>7, <1>12, <1>13 DEF b

(* The authorisation that is sent, as its bytes are read.                  *)
LEMMA SentAuthorization ==
  ASSUME NEW s \in Sent, NEW e, e = encode_authorization(s.bundle)
  PROVE  /\ e \in Message2 /\ e \notin Atom /\ ~(LengthOf(e) > MAX_AUTHORIZATION_SIZE)
         /\ MessageError(ShieldedAuthorization, e, MAX_AUTHORIZATION_SIZE) = "Ok"
         /\ authorization_error(DecodeMessage(ShieldedAuthorization, e)) = "Ok"
         /\ DecodeMessage(ShieldedAuthorization, e) =
              <<s.bundle.proof, s.bundle.spend_auth_sigs, s.bundle.binding_sig>>
<1> DEFINE b == s.bundle
           message == <<b.proof, b.spend_auth_sigs, b.binding_sig>>
           n == BUNDLE_ACTIONS
<1>1. /\ b \in SentBundle /\ WORD32 \in Nat
      /\ MAX_AUTHORIZATION_SIZE \in Nat /\ n \in Nat
      /\ LengthOf(e) \in 0..MAX_AUTHORIZATION_SIZE
  BY SentIsTyped, SentAssumption DEF SentAssumption
<1>2. e = EncodeMessage(ShieldedAuthorization, message)
  BY DEF encode_authorization
<1> HIDE DEF b, n
<1>3. FitsInside(ShieldedAuthorization, message, Message0, Message1)
  BY <1>1, AuthorizationFits
<1>4. /\ message[1] \in AtomOf(PROOF_SIZE) /\ message[2] \in [1..n -> AtomOf(64)]
      /\ message[3] \in AtomOf(64)
  BY <1>1 DEF SentBundle, n
<1>5. message = <<b.proof, b.spend_auth_sigs, b.binding_sig>>
  OBVIOUS
<1> HIDE DEF message
<1>6. e \in Message2
  <2>1. /\ Contents(Message0) /\ Contents(Message1)
        /\ \A atom \in Atom : atom \notin Seq(FieldOf(Message1)) /\ atom \notin Seq(FieldOf(Message0))
    BY Levels, NoAtoms DEF Message1, Message2
  <2> QED
    BY <1>1, <1>2, <1>3, <2>1, Decodes2 DEF Message2
<1>7. /\ MessageError(ShieldedAuthorization, e, MAX_AUTHORIZATION_SIZE) = "Ok"
      /\ DecodeMessage(ShieldedAuthorization, e) = message /\ e \notin Atom
  BY <1>1, <1>2, <1>3, WrittenIsCanonical
<1>8. ~(LengthOf(e) > MAX_AUTHORIZATION_SIZE)
  BY <1>1
<1>9. authorization_error(message) = "Ok"
  <2> DEFINE sigs == message[2]
             first == <<exactly(PROOF_SIZE, message[1])>>
             errors == [i \in DOMAIN sigs |-> exactly(64, sigs[i])]
             last == <<exactly(64, message[3])>>
  <2>1. DOMAIN sigs = 1..n /\ Len(sigs) = n /\ \A i \in 1..n : sigs[i] \in AtomOf(64)
    BY <1>1, <1>4
  <2> HIDE DEF sigs
  <2>2. Listed(errors) /\ \A i \in 1..Len(errors) : errors[i] = "Ok"
    <3>1. DOMAIN errors = 1..n /\ errors = [i \in 1..n |-> errors[i]] /\ \A i \in 1..n : errors[i] = "Ok"
      BY <2>1, AtomLengths
    <3> HIDE DEF errors
    <3>2. Listed(errors) /\ Len(errors) = n
      BY <1>1, <3>1, Lists
    <3> QED
      BY <3>1, <3>2
  <2>3. Listed(first) /\ \A i \in 1..Len(first) : first[i] = "Ok"
    <3>1. exactly(PROOF_SIZE, message[1]) = "Ok"
      BY <1>4, AtomLengths
    <3>2. Listed(first) /\ Len(first) = 1 /\ first[1] = "Ok"
      BY <3>1, OneElement
    <3> QED
      BY <3>2
  <2>4. Listed(last) /\ \A i \in 1..Len(last) : last[i] = "Ok"
    <3>1. exactly(64, message[3]) = "Ok"
      BY <1>4, AtomLengths
    <3>2. Listed(last) /\ Len(last) = 1 /\ last[1] = "Ok"
      BY <3>1, OneElement
    <3> QED
      BY <3>2
  <2> HIDE DEF first, errors, last
  <2>5. /\ Listed(first \o errors)
        /\ \A i \in 1..Len(first \o errors) : (first \o errors)[i] = "Ok"
    BY <2>2, <2>3, ChecksJoined
  <2> DEFINE most == first \o errors
  <2>6. Listed(most) /\ \A i \in 1..Len(most) : most[i] = "Ok"
    BY <2>5
  <2> HIDE DEF most
  <2>7. Listed(most \o last) /\ \A i \in 1..Len(most \o last) : (most \o last)[i] = "Ok"
    BY <2>4, <2>6, ChecksJoined
  <2> DEFINE all == most \o last
  <2>8. FirstOf(all) = "Ok"
    <3>1. Listed(all) /\ \A i \in 1..Len(all) : all[i] = "Ok"
      BY <2>7
    <3> HIDE DEF all
    <3> QED
      BY <3>1, FirstOfOk
  <2>9. FirstOf(<<exactly(PROOF_SIZE, message[1])>>
                \o [i \in DOMAIN message[2] |-> exactly(64, message[2][i])]
                \o <<exactly(64, message[3])>>) = "Ok"
    BY <2>8 DEF most, first, errors, last, sigs
  <2>10. Len(message[2]) = BUNDLE_ACTIONS
    BY <2>1 DEF sigs, n
  <2> QED
    BY <2>9, <2>10, Zenon DEF authorization_error
<1> QED
  BY <1>5, <1>6, <1>7, <1>8, <1>9 DEF b

(* The body that is sent is a message.                                     *)
LEMMA SentBody ==
  ASSUME NEW s \in Sent
  PROVE  BodyOf(s) \in Message3
<1> DEFINE e == encode_shielded(s.bundle.anchor, s.bundle.actions)
           message == [tag \in {2, 3, 6} |-> CASE tag = 2 -> {<<s.created_at, 0>>}
                                               [] tag = 3 -> s.version_number
                                               [] tag = 6 -> e]
<1>1. e \in Message2
  BY SentShielded
<1>2. BodyOf(s) = EncodeMessage(LocalTransferBody, message)
  BY DEF BodyOf, encode_transfer_body
<1> HIDE DEF e
<1>3. FitsInside(LocalTransferBody, message, Message0, Message2)
  <2>1. /\ s.created_at \in Nat /\ s.created_at < WORD64
        /\ s.version_number \in Nat /\ s.version_number < WORD32
    BY SentIsTyped
  <2> QED
    BY <1>1, <2>1, BodyFits
<1> HIDE DEF message
<1>4. /\ WORD32 \in Nat /\ Contents(Message0) /\ Contents(Message2)
      /\ \A atom \in Atom : atom \notin Seq(FieldOf(Message2)) /\ atom \notin Seq(FieldOf(Message0))
  BY Levels, NoAtoms, WireAssumption DEF Message1, Message3, WireAssumption
<1> QED
  BY <1>2, <1>3, <1>4, Decodes2 DEF Message3

(* The request that is sent, as its bytes are read.                        *)
LEMMA SentRequest ==
  ASSUME NEW s \in Sent, NEW e, e = encode_request(RequestOf(s))
  PROVE  e \in Message4 /\ request_decodes(e) /\ decode_request(e) = RequestOf(s)
<1> DEFINE req == RequestOf(s)
           message == RequestMessage(req)
<1>1. /\ req.body \in Message3 /\ req.outputs \in Seq(SentOpening)
      /\ req.alphas \in Seq({{}} \cup {{alpha} : alpha \in Scalar})
      /\ req = [body |-> req.body, outputs |-> req.outputs, alphas |-> req.alphas]
      /\ MAX_REQUEST_SIZE \in Nat /\ LengthOf(e) \in 0..MAX_REQUEST_SIZE
  BY SentBody, SentIsTyped, SentAssumption DEF RequestOf, SentAssumption
<1>2. e = EncodeMessage(SigningRequestMessage, message)
  BY DEF encode_request, RequestMessage
<1> HIDE DEF req
<1>3. FitsInside(SigningRequestMessage, message, Message0, Message3)
  BY <1>1, RequestFits
<1> DEFINE outputs == req.outputs
           alphas == req.alphas
           m == Len(outputs)
           n == Len(alphas)
           wired == message[2]
           written == message[3]
<1>4. m \in Nat /\ DOMAIN outputs = 1..m /\ outputs = [i \in 1..m |-> outputs[i]]
      /\ \A i \in 1..m : outputs[i] \in SentOpening
  BY <1>1
<1>5. n \in Nat /\ DOMAIN alphas = 1..n /\ alphas = [i \in 1..n |-> alphas[i]]
      /\ \A i \in 1..n : alphas[i] \in {{}} \cup {{alpha} : alpha \in Scalar}
  BY <1>1
<1>6. /\ message[1] = req.body
      /\ wired = [i \in DOMAIN outputs |->
         LET o == outputs[i]
         IN  <<o.address, o.value, IF o.kind = "Normal" THEN 0 ELSE 1, o.expiry_epoch,
               o.rseed, o.memo_cm, o.free_memo,
               OrEmpty({memo.text : memo \in o.memo}),
               OrEmpty({memo.r_memo : memo \in o.memo})>>]
      /\ written = [i \in DOMAIN alphas |-> OrEmpty(alphas[i])]
  BY DEF RequestMessage
<1> HIDE DEF message
<1>7. e \in Message4
  <2>1. /\ WORD32 \in Nat /\ Contents(Message0) /\ Contents(Message3)
        /\ \A atom \in Atom : atom \notin Seq(FieldOf(Message3)) /\ atom \notin Seq(FieldOf(Message0))
    BY Levels, NoAtoms, WireAssumption DEF Message1, Message4, WireAssumption
  <2> QED
    BY <1>2, <1>3, <2>1, Decodes2 DEF Message4
<1>8. /\ MessageError(SigningRequestMessage, e, MAX_REQUEST_SIZE) = "Ok"
      /\ DecodeMessage(SigningRequestMessage, e) = message
  BY <1>1, <1>2, <1>3, WrittenIsCanonical
<1> HIDE DEF outputs, alphas, wired, written, m, n
<1>9. DOMAIN wired = 1..m /\ DOMAIN written = 1..n
  BY <1>4, <1>5, <1>6
<1> DEFINE Back(o) ==
      [address |-> o[1], value |-> o[2], kind |-> NoteKinds[o[3] + 1],
       expiry_epoch |-> o[4], rseed |-> o[5], memo_cm |-> o[6], free_memo |-> o[7],
       memo |-> IF o[9] = <<>> THEN {} ELSE {[text |-> o[8], r_memo |-> o[9]]}]
<1>10. ASSUME NEW i \in 1..m
       PROVE  OpeningDecodes(wired[i]) /\ Back(wired[i]) = outputs[i]
  <2> DEFINE o == outputs[i]
             v == wired[i]
             k == IF o.kind = "Normal" THEN 0 ELSE 1
             x == OrEmpty({memo.text : memo \in o.memo})
             y == OrEmpty({memo.r_memo : memo \in o.memo})
  <2>1. o \in SentOpening
    BY <1>4
  <2>2. v = <<o.address, o.value, k, o.expiry_epoch, o.rseed, o.memo_cm, o.free_memo, x, y>>
    BY <1>4, <1>6
  <2>3. k \in {0, 1} /\ NoteKinds[k + 1] = o.kind
    <3>1. o.kind \in {"Normal", "Deferred"}
      BY <2>1 DEF SentOpening
    <3>2. CASE o.kind = "Normal"
      BY <3>2 DEF NoteKinds
    <3>3. CASE o.kind = "Deferred"
      BY <3>3 DEF NoteKinds
    <3> QED
      BY <3>1, <3>2, <3>3
  <2>4. \/ o.memo = {} /\ x = <<>> /\ y = <<>>
        \/ \E memo \in [text : AtomOf(MEMO_LEN), r_memo : Element] :
             o.memo = {memo} /\ x = memo.text /\ y = memo.r_memo
    BY <2>1, MemoParts
  <2> HIDE DEF o, v, k, x, y
  <2>5. v[1] = o.address /\ v[2] = o.value /\ v[3] = k /\ v[4] = o.expiry_epoch
    BY <2>2
  <2>6. v[5] = o.rseed /\ v[6] = o.memo_cm /\ v[7] = o.free_memo /\ v[8] = x /\ v[9] = y
    BY <2>2
  <2>7. /\ o.address \in Address /\ o.rseed \in AtomOf(32) /\ o.memo_cm \in Element
        /\ o.free_memo \in AtomOf(FREE_MEMO_SIZE)
    BY <2>1 DEF SentOpening
  <2>8. \A a \in Atom : a # <<>>
    BY NoAtoms DEF Message0
  <2>9. /\ MemoDecodes(v)
        /\ o.memo = IF y = <<>> THEN {} ELSE {[text |-> x, r_memo |-> y]}
    <3>1. CASE o.memo = {} /\ x = <<>> /\ y = <<>>
      BY <2>6, <3>1 DEF MemoDecodes
    <3>2. CASE \E memo \in [text : AtomOf(MEMO_LEN), r_memo : Element] :
                 o.memo = {memo} /\ x = memo.text /\ y = memo.r_memo
      <4>1. PICK memo \in [text : AtomOf(MEMO_LEN), r_memo : Element] :
              o.memo = {memo} /\ x = memo.text /\ y = memo.r_memo
        BY <3>2
      <4>2. x \in AtomOf(MEMO_LEN) /\ y \in Element /\ memo = [text |-> x, r_memo |-> y]
        BY <4>1
      <4>3. x # <<>> /\ y # <<>> /\ LengthOf(x) = MEMO_LEN /\ IsField(y)
        BY <2>8, <4>2, AtomLengths, SentAtoms
      <4> QED
        BY <2>6, <4>1, <4>2, <4>3 DEF MemoDecodes
    <3> QED
      BY <2>4, <3>1, <3>2
  <2>10. OpeningDecodes(v)
    <3>1. LengthOf(v[5]) = 32 /\ IsField(v[6]) /\ LengthOf(v[7]) = FREE_MEMO_SIZE
      BY <2>6, <2>7, AtomLengths
    <3> QED
      BY <2>3, <2>5, <2>7, <2>9, <3>1 DEF OpeningDecodes
  <2>11. Back(v) = o
    <3>1. o = [address |-> o.address, value |-> o.value, kind |-> o.kind,
               expiry_epoch |-> o.expiry_epoch, rseed |-> o.rseed, memo_cm |-> o.memo_cm,
               free_memo |-> o.free_memo, memo |-> o.memo]
      BY <2>1 DEF SentOpening
    <3> DEFINE memos == IF y = <<>> THEN {} ELSE {[text |-> x, r_memo |-> y]}
    <3>2. Back(v) = [address |-> v[1], value |-> v[2], kind |-> NoteKinds[v[3] + 1],
                     expiry_epoch |-> v[4], rseed |-> v[5], memo_cm |-> v[6],
                     free_memo |-> v[7], memo |-> memos]
      BY <2>6
    <3>3. memos = o.memo
      BY <2>9
    <3> HIDE DEF Back, memos
    <3> QED
      BY <2>3, <2>5, <2>6, <3>1, <3>2, <3>3
  <2> HIDE DEF Back
  <2> QED
    BY <2>10, <2>11 DEF o, v
<1>11. ASSUME NEW i \in 1..n
       PROVE  written[i] \in Scalar \cup {<<>>} /\ {written[i]} \ {<<>>} = alphas[i]
  <2>1. written[i] = OrEmpty(alphas[i])
    BY <1>5, <1>6
  <2>2. CASE alphas[i] = {}
    <3>1. written[i] = <<>>
      BY <2>1, <2>2, OrEmptyGives
    <3> QED
      BY <2>2, <3>1
  <2>3. CASE alphas[i] # {}
    <3>1. PICK alpha \in Scalar : alphas[i] = {alpha}
      BY <1>5, <2>3
    <3>2. written[i] = alpha
      BY <2>1, <3>1, OrEmptyGives
    <3>3. alpha # <<>>
      BY NoAtoms, RequestAssumption DEF Message0, RequestAssumption
    <3> QED
      BY <3>1, <3>2, <3>3
  <2> QED
    BY <2>2, <2>3
<1>12. request_decodes(e)
  <2>1. \A i \in DOMAIN message[2] : OpeningDecodes(message[2][i])
    BY <1>9, <1>10 DEF wired
  <2>2. \A i \in DOMAIN message[3] : message[3][i] \in Scalar \cup {<<>>}
    BY <1>9, <1>11 DEF written
  <2> QED
    BY <1>8, <2>1, <2>2 DEF request_decodes
<1>13. decode_request(e) = req
  <2> DEFINE first == [i \in DOMAIN wired |-> Back(wired[i])]
             second == [i \in DOMAIN written |-> {written[i]} \ {<<>>}]
  <2>1. decode_request(e) = [body |-> message[1], outputs |-> first, alphas |-> second]
    BY <1>8 DEF decode_request, wired, written
  <2>2. first = outputs
    <3> HIDE DEF Back
    <3> QED
      BY <1>4, <1>9, <1>10
  <2>3. second = alphas
    BY <1>5, <1>9, <1>11
  <2> HIDE DEF first, second
  <2>4. decode_request(e) = [body |-> req.body, outputs |-> req.outputs, alphas |-> req.alphas]
    BY <1>6, <2>1, <2>2, <2>3 DEF outputs, alphas
  <2> QED
    BY <1>1, <2>4
<1> QED
  BY <1>7, <1>12, <1>13 DEF req

-----------------------------------------------------------------------------
(* A changed field is a field: its content is no longer an atom's or a
   message's bytes, but another's.                                         *)
LEMMA EditedFields ==
  ASSUME NEW C, <<>> \in C, NEW field \in FieldOf(C), NEW inside, inside \subseteq Atom \cup C
  PROVE  EditedField(field, inside) \subseteq FieldOf(C)
<1>1. Number \subseteq 0..(64 * WORD64 - 1) /\ Other \subseteq Atom \cup C
  BY EditAssumption DEF EditAssumption, Message0
<1>2. \A n \in {1, EXCESS} : [field EXCEPT !.extra = n] \in FieldOf(C)
  <2>1. {1, EXCESS} \subseteq {0, 1, EXCESS}
    OBVIOUS
  <2> QED
    BY <2>1 DEF FieldOf
<1>3. \A n \in Number : [field EXCEPT !.number = n] \in FieldOf(C)
  BY <1>1 DEF FieldOf
<1>4. \A b \in Other \cup inside : [field EXCEPT !.bytes = b] \in FieldOf(C)
  BY <1>1 DEF FieldOf
<1> QED
  BY <1>2, <1>3, <1>4 DEF EditedField

(* A changed message is a message of as many levels.                       *)
LEMMA EditedMessages ==
  ASSUME NEW C, <<>> \in C, NEW bytes \in Seq(FieldOf(C)), NEW inside,
         \A i \in DOMAIN bytes : inside[i] \subseteq Atom \cup C
  PROVE  EditedBy(bytes, inside) \subseteq Seq(FieldOf(C))
<1> DEFINE F == FieldOf(C)
<1>1. bytes \in Seq(F) /\ Added \subseteq F
  BY EditAssumption DEF EditAssumption, FieldOf, Message0
<1>2. \A i \in DOMAIN bytes : EditedField(bytes[i], inside[i]) \subseteq F
  BY EditedFields
<1> HIDE DEF F
<1>3. \A field \in Added : Append(bytes, field) \in Seq(F)
  BY <1>1
<1>4. ASSUME NEW i \in DOMAIN bytes
      PROVE  /\ RemoveAt(bytes, i) \in Seq(F) /\ Append(bytes, bytes[i]) \in Seq(F)
             /\ \A field \in EditedField(bytes[i], inside[i]) : [bytes EXCEPT ![i] = field] \in Seq(F)
  <2>1. i \in 1..Len(bytes) /\ bytes[i] \in F
    BY <1>1
  <2>2. SubSeq(bytes, 1, i - 1) \in Seq(F) /\ SubSeq(bytes, i + 1, Len(bytes)) \in Seq(F)
    BY <1>1, <2>1
  <2>3. RemoveAt(bytes, i) \in Seq(F)
    BY <2>2 DEF RemoveAt
  <2>4. \A field \in F : [bytes EXCEPT ![i] = field] \in Seq(F)
    BY <1>1
  <2> QED
    BY <1>1, <1>2, <2>1, <2>3, <2>4
<1>5. ASSUME NEW i \in 1..(Len(bytes) - 1)
      PROVE  [bytes EXCEPT ![i] = bytes[i + 1], ![i + 1] = bytes[i]] \in Seq(F)
  <2> DEFINE half == [bytes EXCEPT ![i] = bytes[i + 1]]
             n == Len(bytes)
  <2>1. n \in Nat /\ i \in 1..n /\ i + 1 \in 1..n /\ bytes \in [1..n -> F]
    BY <1>1
  <2>2. bytes[i] \in F /\ bytes[i + 1] \in F
    BY <2>1
  <2> HIDE DEF n
  <2>3. half \in [1..n -> F]
    BY <2>1, <2>2
  <2> HIDE DEF half
  <2>4. [half EXCEPT ![i + 1] = bytes[i]] \in [1..n -> F]
    BY <2>1, <2>2, <2>3
  <2>5. [1..n -> F] \subseteq Seq(F)
    BY <2>1
  <2> QED
    BY <2>4, <2>5 DEF half
<1> DEFINE At(i) == {RemoveAt(bytes, i), Append(bytes, bytes[i])}
                    \cup {[bytes EXCEPT ![i] = field] : field \in EditedField(bytes[i], inside[i])}
           Swap(i) == [bytes EXCEPT ![i] = bytes[i + 1], ![i + 1] = bytes[i]]
<1> DEFINE added == {Append(bytes, field) : field \in Added}
           changed == UNION {At(i) : i \in DOMAIN bytes}
           swapped == {Swap(i) : i \in 1..(Len(bytes) - 1)}
<1>6. EditedBy(bytes, inside) = added \cup changed \cup swapped
  BY DEF EditedBy
<1>7. \A i \in DOMAIN bytes : At(i) \subseteq Seq(F)
  BY <1>4
<1>8. \A i \in 1..(Len(bytes) - 1) : Swap(i) \in Seq(F)
  BY <1>5
<1> HIDE DEF At, Swap
<1>9. added \subseteq Seq(F) /\ changed \subseteq Seq(F) /\ swapped \subseteq Seq(F)
  <2>1. added \subseteq Seq(F)
    BY <1>3
  <2>2. changed \subseteq Seq(F)
    BY <1>7, Zenon
  <2>3. swapped \subseteq Seq(F)
    BY <1>8
  <2> QED
    BY <2>1, <2>2, <2>3
<1> HIDE DEF added, changed, swapped
<1>10. EditedBy(bytes, inside) \subseteq Seq(F)
  BY <1>6, <1>9
<1> QED
  BY <1>10 DEF F

(* A changed message has no more levels than it had.                       *)
LEMMA EditedLevels ==
  /\ \A b \in Atom \cup Message1 : Edited1(b) \subseteq Message1
  /\ \A b \in Atom \cup Message2 : Edited2(b) \subseteq Message2
  /\ \A b \in Atom \cup Message3 : Edited3(b) \subseteq Message3
  /\ \A b \in Atom \cup Message4 : Edited4(b) \subseteq Message4
  /\ \A b \in Message5 : Edited(b) \subseteq Message5
<1>1. /\ <<>> \in Message0 /\ <<>> \in Message1 /\ <<>> \in Message2
      /\ <<>> \in Message3 /\ <<>> \in Message4
  BY Levels DEF Contents
<1>2. ASSUME NEW C, NEW b \in Seq(FieldOf(C)), NEW i \in DOMAIN b
      PROVE  b[i].bytes \in Atom \cup C
  <2>1. b[i] \in FieldOf(C)
    OBVIOUS
  <2> QED
    BY <2>1 DEF FieldOf
<1>3. ASSUME NEW b \in Atom \cup Message1 PROVE Edited1(b) \subseteq Message1
  <2>1. CASE b \in Atom
    BY <2>1 DEF Edited1
  <2>2. CASE b \notin Atom
    <3> DEFINE inside == [i \in DOMAIN b |-> {}]
    <3>1. b \in Seq(FieldOf(Message0))
      BY <2>2 DEF Message1
    <3>2. \A i \in DOMAIN b : inside[i] \subseteq Atom \cup Message0
      OBVIOUS
    <3>3. Edited1(b) = EditedBy(b, inside)
      BY <2>2 DEF Edited1
    <3> HIDE DEF inside
    <3> QED
      BY <1>1, <3>1, <3>2, <3>3, EditedMessages DEF Message1
  <2> QED
    BY <2>1, <2>2
<1>4. ASSUME NEW b \in Atom \cup Message2 PROVE Edited2(b) \subseteq Message2
  <2>1. CASE b \in Atom
    BY <2>1 DEF Edited2
  <2>2. CASE b \notin Atom
    <3> DEFINE inside == [i \in DOMAIN b |-> Edited1(b[i].bytes)]
    <3>1. b \in Seq(FieldOf(Message1))
      BY <2>2 DEF Message2
    <3>2. \A i \in DOMAIN b : inside[i] \subseteq Atom \cup Message1
      BY <1>2, <1>3, <3>1
    <3>3. Edited2(b) = EditedBy(b, inside)
      BY <2>2 DEF Edited2
    <3> HIDE DEF inside
    <3> QED
      BY <1>1, <3>1, <3>2, <3>3, EditedMessages DEF Message2
  <2> QED
    BY <2>1, <2>2
<1>5. ASSUME NEW b \in Atom \cup Message3 PROVE Edited3(b) \subseteq Message3
  <2>1. CASE b \in Atom
    BY <2>1 DEF Edited3
  <2>2. CASE b \notin Atom
    <3> DEFINE inside == [i \in DOMAIN b |-> Edited2(b[i].bytes)]
    <3>1. b \in Seq(FieldOf(Message2))
      BY <2>2 DEF Message3
    <3>2. \A i \in DOMAIN b : inside[i] \subseteq Atom \cup Message2
      BY <1>2, <1>4, <3>1
    <3>3. Edited3(b) = EditedBy(b, inside)
      BY <2>2 DEF Edited3
    <3> HIDE DEF inside
    <3> QED
      BY <1>1, <3>1, <3>2, <3>3, EditedMessages DEF Message3
  <2> QED
    BY <2>1, <2>2
<1>6. ASSUME NEW b \in Atom \cup Message4 PROVE Edited4(b) \subseteq Message4
  <2>1. CASE b \in Atom
    BY <2>1 DEF Edited4
  <2>2. CASE b \notin Atom
    <3> DEFINE inside == [i \in DOMAIN b |-> Edited3(b[i].bytes)]
    <3>1. b \in Seq(FieldOf(Message3))
      BY <2>2 DEF Message4
    <3>2. \A i \in DOMAIN b : inside[i] \subseteq Atom \cup Message3
      BY <1>2, <1>5, <3>1
    <3>3. Edited4(b) = EditedBy(b, inside)
      BY <2>2 DEF Edited4
    <3> HIDE DEF inside
    <3> QED
      BY <1>1, <3>1, <3>2, <3>3, EditedMessages DEF Message4
  <2> QED
    BY <2>1, <2>2
<1>7. ASSUME NEW b \in Message5 PROVE Edited(b) \subseteq Message5
  <2> DEFINE inside == [i \in DOMAIN b |-> Edited4(b[i].bytes)]
  <2>1. b \in Seq(FieldOf(Message4)) /\ b \notin Atom
    BY NoAtoms DEF Message5
  <2>2. \A i \in DOMAIN b : inside[i] \subseteq Atom \cup Message4
    BY <1>2, <1>6, <2>1
  <2>3. Edited(b) = EditedBy(b, inside)
    BY <2>1 DEF Edited
  <2> HIDE DEF inside
  <2> QED
    BY <1>1, <2>1, <2>2, <2>3, EditedMessages DEF Message5
<1> QED
  BY <1>3, <1>4, <1>5, <1>6, <1>7

(* Whoever passes bytes on, and however often and deep fields are changed:
   what the device and the node are handed are sequences of fields, at most
   five levels of them; no change makes something else of them.            *)
THEOREM RelayTyped == RelaySpec => []RelayTypeOK
<1>1. RelayInit => RelayTypeOK
  <2> SUFFICES ASSUME RelayInit PROVE RelayTypeOK
    OBVIOUS
  <2>1. sent \in Sent /\ edits \in Nat
    BY DEF RelayInit
  <2>2. /\ Message2 \subseteq Message5 /\ Message3 \subseteq Message5 /\ Message4 \subseteq Message5
    BY Levels
  <2>3. body \in Message5
    BY <2>1, <2>2, SentBody DEF RelayInit
  <2>4. authorization \in Message5
    BY <2>1, <2>2, SentAuthorization DEF RelayInit
  <2>5. request \in Message5
    BY <2>1, <2>2, SentRequest DEF RelayInit
  <2> QED
    BY <2>1, <2>3, <2>4, <2>5 DEF RelayTypeOK
<1>2. RelayTypeOK /\ [RelayNext]_relayVars => RelayTypeOK'
  <2> SUFFICES ASSUME RelayTypeOK, [RelayNext]_relayVars PROVE RelayTypeOK'
    OBVIOUS
  <2>1. CASE UNCHANGED relayVars
    BY <2>1 DEF RelayTypeOK, relayVars
  <2>2. CASE RelayNext
    <3>1. sent' \in Sent /\ edits' \in Nat
      BY <2>2 DEF RelayNext, RelayTypeOK
    <3>2. CASE EditBody
      BY <3>1, <3>2, EditedLevels DEF EditBody, RelayTypeOK
    <3>3. CASE EditAuthorization
      BY <3>1, <3>3, EditedLevels DEF EditAuthorization, RelayTypeOK
    <3>4. CASE EditRequest
      BY <3>1, <3>4, EditedLevels DEF EditRequest, RelayTypeOK
    <3> QED
      BY <2>2, <3>2, <3>3, <3>4 DEF RelayNext
  <2> QED
    BY <2>1, <2>2
<1> QED
  BY <1>1, <1>2, PTL DEF RelaySpec

-----------------------------------------------------------------------------
(* What a message decodes to.                                              *)
IsDecoded(m, schema, b) ==
  /\ m = [tag \in DOMAIN schema |-> m[tag]]
  /\ \A tag \in DOMAIN schema : schema[tag].is = "message" =>
       m[tag] = {} \/ \E x : m[tag] = {Read1(schema[tag].of, x, TRUE)}
  /\ \A tag \in DOMAIN schema : schema[tag].is = "repeated" =>
       /\ DOMAIN m[tag] = DOMAIN Fields(b, tag)
       /\ m[tag] = [i \in DOMAIN m[tag] |-> m[tag][i]]
       /\ \A i \in DOMAIN m[tag] :
            m[tag][i] = Read1(schema[tag].of, Fields(b, tag)[i].bytes, TRUE)
  /\ \A tag \in DOMAIN schema : schema[tag].is = "repeated bytes" =>
       m[tag] = [i \in DOMAIN m[tag] |-> m[tag][i]]
LEMMA Decoded ==
  ASSUME NEW schema, NEW b, NEW m, m = DecodeMessage(schema, b)
  PROVE  IsDecoded(m, schema, b)
<1> DEFINE raw == Read1(schema, b, TRUE)
           At(tag) == IF schema[tag].is = "message" THEN {Read1(schema[tag].of, v, TRUE) : v \in raw[tag]}
                      ELSE IF schema[tag].is = "repeated"
                      THEN [i \in DOMAIN raw[tag] |-> Read1(schema[tag].of, raw[tag][i], TRUE)]
                      ELSE raw[tag]
<1>1. m = [tag \in DOMAIN schema |-> At(tag)]
  BY DEF DecodeMessage, Read2, Inside
<1>2. \A tag \in DOMAIN schema : raw[tag] = ValueOf(schema[tag], Fields(b, tag), TRUE)
  BY DEF Read1
<1> HIDE DEF raw
<1>3. \A tag \in DOMAIN schema : m[tag] = At(tag)
  BY <1>1
<1>4. m = [tag \in DOMAIN schema |-> m[tag]]
  BY <1>1
<1>5. ASSUME NEW tag \in DOMAIN schema, schema[tag].is = "message"
      PROVE  m[tag] = {} \/ \E x : m[tag] = {Read1(schema[tag].of, x, TRUE)}
  <2>1. raw[tag] = {} \/ \E x : raw[tag] = {x}
    BY <1>2, <1>5 DEF ValueOf
  <2>2. m[tag] = {Read1(schema[tag].of, v, TRUE) : v \in raw[tag]}
    BY <1>3, <1>5
  <2>3. CASE raw[tag] = {}
    BY <2>2, <2>3
  <2>4. CASE raw[tag] # {}
    <3>1. PICK x : raw[tag] = {x}
      BY <2>1, <2>4
    <3>2. m[tag] = {Read1(schema[tag].of, x, TRUE)}
      BY <2>2, <3>1
    <3> QED
      BY <3>2
  <2> QED
    BY <2>3, <2>4
<1>6. ASSUME NEW tag \in DOMAIN schema, schema[tag].is = "repeated"
      PROVE  /\ DOMAIN m[tag] = DOMAIN Fields(b, tag)
             /\ m[tag] = [i \in DOMAIN m[tag] |-> m[tag][i]]
             /\ \A i \in DOMAIN m[tag] :
                  m[tag][i] = Read1(schema[tag].of, Fields(b, tag)[i].bytes, TRUE)
  <2>1. raw[tag] = [i \in DOMAIN Fields(b, tag) |-> Fields(b, tag)[i].bytes]
    BY <1>2, <1>6 DEF ValueOf
  <2>2. m[tag] = [i \in DOMAIN raw[tag] |-> Read1(schema[tag].of, raw[tag][i], TRUE)]
    BY <1>3, <1>6
  <2> QED
    BY <2>1, <2>2
<1>7. ASSUME NEW tag \in DOMAIN schema, schema[tag].is = "repeated bytes"
      PROVE  m[tag] = [i \in DOMAIN m[tag] |-> m[tag][i]]
  <2>1. raw[tag] = [i \in DOMAIN Fields(b, tag) |-> Fields(b, tag)[i].bytes]
    BY <1>2, <1>7 DEF ValueOf
  <2>2. m[tag] = raw[tag]
    BY <1>3, <1>7
  <2> QED
    BY <2>1, <2>2
<1> QED
  BY <1>4, <1>5, <1>6, <1>7 DEF IsDecoded

(* No error of the reader of messages: what it read was written so.        *)
LEMMA Canonical ==
  ASSUME NEW schema, NEW b, NEW limit, MessageError(schema, b, limit) = "Ok"
  PROVE  /\ EncodeMessage(schema, DecodeMessage(schema, b)) = b
         /\ Decodable2(schema, b, TRUE) /\ ~(LengthOf(b) > limit)
BY Zenon DEF MessageError

(* No error of shielded_from_wire: nothing in the message is lost.         *)
LEMMA ReencodedShielded ==
  ASSUME NEW b, NEW m, m = DecodeMessage(ShieldedBundle, b), shielded_error(m) = "Ok",
         EncodeMessage(ShieldedBundle, m) = b
  PROVE  encode_shielded(decode_shielded(b).anchor, decode_shielded(b).actions) = b
<1>1. /\ m[4] = CIRCUIT_VERSION /\ m[3] = <<>> /\ AnchorError(m[1]) = "Ok"
  BY Zenon DEF shielded_error
<1>2. /\ m = [tag \in 1..4 |-> m[tag]]
      /\ m[1] = {} \/ \E x : m[1] = {Read1(AnchorSchema, x, TRUE)}
      /\ m[2] = [i \in DOMAIN m[2] |-> m[2][i]]
      /\ \A i \in DOMAIN m[2] : \E x : m[2][i] = Read1(ActionSchema, x, TRUE)
  <2>1. /\ DOMAIN ShieldedBundle = 1..4
        /\ ShieldedBundle[1].is = "message" /\ ShieldedBundle[1].of = AnchorSchema
        /\ ShieldedBundle[2].is = "repeated" /\ ShieldedBundle[2].of = ActionSchema
        /\ IsDecoded(m, ShieldedBundle, b)
    BY OuterSchemas, Decoded
  <2>2. m = [tag \in 1..4 |-> m[tag]]
    BY <2>1 DEF IsDecoded
  <2>3. m[1] = {} \/ \E x : m[1] = {Read1(AnchorSchema, x, TRUE)}
    <3>1. 1 \in DOMAIN ShieldedBundle
      BY <2>1
    <3>2. m[1] = {} \/ \E x : m[1] = {Read1(ShieldedBundle[1].of, x, TRUE)}
      BY <2>1, <3>1, Zenon DEF IsDecoded
    <3> QED
      BY <2>1, <3>2, Zenon
  <2>4. /\ m[2] = [i \in DOMAIN m[2] |-> m[2][i]]
        /\ \A i \in DOMAIN m[2] :
             m[2][i] = Read1(ActionSchema, Fields(b, 2)[i].bytes, TRUE)
    <3>1. 2 \in DOMAIN ShieldedBundle
      BY <2>1
    <3>2. /\ m[2] = [i \in DOMAIN m[2] |-> m[2][i]]
          /\ \A i \in DOMAIN m[2] :
               m[2][i] = Read1(ShieldedBundle[2].of, Fields(b, 2)[i].bytes, TRUE)
      BY <2>1, <3>1, Zenon DEF IsDecoded
    <3> QED
      BY <2>1, <3>2, Zenon
  <2> QED
    BY <2>2, <2>3, <2>4
<1>3. {<<AnchorOf(m[1]), 0>>} = m[1]
  <2>1. m[1] # {} /\ \A anchor \in m[1] : anchor[2] = 0
    BY <1>1, Zenon DEF AnchorError
  <2>2. PICK x : m[1] = {Read1(AnchorSchema, x, TRUE)}
    BY <1>2, <2>1
  <2> DEFINE r == Read1(AnchorSchema, x, TRUE)
  <2>3. r = [i \in 1..2 |-> r[i]]
    BY Schemas DEF Read1
  <2>4. m[1] = {r}
    BY <2>2
  <2> HIDE DEF r
  <2>5. r[2] = 0 /\ (CHOOSE anchor \in m[1] : TRUE) = r
    BY <2>1, <2>4
  <2>6. AnchorOf(m[1]) = r[1]
    BY <2>5, Zenon DEF AnchorOf
  <2>7. <<r[1], r[2]>> = r
    BY <2>3, Tuples
  <2> QED
    BY <2>4, <2>5, <2>6, <2>7
<1> DEFINE p == decode_shielded(b)
<1>4. /\ p.anchor = AnchorOf(m[1]) /\ DOMAIN p.actions = DOMAIN m[2]
      /\ \A i \in DOMAIN m[2] : p.actions[i] =
           [cv_net |-> m[2][i][1], nullifier |-> m[2][i][2], rk |-> m[2][i][3], cm |-> m[2][i][4],
            epk |-> m[2][i][5], enc |-> m[2][i][6], out |-> m[2][i][7]]
  BY DEF decode_shielded, shielded_from_wire
<1> HIDE DEF p
<1> DEFINE wired == [i \in DOMAIN p.actions |->
             <<p.actions[i].cv_net, p.actions[i].nullifier, p.actions[i].rk, p.actions[i].cm,
               p.actions[i].epk, p.actions[i].enc, p.actions[i].out>>]
<1>5. wired = m[2]
  <2>1. ASSUME NEW i \in DOMAIN m[2] PROVE wired[i] = m[2][i]
    <3> DEFINE v == m[2][i]
               a == p.actions[i]
    <3>1. v = [j \in 1..7 |-> v[j]]
      <4>1. PICK x : v = Read1(ActionSchema, x, TRUE)
        BY <1>2
      <4> QED
        BY <4>1, Schemas DEF Read1
    <3>2. a = [cv_net |-> v[1], nullifier |-> v[2], rk |-> v[3], cm |-> v[4],
               epk |-> v[5], enc |-> v[6], out |-> v[7]]
      BY <1>4
    <3>3. wired[i] = <<a.cv_net, a.nullifier, a.rk, a.cm, a.epk, a.enc, a.out>>
      BY <1>4
    <3> HIDE DEF v, a, wired
    <3>4. /\ a.cv_net = v[1] /\ a.nullifier = v[2] /\ a.rk = v[3] /\ a.cm = v[4]
          /\ a.epk = v[5] /\ a.enc = v[6] /\ a.out = v[7]
      BY <3>2
    <3>5. wired[i] = <<v[1], v[2], v[3], v[4], v[5], v[6], v[7]>>
      BY <3>3, <3>4
    <3>6. wired[i] = v
      BY <3>1, <3>5, Tuples
    <3> QED
      BY <3>6 DEF v
  <2>2. wired = [i \in DOMAIN m[2] |-> wired[i]]
    BY <1>4
  <2> HIDE DEF wired
  <2> QED
    BY <1>2, <2>1, <2>2
<1>6. shielded_to_wire(p.anchor, p.actions) = <<{<<p.anchor, 0>>}, wired, <<>>, CIRCUIT_VERSION>>
  BY DEF shielded_to_wire
<1> HIDE DEF wired
<1>7. shielded_to_wire(p.anchor, p.actions) = <<m[1], m[2], m[3], m[4]>>
  BY <1>1, <1>3, <1>4, <1>5, <1>6
<1>8. shielded_to_wire(p.anchor, p.actions) = m
  BY <1>2, <1>7, Tuples
<1>9. encode_shielded(p.anchor, p.actions) = b
  BY <1>8 DEF encode_shielded
<1> QED
  BY <1>9 DEF p

(* Bytes that decode takes are those that encode writes.                   *)
LEMMA ReencodedBundle ==
  ASSUME NEW sh, NEW auth, decode_error(sh, auth) = "Ok"
  PROVE  encode(decode(sh, auth)) = <<sh, auth>>
<1> DEFINE m == DecodeMessage(ShieldedBundle, sh)
           n == DecodeMessage(ShieldedAuthorization, auth)
           p == decode_shielded(sh)
           d == decode(sh, auth)
<1>1. /\ MessageError(ShieldedBundle, sh, MAX_SHIELDED_BUNDLE_SIZE) = "Ok"
      /\ MessageError(ShieldedAuthorization, auth, MAX_AUTHORIZATION_SIZE) = "Ok"
      /\ FirstOf(<<shielded_error(m), authorization_error(n)>>) = "Ok"
  BY Zenon DEF decode_error
<1>2. /\ EncodeMessage(ShieldedBundle, m) = sh /\ EncodeMessage(ShieldedAuthorization, n) = auth
      /\ shielded_error(m) = "Ok"
  BY <1>1, Canonical, TwoChecks
<1>3. encode_shielded(p.anchor, p.actions) = sh
  BY <1>2, ReencodedShielded
<1>4. d = [anchor |-> p.anchor, actions |-> p.actions, proof |-> n[1],
           spend_auth_sigs |-> n[2], binding_sig |-> n[3]]
  BY DEF decode
<1>5. <<n[1], n[2], n[3]>> = n
  <2>1. DOMAIN ShieldedAuthorization = 1..3 /\ IsDecoded(n, ShieldedAuthorization, auth)
    BY OuterSchemas, Decoded
  <2>2. n = [tag \in 1..3 |-> n[tag]]
    BY <2>1 DEF IsDecoded
  <2> HIDE DEF n
  <2> QED
    BY <2>2, Tuples
<1> HIDE DEF m, n, p, d
<1>6. encode_shielded(d.anchor, d.actions) = sh
  BY <1>3, <1>4
<1>7. encode_authorization(d) = auth
  <2>1. d.proof = n[1] /\ d.spend_auth_sigs = n[2] /\ d.binding_sig = n[3]
    BY <1>4
  <2> QED
    BY <1>2, <1>5, <2>1 DEF encode_authorization
<1> QED
  BY <1>6, <1>7 DEF encode, d

(* What was sent is what decode returns of it.                             *)
LEMMA BundleArrives ==
  ASSUME NEW s \in Sent
  PROVE  LET sh == encode_shielded(s.bundle.anchor, s.bundle.actions)
             auth == encode_authorization(s.bundle)
         IN  decode_error(sh, auth) = "Ok" /\ decode(sh, auth) = s.bundle
<1> DEFINE sh == encode_shielded(s.bundle.anchor, s.bundle.actions)
           auth == encode_authorization(s.bundle)
           m == DecodeMessage(ShieldedBundle, sh)
           n == DecodeMessage(ShieldedAuthorization, auth)
<1>1. /\ MessageError(ShieldedBundle, sh, MAX_SHIELDED_BUNDLE_SIZE) = "Ok"
      /\ shielded_error(m) = "Ok"
      /\ decode_shielded(sh) = [anchor |-> s.bundle.anchor, actions |-> s.bundle.actions]
  BY SentShielded
<1>2. /\ ~(LengthOf(auth) > MAX_AUTHORIZATION_SIZE)
      /\ MessageError(ShieldedAuthorization, auth, MAX_AUTHORIZATION_SIZE) = "Ok"
      /\ authorization_error(n) = "Ok"
      /\ n = <<s.bundle.proof, s.bundle.spend_auth_sigs, s.bundle.binding_sig>>
  BY SentAuthorization
<1> HIDE DEF sh, auth
<1>3. FirstOf(<<shielded_error(m), authorization_error(n)>>) = "Ok"
  BY <1>1, <1>2, TwoChecks
<1>4. decode_error(sh, auth) = "Ok"
  BY <1>1, <1>2, <1>3, Zenon DEF decode_error
<1>5. decode(sh, auth) = s.bundle
  <2> DEFINE b == s.bundle
  <2>1. b \in SentBundle
    BY SentIsTyped
  <2>2. b = [anchor |-> b.anchor, actions |-> b.actions, proof |-> b.proof,
             spend_auth_sigs |-> b.spend_auth_sigs, binding_sig |-> b.binding_sig]
    <3> HIDE DEF b
    <3> QED
      BY <2>1 DEF SentBundle
  <2>3. /\ decode_shielded(sh).anchor = b.anchor /\ decode_shielded(sh).actions = b.actions
        /\ n[1] = b.proof /\ n[2] = b.spend_auth_sigs /\ n[3] = b.binding_sig
    BY <1>1, <1>2
  <2> HIDE DEF b, m
  <2>4. decode(sh, auth) = [anchor |-> decode_shielded(sh).anchor,
          actions |-> decode_shielded(sh).actions, proof |-> n[1], spend_auth_sigs |-> n[2],
          binding_sig |-> n[3]]
    BY DEF decode
  <2> HIDE DEF n
  <2>5. decode(sh, auth) = b
    BY <2>2, <2>3, <2>4
  <2> QED
    BY <2>5 DEF b
<1> QED
  BY <1>4, <1>5 DEF sh, auth

(* "One bundle has exactly one encoding": in every state, whatever was
   changed on the way, what `decode` of wire.rs takes is what `encode`
   writes for the bundle it returns; and the two parts a server has sent
   decode to its bundle.                                                   *)
THEOREM BundleHasOneEncodingHolds == RelaySpec => []BundleHasOneEncoding
<1>1. RelayTypeOK => BundleHasOneEncoding
  <2> SUFFICES ASSUME RelayTypeOK, NEW sh \in {BytesOf(body, SHIELDED_TRANSFER)} \ Atom
               PROVE  /\ authorization \notin Atom /\ decode_error(sh, authorization) = "Ok" =>
                           encode(decode(sh, authorization)) = <<sh, authorization>>
                      /\ <<sh, authorization>> = encode(sent.bundle) =>
                           /\ decode_error(sh, authorization) = "Ok"
                           /\ decode(sh, authorization) = sent.bundle
    BY DEF BundleHasOneEncoding
  <2>1. decode_error(sh, authorization) = "Ok" =>
          encode(decode(sh, authorization)) = <<sh, authorization>>
    BY ReencodedBundle
  <2>2. ASSUME <<sh, authorization>> = encode(sent.bundle)
        PROVE  decode_error(sh, authorization) = "Ok" /\ decode(sh, authorization) = sent.bundle
    <3>1. /\ sh = encode_shielded(sent.bundle.anchor, sent.bundle.actions)
          /\ authorization = encode_authorization(sent.bundle)
      BY <2>2 DEF encode
    <3> QED
      BY <3>1, BundleArrives DEF RelayTypeOK
  <2> QED
    BY <2>1, <2>2
<1> QED
  BY <1>1, RelayTyped, PTL

-----------------------------------------------------------------------------
(* An opening that decodes is written as it was.                           *)
LEMMA ReencodedOpening ==
  ASSUME NEW v, v = [j \in 1..9 |-> v[j]], OpeningDecodes(v), NEW o,
         o = [address |-> v[1], value |-> v[2], kind |-> NoteKinds[v[3] + 1],
              expiry_epoch |-> v[4], rseed |-> v[5], memo_cm |-> v[6], free_memo |-> v[7],
              memo |-> IF v[9] = <<>> THEN {} ELSE {[text |-> v[8], r_memo |-> v[9]]}]
  PROVE  <<o.address, o.value, IF o.kind = "Normal" THEN 0 ELSE 1, o.expiry_epoch,
           o.rseed, o.memo_cm, o.free_memo,
           OrEmpty({memo.text : memo \in o.memo}),
           OrEmpty({memo.r_memo : memo \in o.memo})>> = v
<1>1. /\ o.address = v[1] /\ o.value = v[2] /\ o.kind = NoteKinds[v[3] + 1]
      /\ o.expiry_epoch = v[4] /\ o.rseed = v[5] /\ o.memo_cm = v[6] /\ o.free_memo = v[7]
      /\ o.memo = IF v[9] = <<>> THEN {} ELSE {[text |-> v[8], r_memo |-> v[9]]}
  OBVIOUS
<1> DEFINE k == IF o.kind = "Normal" THEN 0 ELSE 1
           x == OrEmpty({memo.text : memo \in o.memo})
           y == OrEmpty({memo.r_memo : memo \in o.memo})
<1>2. k = v[3]
  <2>1. v[3] \in {0, 1}
    BY DEF OpeningDecodes
  <2>2. NoteKinds[0 + 1] = "Normal" /\ NoteKinds[1 + 1] = "Deferred"
    BY DEF NoteKinds
  <2> QED
    BY <1>1, <2>1, <2>2
<1>3. x = v[8] /\ y = v[9]
  <2>1. MemoDecodes(v)
    BY DEF OpeningDecodes
  <2>2. CASE v[9] = <<>>
    <3>1. v[8] = <<>> /\ o.memo = {}
      BY <1>1, <2>1, <2>2 DEF MemoDecodes
    <3>2. {memo.text : memo \in o.memo} = {} /\ {memo.r_memo : memo \in o.memo} = {}
      BY <3>1
    <3> QED
      BY <2>2, <3>1, <3>2, OrEmptyGives
  <2>3. CASE v[9] # <<>>
    <3>1. o.memo = {[text |-> v[8], r_memo |-> v[9]]}
      BY <1>1, <2>3
    <3>2. {memo.text : memo \in o.memo} = {v[8]} /\ {memo.r_memo : memo \in o.memo} = {v[9]}
      <4> DEFINE memos == o.memo
                 one == [text |-> v[8], r_memo |-> v[9]]
      <4>1. memos = {one} /\ one.text = v[8] /\ one.r_memo = v[9]
        BY <3>1
      <4> HIDE DEF memos, one
      <4>2. {memo.text : memo \in memos} = {v[8]} /\ {memo.r_memo : memo \in memos} = {v[9]}
        BY <4>1
      <4> QED
        BY <4>2 DEF memos
    <3> QED
      BY <3>2, OrEmptyGives
  <2> QED
    BY <2>2, <2>3
<1> HIDE DEF k, x, y
<1>4. <<o.address, o.value, k, o.expiry_epoch, o.rseed, o.memo_cm, o.free_memo, x, y>> =
        <<v[1], v[2], v[3], v[4], v[5], v[6], v[7], v[8], v[9]>>
  BY <1>1, <1>2, <1>3
<1>5. <<v[1], v[2], v[3], v[4], v[5], v[6], v[7], v[8], v[9]>> = v
  BY Tuples
<1> QED
  BY <1>4, <1>5 DEF k, x, y

(* A request that decodes is the one encoding of what it says.             *)
LEMMA ReencodedRequest ==
  ASSUME NEW b, request_decodes(b)
  PROVE  encode_request(decode_request(b)) = b
<1> DEFINE m == DecodeMessage(SigningRequestMessage, b)
           req == decode_request(b)
           wired == m[2]
           written == m[3]
           Back(o) == [address |-> o[1], value |-> o[2], kind |-> NoteKinds[o[3] + 1],
              expiry_epoch |-> o[4], rseed |-> o[5], memo_cm |-> o[6], free_memo |-> o[7],
              memo |-> IF o[9] = <<>> THEN {} ELSE {[text |-> o[8], r_memo |-> o[9]]}]
           outputs == [i \in DOMAIN wired |-> Back(wired[i])]
           alphas == [i \in DOMAIN written |-> {written[i]} \ {<<>>}]
<1>1. /\ MessageError(SigningRequestMessage, b, MAX_REQUEST_SIZE) = "Ok"
      /\ \A i \in DOMAIN wired : OpeningDecodes(wired[i])
  BY DEF request_decodes
<1>2. EncodeMessage(SigningRequestMessage, m) = b
  BY <1>1, Canonical
<1>3. req = [body |-> m[1], outputs |-> outputs, alphas |-> alphas]
  BY DEF decode_request
<1>4. IsDecoded(m, SigningRequestMessage, b)
  BY Decoded
<1> HIDE DEF m, req, Back
<1>5. /\ SigningRequestMessage[2].is = "repeated"
      /\ SigningRequestMessage[2].of = OutputOpeningMessage
      /\ SigningRequestMessage[3].is = "repeated bytes"
  BY OuterSchemas
<1>6. DOMAIN SigningRequestMessage = 1..3
  BY OuterSchemas
<1>7. /\ wired = [i \in DOMAIN wired |-> wired[i]]
      /\ \A i \in DOMAIN wired :
           wired[i] = Read1(OutputOpeningMessage, Fields(b, 2)[i].bytes, TRUE)
  <2>1. 2 \in DOMAIN SigningRequestMessage
    BY <1>6
  <2>2. /\ m[2] = [i \in DOMAIN m[2] |-> m[2][i]]
        /\ \A i \in DOMAIN m[2] :
             m[2][i] = Read1(SigningRequestMessage[2].of, Fields(b, 2)[i].bytes, TRUE)
    BY <1>4, <1>5, <2>1, Zenon DEF IsDecoded
  <2> QED
    BY <1>5, <2>2, Zenon
<1>8. written = [i \in DOMAIN written |-> written[i]]
  <2>1. 3 \in DOMAIN SigningRequestMessage
    BY <1>6
  <2> QED
    BY <1>4, <1>5, <2>1, Zenon DEF IsDecoded
<1> DEFINE Wired(o) == <<o.address, o.value, IF o.kind = "Normal" THEN 0 ELSE 1, o.expiry_epoch,
               o.rseed, o.memo_cm, o.free_memo,
               OrEmpty({memo.text : memo \in o.memo}),
               OrEmpty({memo.r_memo : memo \in o.memo})>>
           first == [i \in DOMAIN outputs |-> Wired(outputs[i])]
           second == [i \in DOMAIN alphas |-> OrEmpty(alphas[i])]
<1>9. encode_request(req) = EncodeMessage(SigningRequestMessage, <<m[1], first, second>>)
  <2>1. req.body = m[1] /\ req.outputs = outputs /\ req.alphas = alphas
    BY <1>3
  <2> HIDE DEF outputs, alphas
  <2> QED
    BY <2>1 DEF encode_request
<1>10. first = wired
  <2>1. ASSUME NEW i \in DOMAIN wired PROVE Wired(Back(wired[i])) = wired[i]
    <3> DEFINE v == wired[i]
    <3>1. OpeningDecodes(v) /\ v = [j \in 1..9 |-> v[j]]
      BY <1>1, <1>7, Schemas DEF Read1
    <3> HIDE DEF v
    <3>2. Wired(Back(v)) = v
      BY <3>1, ReencodedOpening DEF Back
    <3> QED
      BY <3>2 DEF v
  <2> HIDE DEF Wired
  <2>2. first = [i \in DOMAIN wired |-> Wired(Back(wired[i]))]
    OBVIOUS
  <2> HIDE DEF first, wired
  <2> QED
    BY <1>7, <2>1, <2>2
<1>11. second = written
  <2>1. ASSUME NEW i \in DOMAIN written PROVE OrEmpty({written[i]} \ {<<>>}) = written[i]
    <3> DEFINE w == written[i]
    <3> HIDE DEF w
    <3>1. CASE w = <<>>
      <4>1. {w} \ {<<>>} = {}
        BY <3>1
      <4> QED
        BY <3>1, <4>1, OrEmptyGives
    <3>2. CASE w # <<>>
      <4>1. {w} \ {<<>>} = {w}
        BY <3>2
      <4> QED
        BY <4>1, OrEmptyGives
    <3> QED
      BY <3>1, <3>2
  <2>2. second = [i \in DOMAIN written |-> OrEmpty({written[i]} \ {<<>>})]
    OBVIOUS
  <2> HIDE DEF second, written
  <2> QED
    BY <1>8, <2>1, <2>2
<1> HIDE DEF first, second
<1>12. <<m[1], first, second>> = m
  <2>1. m = [tag \in 1..3 |-> m[tag]]
    BY <1>4, <1>6 DEF IsDecoded
  <2>2. <<m[1], m[2], m[3]>> = m
    BY <2>1, Tuples
  <2> QED
    BY <1>10, <1>11, <2>2
<1>13. encode_request(req) = b
  BY <1>2, <1>9, <1>12
<1> QED
  BY <1>13 DEF req

(* In every state, what `SigningRequest::decode` takes is what `encode`
   writes for the request it returns, memos and rerandomisers that are
   left out included; and a request nobody has changed is taken, and is
   the one the server made.                                                *)
THEOREM RequestHasOneEncodingHolds == RelaySpec => []RequestHasOneEncoding
<1>1. RelayTypeOK => RequestHasOneEncoding
  <2> SUFFICES ASSUME RelayTypeOK PROVE RequestHasOneEncoding
    OBVIOUS
  <2>1. request_decodes(request) => encode_request(decode_request(request)) = request
    BY ReencodedRequest
  <2>2. request = encode_request(RequestOf(sent)) =>
          request_decodes(request) /\ decode_request(request) = RequestOf(sent)
    BY SentRequest DEF RelayTypeOK
  <2> QED
    BY <2>1, <2>2 DEF RequestHasOneEncoding
<1> QED
  BY <1>1, RelayTyped, PTL

-----------------------------------------------------------------------------
(* The bytes of the last field of a tag are of the levels of the others.   *)
LEMMA LastBytesLevels ==
  ASSUME NEW C, <<>> \in C, NEW b \in Seq(FieldOf(C)), NEW t
  PROVE  LastBytes(Fields(b, t)) \in Atom \cup C
<1> DEFINE fields == Fields(b, t)
<1>1. Listed(b) /\ Len(b) \in Nat /\ \A i \in 1..Len(b) : b[i] \in FieldOf(C)
  BY SequencesAreLists
<1>2. /\ Listed(fields)
      /\ \A j \in 1..Len(fields) : \E i \in 1..Len(b) : fields[j] = b[i]
  BY <1>1, FieldsAreListed
<1> HIDE DEF fields
<1>3. CASE fields = <<>>
  BY <1>3 DEF LastBytes, fields
<1>4. CASE fields # <<>>
  <2>1. Len(fields) \in 1..Len(fields)
    <3>1. Len(fields) \in Nat /\ Len(fields) # 0
      BY <1>2, <1>4, EmptyList, ListedProperties
    <3> QED
      BY <3>1
  <2>2. PICK i \in 1..Len(b) : fields[Len(fields)] = b[i]
    BY <1>2, <2>1
  <2>3. b[i].bytes \in Atom \cup C
    BY <1>1 DEF FieldOf
  <2>4. LastBytes(fields) = b[i].bytes
    BY <1>4, <2>2, Zenon DEF LastBytes, Last
  <2> QED
    BY <2>3, <2>4 DEF fields
<1> QED
  BY <1>3, <1>4

(* Checks of two lists one behind the other.                               *)
LEMMA JoinedChecks ==
  ASSUME NEW a, NEW b, Listed(a), Listed(b), FirstOf(a \o b) = "Ok"
  PROVE  (\A i \in 1..Len(a) : a[i] = "Ok") /\ \A i \in 1..Len(b) : b[i] = "Ok"
<1> DEFINE c == a \o b
<1>1. /\ Listed(c) /\ Len(c) = Len(a) + Len(b)
      /\ \A i \in 1..Len(a) : c[i] = a[i]
      /\ \A i \in 1..Len(b) : c[Len(a) + i] = b[i]
  BY Joining
<1> DEFINE m == Len(a)
           n == Len(b)
<1>2. m \in Nat /\ n \in Nat /\ FirstOf(c) = "Ok"
  BY ListedProperties
<1> HIDE DEF c, m, n
<1>3. \A i \in 1..(m + n) : c[i] = "Ok"
  BY <1>1, <1>2, FirstOfOk DEF m, n
<1>4. \A i \in 1..m : a[i] = "Ok"
  BY <1>1, <1>2, <1>3 DEF m
<1>5. ASSUME NEW i \in 1..n PROVE b[i] = "Ok"
  <2>1. m + i \in 1..(m + n)
    BY <1>2
  <2> QED
    BY <1>1, <1>3, <2>1 DEF m, n
<1> QED
  BY <1>4, <1>5 DEF m, n

(* Seven checks.                                                           *)
LEMMA ActionChecks ==
  ASSUME NEW v, ActionError(v) = "Ok"
  PROVE  /\ v[1] \in Point /\ v[2] \in Element /\ v[3] \in Point /\ v[4] \in Element
         /\ exactly(32, v[5]) = "Ok" /\ exactly(ENC_CIPHERTEXT_SIZE, v[6]) = "Ok"
         /\ exactly(OUT_CIPHERTEXT_SIZE, v[7]) = "Ok"
<1> DEFINE r == <<exactly(ENC_CIPHERTEXT_SIZE, v[6]), exactly(OUT_CIPHERTEXT_SIZE, v[7]),
                  base(v[4]), point(v[1]), base(v[2]), point(v[3]), exactly(32, v[5])>>
<1>1. FirstOf(r) = "Ok"
  BY DEF ActionError
<1>2. /\ DOMAIN r = 1..7 /\ r = [i \in 1..7 |-> r[i]]
      /\ r[1] = exactly(ENC_CIPHERTEXT_SIZE, v[6]) /\ r[2] = exactly(OUT_CIPHERTEXT_SIZE, v[7])
      /\ r[3] = base(v[4]) /\ r[4] = point(v[1]) /\ r[5] = base(v[2]) /\ r[6] = point(v[3])
      /\ r[7] = exactly(32, v[5])
  OBVIOUS
<1> HIDE DEF r
<1>3. Listed(r) /\ Len(r) = 7
  BY <1>2, Lists
<1>4. \A i \in 1..7 : r[i] = "Ok"
  BY <1>1, <1>3, FirstOfOk
<1>5. /\ base(v[4]) = "Ok" /\ point(v[1]) = "Ok" /\ base(v[2]) = "Ok" /\ point(v[3]) = "Ok"
      /\ exactly(ENC_CIPHERTEXT_SIZE, v[6]) = "Ok" /\ exactly(OUT_CIPHERTEXT_SIZE, v[7]) = "Ok"
      /\ exactly(32, v[5]) = "Ok"
  BY <1>2, <1>4
<1>6. \A x : base(x) = "Ok" => x \in Element
  BY Zenon DEF base
<1>7. \A x : point(x) = "Ok" => x \in Point
  BY Zenon DEF point
<1> QED
  BY <1>5, <1>6, <1>7

(* A bundle without an error has the shape of one that was written.        *)
LEMMA AcceptedFits ==
  ASSUME NEW b \in Atom \cup Message4, Decodable2(ShieldedBundle, b, TRUE), NEW m,
         m = DecodeMessage(ShieldedBundle, b), shielded_error(m) = "Ok"
  PROVE  FitsInside(ShieldedBundle, m, Message2, Message3)
<1>1. /\ m[4] = CIRCUIT_VERSION /\ m[3] = <<>> /\ AnchorError(m[1]) = "Ok"
      /\ FirstOf([i \in DOMAIN m[2] |-> ActionError(m[2][i])] \o <<base(AnchorOf(m[1]))>>) = "Ok"
  BY Zenon DEF shielded_error
<1>2. IsDecoded(m, ShieldedBundle, b)
  BY Decoded
<1>3. DOMAIN ShieldedBundle = 1..4 /\ IsSchema(ShieldedBundle)
  BY OuterSchemas
<1>4. /\ ShieldedBundle[1].is = "message" /\ ShieldedBundle[1].of = AnchorSchema
      /\ ShieldedBundle[2].is = "repeated" /\ ShieldedBundle[2].of = ActionSchema
      /\ ShieldedBundle[3].is = "bytes" /\ ShieldedBundle[4].is = "uint32"
  BY OuterSchemas
<1>5. b \in Seq(FieldOf(Message3)) /\ b \notin Atom
  BY Zenon DEF Decodable2, Decodable1, Message4
<1>6. /\ <<>> \in Message2 /\ <<>> \in Message3
  BY Levels DEF Contents
<1>7. m[1] = {} \/ \E x : m[1] = {Read1(AnchorSchema, x, TRUE)}
  <2>1. 1 \in DOMAIN ShieldedBundle
    BY <1>3
  <2>2. m[1] = {} \/ \E x : m[1] = {Read1(ShieldedBundle[1].of, x, TRUE)}
    BY <1>2, <1>4, <2>1, Zenon DEF IsDecoded
  <2> QED
    BY <1>4, <2>2, Zenon
<1>8. /\ m[2] = [i \in DOMAIN m[2] |-> m[2][i]] /\ DOMAIN m[2] = DOMAIN Fields(b, 2)
      /\ \A i \in DOMAIN m[2] :
           m[2][i] = Read1(ActionSchema, Fields(b, 2)[i].bytes, TRUE)
  <2>1. 2 \in DOMAIN ShieldedBundle
    BY <1>3
  <2>2. /\ m[2] = [i \in DOMAIN m[2] |-> m[2][i]] /\ DOMAIN m[2] = DOMAIN Fields(b, 2)
        /\ \A i \in DOMAIN m[2] :
             m[2][i] = Read1(ShieldedBundle[2].of, Fields(b, 2)[i].bytes, TRUE)
    BY <1>2, <1>4, <2>1, Zenon DEF IsDecoded
  <2> QED
    BY <1>4, <2>2, Zenon
<1> DEFINE wired == m[2]
           fields == Fields(b, 2)
           n == Len(fields)
<1>9. /\ Listed(fields) /\ n \in Nat
      /\ \A j \in 1..n : \E i \in 1..Len(b) : fields[j] = b[i] /\ b[i].tag = 2
  <2>1. Listed(b)
    BY <1>5, SequencesAreLists
  <2> QED
    BY <2>1, FieldsAreListed, ListedProperties
<1>10. DOMAIN wired = 1..n /\ Listed(wired) /\ Len(wired) = n
  <2>1. DOMAIN wired = 1..n /\ wired = [i \in 1..n |-> wired[i]]
    BY <1>8, <1>9, ListedProperties
  <2> HIDE DEF wired, n
  <2> QED
    BY <1>9, <2>1, Lists DEF n
<1> DEFINE errors == [i \in DOMAIN wired |-> ActionError(wired[i])]
           root == <<base(AnchorOf(m[1]))>>
<1>11. (\A i \in 1..n : ActionError(wired[i]) = "Ok") /\ base(AnchorOf(m[1])) = "Ok"
  <2>1. Listed(errors) /\ Len(errors) = n /\ \A i \in 1..n : errors[i] = ActionError(wired[i])
    <3>1. DOMAIN errors = 1..n /\ errors = [i \in 1..n |-> errors[i]]
          /\ \A i \in 1..n : errors[i] = ActionError(wired[i])
      BY <1>10
    <3> HIDE DEF errors, n
    <3> QED
      BY <1>9, <3>1, Lists DEF n
  <2>2. Listed(root) /\ Len(root) = 1 /\ root[1] = base(AnchorOf(m[1]))
    BY OneElement
  <2>3. FirstOf(errors \o root) = "Ok"
    BY <1>1
  <2> HIDE DEF errors, root
  <2>4. (\A i \in 1..Len(errors) : errors[i] = "Ok") /\ \A i \in 1..Len(root) : root[i] = "Ok"
    BY <2>1, <2>2, <2>3, JoinedChecks
  <2> QED
    BY <2>1, <2>2, <2>4
<1> HIDE DEF errors, root, wired, n
<1>12. \E v : m[1] = {v} /\ FitsAll(AnchorSchema, v, Message2)
  <2>1. m[1] # {} /\ \A anchor \in m[1] : anchor[2] = 0
    BY <1>1, Zenon DEF AnchorError
  <2>2. PICK x : m[1] = {Read1(AnchorSchema, x, TRUE)}
    BY <1>7, <2>1
  <2> DEFINE r == Read1(AnchorSchema, x, TRUE)
  <2>3. r = [i \in DOMAIN AnchorSchema |-> r[i]]
    BY Schemas DEF Read1
  <2>4. m[1] = {r}
    BY <2>2
  <2> HIDE DEF r
  <2>5. r[2] = 0 /\ (CHOOSE anchor \in m[1] : TRUE) = r
    BY <2>1, <2>4
  <2>6. AnchorOf(m[1]) = r[1]
    BY <2>5, Zenon DEF AnchorOf
  <2>7. \A z : base(z) = "Ok" => z \in Element
    BY Zenon DEF base
  <2>8. r[1] \in Atom
    BY <1>11, <2>6, <2>7, SentAtoms
  <2>9. IsSchema(AnchorSchema) /\ DOMAIN AnchorSchema = 1..2
    BY Schemas
  <2>10. AnchorSchema[1].is = "bytes" /\ AnchorSchema[2].is = "uint32"
    BY Schemas
  <2>11. Fits(AnchorSchema[1], r[1], Message2)
    BY <2>8, <2>10 DEF Fits
  <2>12. Fits(AnchorSchema[2], r[2], Message2)
    BY <2>5, <2>10, WireAssumption DEF Fits, WireAssumption
  <2>13. FitsAll(AnchorSchema, r, Message2)
    BY <2>3, <2>9, <2>11, <2>12 DEF FitsAll
  <2> QED
    BY <2>4, <2>13
<1>13. ASSUME NEW i \in 1..n PROVE FitsAll(ActionSchema, wired[i], Message2)
  <2> DEFINE v == wired[i]
             x == fields[i].bytes
  <2>1. v = Read1(ActionSchema, x, TRUE)
    BY <1>8, <1>10 DEF wired
  <2>2. x \in Seq(FieldOf(Message2))
    <3>1. PICK k \in 1..Len(b) : fields[i] = b[k] /\ b[k].tag = 2
      BY <1>9
    <3>2. k \in DOMAIN b /\ b[k] \in FieldOf(Message3)
      BY <1>5
    <3>3. k \in Nested(ShieldedBundle, b)
      BY <1>3, <1>4, <3>1, <3>2 DEF Nested, IsNested
    <3>4. b[k].bytes \notin Atom
      BY <3>3, Zenon DEF Decodable2, Decodable1
    <3>5. b[k].bytes \in Message3
      BY <3>2, <3>4 DEF FieldOf
    <3> QED
      BY <3>1, <3>5 DEF Message3
  <2> HIDE DEF fields, x
  <2>3. DOMAIN ActionSchema = 1..7 /\ IsSchema(ActionSchema)
    BY Schemas
  <2>4. \A j \in 1..7 : ActionSchema[j].is = "bytes"
    BY Schemas
  <2>5. v = [j \in DOMAIN ActionSchema |-> v[j]]
    BY <2>1 DEF Read1
  <2>6. \A j \in 1..7 : v[j] = LastBytes(Fields(x, j))
    BY <2>1, <2>3, <2>4 DEF Read1, ValueOf
  <2> HIDE DEF v
  <2>7. \A j \in 1..7 : v[j] \in Atom \cup Message2
    BY <1>6, <2>2, <2>6, LastBytesLevels
  <2>8. \A j \in 1..7 : Fits(ActionSchema[j], v[j], Message2)
    BY <2>4, <2>7 DEF Fits
  <2>9. FitsAll(ActionSchema, v, Message2)
    BY <2>3, <2>5, <2>8 DEF FitsAll
  <2> QED
    BY <2>9 DEF v
<1>14. Fits(ShieldedBundle[3], m[3], Message3)
  BY <1>1, <1>4, <1>6 DEF Fits
<1>15. Fits(ShieldedBundle[4], m[4], Message3)
  BY <1>1, <1>4, WireAssumption DEF Fits, WireAssumption
<1>16. m = [tag \in DOMAIN ShieldedBundle |-> m[tag]]
  BY <1>2 DEF IsDecoded
<1>17. Seq(FieldOf(Message2)) \subseteq Message3
  BY DEF Message3
<1>18. Listed(m[2]) /\ \A i \in DOMAIN m[2] : FitsAll(ActionSchema, m[2][i], Message2)
  BY <1>10, <1>13 DEF wired
<1> DEFINE At(tag) ==
     CASE ShieldedBundle[tag].is = "message" ->
            \/ m[tag] = {}
            \/ \E v : m[tag] = {v} /\ FitsAll(ShieldedBundle[tag].of, v, Message2)
       [] ShieldedBundle[tag].is = "repeated" ->
            /\ Listed(m[tag])
            /\ \A i \in DOMAIN m[tag] : FitsAll(ShieldedBundle[tag].of, m[tag][i], Message2)
       [] OTHER -> Fits(ShieldedBundle[tag], m[tag], Message3)
<1>19. At(1)
  BY <1>4, <1>12
<1>20. At(2)
  BY <1>4, <1>18
<1>21. At(3)
  BY <1>4, <1>14
<1>22. At(4)
  BY <1>4, <1>15
<1>23. \A tag \in DOMAIN ShieldedBundle : At(tag)
  BY <1>3, <1>19, <1>20, <1>21, <1>22
<1> HIDE DEF At
<1> QED
  BY <1>3, <1>16, <1>17, <1>23 DEF FitsInside, At

(* Who merges and who replaces reads the same in a bundle without error.   *)
LEMMA BothReadTheBundle ==
  ASSUME NEW b \in Atom \cup Message4, NEW limit,
         MessageError(ShieldedBundle, b, limit) = "Ok",
         shielded_error(DecodeMessage(ShieldedBundle, b)) = "Ok", NEW merges
  PROVE  Read2(ShieldedBundle, b, merges) = DecodeMessage(ShieldedBundle, b)
<1> DEFINE m == DecodeMessage(ShieldedBundle, b)
<1>1. EncodeMessage(ShieldedBundle, m) = b /\ Decodable2(ShieldedBundle, b, TRUE)
  BY Canonical
<1>2. FitsInside(ShieldedBundle, m, Message2, Message3)
  BY <1>1, AcceptedFits
<1>3. Contents(Message2) /\ Contents(Message3) /\ WORD32 \in Nat
  BY Levels, WireAssumption DEF WireAssumption
<1> HIDE DEF m
<1>4. Read2(ShieldedBundle, EncodeMessage(ShieldedBundle, m), merges) = m
  BY <1>2, <1>3, RoundTrip2
<1> QED
  BY <1>1, <1>4 DEF m

-----------------------------------------------------------------------------
(* A tag that no field shares with an earlier one occurs once, or not.     *)
LEMMA AtMostOne ==
  ASSUME NEW b, Listed(b), NEW t, \A i \in 1..Len(b) : b[i].tag = t => Once(b, i)
  PROVE  \/ Fields(b, t) = <<>>
         \/ \E k \in 1..Len(b) : /\ b[k].tag = t /\ Fields(b, t) = <<b[k]>>
                                 /\ \A i \in 1..Len(b) : b[i].tag = t => i = k
<1>1. CASE \A i \in 1..Len(b) : b[i].tag # t
  BY <1>1, NoFields
<1>2. CASE ~ \A i \in 1..Len(b) : b[i].tag # t
  <2>1. PICK k \in 1..Len(b) : b[k].tag = t
    BY <1>2
  <2>2. Len(b) \in Nat
    BY ListedProperties
  <2>3. ASSUME NEW i \in 1..Len(b), i # k PROVE b[i].tag # t
    <3>1. i \in Int /\ k \in Int /\ i >= 1 /\ k >= 1
      BY <2>2
    <3>2. CASE i < k
      <4>1. i \in 1..(k - 1) /\ Once(b, k)
        BY <2>1, <3>1, <3>2
      <4> QED
        BY <2>1, <4>1 DEF Once
    <3>3. CASE k < i
      <4>1. k \in 1..(i - 1)
        BY <3>1, <3>3
      <4> QED
        BY <2>1, <4>1 DEF Once
    <3> QED
      BY <2>3, <3>1, <3>2, <3>3
  <2>4. Fields(b, t) = <<b[k]>>
    BY <2>1, <2>3, OneField
  <2> QED
    BY <2>1, <2>3, <2>4
<1> QED
  BY <1>1, <1>2

(* What one field, or none, comes to for every reader.                     *)
LEMMA OneValue ==
  ASSUME NEW f, Listed(f.bytes), NEW merges
  PROVE  /\ LastNumber(<<f>>) = ReadVarint(f.number) /\ LastBytes(<<f>>) = f.bytes
         /\ \A of : ValueOf(MessageOf(of), <<f>>, merges) = {f.bytes}
<1> DEFINE fields == <<f>>
<1>1. Listed(fields) /\ Len(fields) = 1 /\ fields[1] = f /\ DOMAIN fields = 1..1 /\ fields # <<>>
  <2>1. Listed(fields) /\ Len(fields) = 1 /\ fields[1] = f
    BY OneElement
  <2> QED
    BY <2>1, ListedProperties
<1> HIDE DEF fields
<1>2. LastNumber(fields) = ReadVarint(f.number) /\ LastBytes(fields) = f.bytes
  BY <1>1, Zenon DEF LastNumber, LastBytes, Last
<1> DEFINE contents == [i \in DOMAIN fields |-> fields[i].bytes]
<1>3. FlattenSeq(contents) = f.bytes
  <2>1. DOMAIN contents = 1..1 /\ contents = [i \in 1..1 |-> contents[i]] /\ contents[1] = f.bytes
    BY <1>1
  <2> HIDE DEF contents
  <2>2. Listed(contents) /\ Len(contents) = 1
    BY <2>1, Lists
  <2>3. 1 \in 1..1 /\ \A i \in 1..1 : i # 1 => contents[i] = <<>>
    OBVIOUS
  <2> QED
    BY <2>1, <2>2, <2>3, OnePart
<1>4. ASSUME NEW of PROVE ValueOf(MessageOf(of), fields, merges) = {f.bytes}
  <2>1. MessageOf(of).is = "message"
    BY DEF MessageOf
  <2>2. ValueOf(MessageOf(of), fields, merges) =
          IF fields = <<>> THEN {}
          ELSE {IF merges THEN FlattenSeq(contents) ELSE LastBytes(fields)}
    BY <2>1 DEF ValueOf
  <2> HIDE DEF contents
  <2> QED
    BY <1>1, <1>2, <1>3, <2>2, Zenon
<1> QED
  BY <1>2, <1>4 DEF fields

(* What the fields of a tag come to, of each kind.                         *)
LEMMA ValuesOfKinds ==
  /\ \A field, fields, merges : field.is = "uint64" =>
       ValueOf(field, fields, merges) = LastNumber(fields)
  /\ \A field, fields, merges : field.is = "uint32" =>
       ValueOf(field, fields, merges) = LastNumber(fields) % WORD32
  /\ \A field, fields, merges : field.is = "bytes" =>
       ValueOf(field, fields, merges) = LastBytes(fields)
<1>1. \A field, fields, merges : field.is = "uint64" =>
        ValueOf(field, fields, merges) = LastNumber(fields)
  BY DEF ValueOf
<1>2. \A field, fields, merges : field.is = "uint32" =>
        ValueOf(field, fields, merges) = LastNumber(fields) % WORD32
  BY DEF ValueOf
<1>3. \A field, fields, merges : field.is = "bytes" =>
        ValueOf(field, fields, merges) = LastBytes(fields)
  BY DEF ValueOf
<1> QED
  BY <1>1, <1>2, <1>3

(* A time that the device takes: a number of seconds and nothing else.     *)
LEMMA TimestampReads ==
  ASSUME NEW b \in Atom \cup Message4, parse_timestamp_error(b) = "Ok", NEW merges
  PROVE  /\ Listed(b) /\ Decodable2(TimestampSchema, b, FALSE)
         /\ Read2(TimestampSchema, b, merges) = <<NumberOf(b, 1), 0>>
<1>1. /\ b \notin Atom /\ NumberOf(b, 2) = 0
      /\ \A i \in DOMAIN b : b[i].type = "varint" /\ b[i].tag \in {1, 2}
  BY Zenon DEF parse_timestamp_error
<1>2. Listed(b)
  BY <1>1, Levels DEF Contents
<1>3. DOMAIN TimestampSchema = 1..2
  BY Schemas
<1>4. TimestampSchema[1].is = "uint64" /\ TimestampSchema[2].is = "uint32"
  BY Schemas
<1>5. \A t \in 1..2 : IsNumber(TimestampSchema[t]) /\ ~IsNested(TimestampSchema[t])
  BY <1>4 DEF IsNumber, IsNested
<1>6. Decodable1(TimestampSchema, b, FALSE)
  BY <1>1, <1>3, <1>5, Zenon DEF Decodable1
<1>7. Nested(TimestampSchema, b) = {}
  BY <1>3, <1>5 DEF Nested
<1>8. Decodable2(TimestampSchema, b, FALSE)
  BY <1>6, <1>7, Zenon DEF Decodable2
<1> DEFINE raw == Read1(TimestampSchema, b, merges)
           back == Read2(TimestampSchema, b, merges)
<1>9. raw[1] = NumberOf(b, 1) /\ raw[2] = NumberOf(b, 2) % WORD32
  <2>1. /\ raw[1] = ValueOf(TimestampSchema[1], Fields(b, 1), merges)
        /\ raw[2] = ValueOf(TimestampSchema[2], Fields(b, 2), merges)
    BY <1>3 DEF Read1
  <2>2. ValueOf(TimestampSchema[1], Fields(b, 1), merges) = LastNumber(Fields(b, 1))
    BY <1>4, ValuesOfKinds
  <2>3. ValueOf(TimestampSchema[2], Fields(b, 2), merges) = LastNumber(Fields(b, 2)) % WORD32
    BY <1>4, ValuesOfKinds
  <2> QED
    BY <2>1, <2>2, <2>3, Zenon DEF NumberOf
<1>10. back = [t \in 1..2 |-> back[t]] /\ back[1] = raw[1] /\ back[2] = raw[2]
  <2> HIDE DEF raw
  <2>1. back = Inside(TimestampSchema, raw, LAMBDA of, x : Read1(of, x, merges))
    BY DEF Read2, raw
  <2> QED
    BY <1>3, <1>4, <2>1 DEF Inside
<1> HIDE DEF raw, back
<1>11. 0 % WORD32 = 0
  <2>1. WORD32 \in Nat /\ WORD32 > 0
    BY WireAssumption DEF WireAssumption
  <2> QED
    BY <2>1
<1>12. <<back[1], back[2]>> = back
  BY <1>10, Tuples
<1>13. back = <<NumberOf(b, 1), 0>>
  BY <1>1, <1>9, <1>10, <1>11, <1>12
<1> QED
  BY <1>2, <1>8, <1>13 DEF back

-----------------------------------------------------------------------------
(* The body as a general reader knows it.                                  *)
LEMMA BodySchema ==
  /\ DOMAIN TransactionBody = 1..6
  /\ TransactionBody[1].is = "repeated bytes"
  /\ TransactionBody[2] = MessageOf(TimestampSchema) /\ TransactionBody[2].is = "message"
  /\ TransactionBody[2].of = TimestampSchema
  /\ TransactionBody[3].is = "uint32" /\ TransactionBody[4].is = "uint32"
  /\ TransactionBody[5].is = "bytes"
  /\ TransactionBody[6] = MessageOf(ShieldedBundle) /\ TransactionBody[6].is = "message"
  /\ TransactionBody[6].of = ShieldedBundle
<1> HIDE DEF TimestampSchema, ShieldedBundle
<1>1. DOMAIN TransactionBody = 1..6
  BY DEF TransactionBody
<1>2. TransactionBody[1].is = "repeated bytes"
  BY DEF TransactionBody, Is
<1>3. /\ TransactionBody[2] = MessageOf(TimestampSchema)
      /\ TransactionBody[6] = MessageOf(ShieldedBundle)
  BY DEF TransactionBody
<1>4. TransactionBody[3].is = "uint32" /\ TransactionBody[4].is = "uint32"
  BY DEF TransactionBody, Is
<1>5. TransactionBody[5].is = "bytes"
  BY DEF TransactionBody, Is
<1>6. \A of : MessageOf(of).is = "message" /\ MessageOf(of).of = of
  BY DEF MessageOf
<1> QED
  BY <1>1, <1>2, <1>3, <1>4, <1>5, <1>6

(* What the device has looked at in every field of a body that it takes.   *)
FieldsChecked(b) ==
  \A i \in 1..Len(b) :
    /\ Known(b[i])
    /\ b[i].tag = CREATED_AT => parse_timestamp_error(b[i].bytes) = "Ok"
    /\ b[i].tag = VERSION_NUMBER => ~(ReadVarint(b[i].number) >= WORD32)
    /\ b[i].tag # MEMOS => Once(b, i)
LEMMA DeviceFields ==
  ASSUME NEW b \in Message5, parse_transfer_body_error(b) = "Ok"
  PROVE  /\ b \notin Atom /\ Listed(b) /\ FieldsChecked(b)
         /\ NumberOf(b, TYPE) = 0 /\ BytesOf(b, OTHER_COMMUNITY_UUID) = <<>>
         /\ Fields(b, CREATED_AT) # <<>> /\ Fields(b, SHIELDED_TRANSFER) # <<>>
<1> DEFINE errors == [i \in DOMAIN b |-> FieldError(b, i)]
<1>1. /\ b \notin Atom /\ FirstOf(errors) = "Ok"
      /\ NumberOf(b, TYPE) = 0 /\ BytesOf(b, OTHER_COMMUNITY_UUID) = <<>>
      /\ Fields(b, CREATED_AT) # <<>> /\ Fields(b, SHIELDED_TRANSFER) # <<>>
  BY Zenon DEF parse_transfer_body_error
<1> DEFINE n == Len(b)
<1>2. Listed(b) /\ n \in Nat /\ DOMAIN b = 1..n
  BY SequencesAreLists DEF Message5
<1>3. \A i \in 1..n : FieldError(b, i) = "Ok"
  <2>1. DOMAIN errors = 1..n /\ errors = [i \in 1..n |-> errors[i]]
        /\ \A i \in 1..n : errors[i] = FieldError(b, i)
    BY <1>2
  <2> HIDE DEF errors, n
  <2>2. Listed(errors) /\ Len(errors) = n
    BY <1>2, <2>1, Lists
  <2> QED
    BY <1>1, <2>1, <2>2, FirstOfOk
<1> HIDE DEF errors, n
<1>4. ASSUME NEW i \in 1..n
      PROVE  /\ Known(b[i])
             /\ b[i].tag = CREATED_AT => parse_timestamp_error(b[i].bytes) = "Ok"
             /\ b[i].tag = VERSION_NUMBER => ~(ReadVarint(b[i].number) >= WORD32)
             /\ b[i].tag # MEMOS => Once(b, i)
  <2> DEFINE t == b[i].tag
             time == parse_timestamp_error(b[i].bytes)
             duplicate == IF t = MEMOS \/ Once(b, i) THEN "Ok" ELSE "NotCanonical"
             checked == CASE t = CREATED_AT -> FirstOf(<<time, duplicate>>)
                          [] t = VERSION_NUMBER ->
                               IF ReadVarint(b[i].number) >= WORD32 THEN "Protobuf" ELSE duplicate
                          [] OTHER -> duplicate
  <2>1. FieldError(b, i) = IF ~Known(b[i]) THEN "UnsupportedBody" ELSE checked
    BY DEF FieldError
  <2>2. Known(b[i]) /\ checked = "Ok"
    <3> HIDE DEF checked
    <3> QED
      BY <1>3, <2>1, Zenon
  <2>3. duplicate = "Ok" => (t # MEMOS => Once(b, i))
    BY Zenon
  <2> HIDE DEF time, duplicate
  <2>4. t = CREATED_AT => time = "Ok" /\ duplicate = "Ok"
    <3>1. t = CREATED_AT => FirstOf(<<time, duplicate>>) = "Ok"
      BY <2>2 DEF CREATED_AT, VERSION_NUMBER
    <3> QED
      BY <3>1, TwoChecks
  <2>5. t = VERSION_NUMBER => ~(ReadVarint(b[i].number) >= WORD32) /\ duplicate = "Ok"
    <3>1. t = VERSION_NUMBER => (IF ReadVarint(b[i].number) >= WORD32 THEN "Protobuf" ELSE duplicate) = "Ok"
      BY <2>2 DEF CREATED_AT, VERSION_NUMBER
    <3> QED
      BY <3>1, Zenon
  <2>6. t # CREATED_AT /\ t # VERSION_NUMBER => duplicate = "Ok"
    BY <2>2 DEF CREATED_AT, VERSION_NUMBER
  <2> QED
    BY <2>2, <2>3, <2>4, <2>5, <2>6, Zenon DEF time
<1>5. FieldsChecked(b)
  BY <1>4 DEF FieldsChecked, n
<1> QED
  BY <1>1, <1>2, <1>5

(* Every reader finds all fields of such a body where the device does.     *)
LEMMA DeviceReads ==
  ASSUME NEW b \in Message5, DeviceAccepts(b)
  PROVE  \E c, k \in 1..Len(b) :
           /\ b[c].tag = CREATED_AT /\ Fields(b, CREATED_AT) = <<b[c]>>
           /\ b[k].tag = SHIELDED_TRANSFER /\ Fields(b, SHIELDED_TRANSFER) = <<b[k]>>
           /\ \A i \in 1..Len(b) : b[i].tag = SHIELDED_TRANSFER => i = k
           /\ b[c].bytes \in Atom \cup Message4 /\ b[k].bytes \in Atom \cup Message4
           /\ parse_timestamp_error(b[c].bytes) = "Ok" /\ Listed(b[k].bytes)
           /\ MessageError(ShieldedBundle, b[k].bytes, MAX_SHIELDED_BUNDLE_SIZE) = "Ok"
           /\ shielded_error(DecodeMessage(ShieldedBundle, b[k].bytes)) = "Ok"
           /\ parse_transfer_body(b) =
                [created_at |-> NumberOf(b[c].bytes, 1), version_number |-> NumberOf(b, VERSION_NUMBER),
                 shielded |-> b[k].bytes, memos |-> Len(Fields(b, MEMOS))]
<1>1. /\ Listed(b) /\ FieldsChecked(b)
      /\ Fields(b, CREATED_AT) # <<>> /\ Fields(b, SHIELDED_TRANSFER) # <<>>
  BY DeviceFields DEF DeviceAccepts
<1>2. \A i \in 1..Len(b) : b[i].bytes \in Atom \cup Message4
  <2>1. \A i \in 1..Len(b) : b[i] \in FieldOf(Message4)
    BY SequencesAreLists DEF Message5
  <2> QED
    BY <2>1 DEF FieldOf
<1>3. MEMOS # CREATED_AT /\ MEMOS # SHIELDED_TRANSFER
  BY DEF MEMOS, CREATED_AT, SHIELDED_TRANSFER
<1>4. PICK c \in 1..Len(b) : b[c].tag = CREATED_AT /\ Fields(b, CREATED_AT) = <<b[c]>>
  <2>1. \A i \in 1..Len(b) : b[i].tag = CREATED_AT => Once(b, i)
    BY <1>1, <1>3 DEF FieldsChecked
  <2> QED
    BY <1>1, <2>1, AtMostOne
<1>5. PICK k \in 1..Len(b) : /\ b[k].tag = SHIELDED_TRANSFER
                             /\ Fields(b, SHIELDED_TRANSFER) = <<b[k]>>
                             /\ \A i \in 1..Len(b) : b[i].tag = SHIELDED_TRANSFER => i = k
  <2>1. \A i \in 1..Len(b) : b[i].tag = SHIELDED_TRANSFER => Once(b, i)
    BY <1>1, <1>3 DEF FieldsChecked
  <2> QED
    BY <1>1, <2>1, AtMostOne
<1> DEFINE ts == b[c].bytes
           sh == b[k].bytes
<1>6. parse_timestamp_error(ts) = "Ok"
  BY <1>1, <1>4 DEF FieldsChecked
<1>7. \A f : LastBytes(<<f>>) = f.bytes
  <2> TAKE f
  <2> DEFINE fields == <<f>>
  <2>1. Len(fields) = 1 /\ fields[1] = f /\ fields # <<>>
    BY OneElement, EmptyList
  <2> HIDE DEF fields
  <2>2. LastBytes(fields) = f.bytes
    BY <2>1, Zenon DEF LastBytes, Last
  <2> QED
    BY <2>2 DEF fields
<1>8. BytesOf(b, CREATED_AT) = ts /\ BytesOf(b, SHIELDED_TRANSFER) = sh
  BY <1>4, <1>5, <1>7, Zenon DEF BytesOf
<1>9. parse_transfer_body(b) =
        [created_at |-> NumberOf(ts, 1), version_number |-> NumberOf(b, VERSION_NUMBER),
         shielded |-> sh, memos |-> Len(Fields(b, MEMOS))]
  BY <1>8, Zenon DEF parse_transfer_body
<1>10. decode_shielded_error(sh) = "Ok"
  <2>1. parse_transfer_body(b).shielded = sh
    BY <1>8 DEF parse_transfer_body
  <2> QED
    BY <2>1, Zenon DEF DeviceAccepts
<1>11. /\ MessageError(ShieldedBundle, sh, MAX_SHIELDED_BUNDLE_SIZE) = "Ok"
       /\ shielded_error(DecodeMessage(ShieldedBundle, sh)) = "Ok"
  BY <1>10, Zenon DEF decode_shielded_error
<1>12. Listed(sh)
  <2>1. sh \notin Atom
    <3> HIDE DEF sh
    <3>1. Decodable2(ShieldedBundle, sh, TRUE)
      BY <1>11, Canonical
    <3> QED
      BY <3>1, Zenon DEF Decodable2, Decodable1
  <2> QED
    BY <1>2, <1>5, <2>1, Levels DEF Contents
<1> HIDE DEF ts, sh
<1> QED
  BY <1>2, <1>4, <1>5, <1>6, <1>9, <1>11, <1>12 DEF ts, sh

(* Whoever merges and whoever replaces reads what the device reads.        *)
LEMMA BodyReads ==
  ASSUME NEW b \in Message5, DeviceAccepts(b), NEW merges,
         NEW device, device = parse_transfer_body(b), NEW node, node = GeneralReading(b, merges)
  PROVE  /\ Len(node[1]) = device.memos
         /\ node[2] = {<<device.created_at, 0>>}
         /\ node[3] = device.version_number
         /\ node[4] = 0 /\ node[5] = <<>>
         /\ node[6] = {DecodeMessage(ShieldedBundle, device.shielded)}
<1>1. PICK c \in 1..Len(b), k \in 1..Len(b) :
        /\ b[c].tag = CREATED_AT /\ Fields(b, CREATED_AT) = <<b[c]>>
        /\ b[k].tag = SHIELDED_TRANSFER /\ Fields(b, SHIELDED_TRANSFER) = <<b[k]>>
        /\ \A i \in 1..Len(b) : b[i].tag = SHIELDED_TRANSFER => i = k
        /\ b[c].bytes \in Atom \cup Message4 /\ b[k].bytes \in Atom \cup Message4
        /\ parse_timestamp_error(b[c].bytes) = "Ok" /\ Listed(b[k].bytes)
        /\ MessageError(ShieldedBundle, b[k].bytes, MAX_SHIELDED_BUNDLE_SIZE) = "Ok"
        /\ shielded_error(DecodeMessage(ShieldedBundle, b[k].bytes)) = "Ok"
        /\ device =
             [created_at |-> NumberOf(b[c].bytes, 1), version_number |-> NumberOf(b, VERSION_NUMBER),
              shielded |-> b[k].bytes, memos |-> Len(Fields(b, MEMOS))]
  BY DeviceReads
<1> DEFINE ts == b[c].bytes
           sh == b[k].bytes
           raw == Read1(TransactionBody, b, merges)
<1>2. /\ Listed(b) /\ FieldsChecked(b)
      /\ NumberOf(b, TYPE) = 0 /\ BytesOf(b, OTHER_COMMUNITY_UUID) = <<>>
  BY DeviceFields DEF DeviceAccepts
<1>3. /\ device.created_at = NumberOf(ts, 1) /\ device.version_number = NumberOf(b, VERSION_NUMBER)
      /\ device.shielded = sh /\ device.memos = Len(Fields(b, MEMOS))
  BY <1>1
<1>4. /\ Listed(ts) /\ Read2(TimestampSchema, ts, merges) = <<NumberOf(ts, 1), 0>>
  BY <1>1, TimestampReads
<1>5. Read2(ShieldedBundle, sh, merges) = DecodeMessage(ShieldedBundle, sh)
  BY <1>1, BothReadTheBundle
<1>6. DOMAIN TransactionBody = 1..6
  BY BodySchema
<1>7. \A t \in 1..6 : raw[t] = ValueOf(TransactionBody[t], Fields(b, t), merges)
  BY <1>6 DEF Read1
<1>8. raw[2] = {ts}
  <2> DEFINE f == b[c]
  <2>1. ValueOf(TransactionBody[2], <<f>>, merges) = {ts}
    <3>1. Listed(f.bytes) /\ f.bytes = ts
      BY <1>4
    <3> HIDE DEF f, ts
    <3>2. ValueOf(MessageOf(TimestampSchema), <<f>>, merges) = {f.bytes}
      BY <3>1, OneValue
    <3> QED
      BY <3>1, <3>2, BodySchema, Zenon
  <2>2. Fields(b, 2) = <<b[c]>>
    BY <1>1 DEF CREATED_AT
  <2> QED
    BY <1>7, <2>1, <2>2
<1>9. raw[6] = {sh}
  <2> DEFINE f == b[k]
  <2>1. ValueOf(TransactionBody[6], <<f>>, merges) = {sh}
    <3>1. Listed(f.bytes) /\ f.bytes = sh
      BY <1>1
    <3> HIDE DEF f, sh
    <3>2. ValueOf(MessageOf(ShieldedBundle), <<f>>, merges) = {f.bytes}
      BY <3>1, OneValue
    <3> QED
      BY <3>1, <3>2, BodySchema, Zenon
  <2>2. Fields(b, 6) = <<b[k]>>
    BY <1>1 DEF SHIELDED_TRANSFER
  <2> QED
    BY <1>7, <2>1, <2>2
<1>10. 0 % WORD32 = 0 /\ \A n \in Nat : n < WORD32 => n % WORD32 = n
  <2>1. WORD32 \in Nat /\ WORD32 > 0
    BY WireAssumption DEF WireAssumption
  <2> QED
    BY <2>1
<1>11. raw[3] = NumberOf(b, VERSION_NUMBER)
  <2>1. TransactionBody[3].is = "uint32"
    BY BodySchema
  <2>2. ValueOf(TransactionBody[3], Fields(b, 3), merges) = LastNumber(Fields(b, 3)) % WORD32
    BY <2>1, ValuesOfKinds
  <2>3. LastNumber(Fields(b, 3)) % WORD32 = LastNumber(Fields(b, 3))
    <3>1. \A i \in 1..Len(b) : b[i].tag = 3 => Once(b, i)
      BY <1>2 DEF FieldsChecked, MEMOS
    <3>2. CASE Fields(b, 3) = <<>>
      <4>1. LastNumber(Fields(b, 3)) = 0
        BY <3>2, Zenon DEF LastNumber
      <4> QED
        BY <1>10, <4>1
    <3>3. CASE Fields(b, 3) # <<>>
      <4>1. PICK v \in 1..Len(b) : b[v].tag = 3 /\ Fields(b, 3) = <<b[v]>>
        BY <1>2, <3>1, <3>3, AtMostOne
      <4>2. LastNumber(Fields(b, 3)) = ReadVarint(b[v].number)
        <5> DEFINE fields == <<b[v]>>
        <5>1. Len(fields) = 1 /\ fields[1] = b[v] /\ fields # <<>>
          BY OneElement, EmptyList
        <5> HIDE DEF fields
        <5>2. LastNumber(fields) = ReadVarint(b[v].number)
          BY <5>1, Zenon DEF LastNumber, Last
        <5> QED
          BY <4>1, <5>2 DEF fields
      <4>3. b[v] \in FieldOf(Message4)
        BY SequencesAreLists DEF Message5
      <4>4. b[v].number \in 0..(64 * WORD64 - 1)
        BY <4>3 DEF FieldOf
      <4>5. ReadVarint(b[v].number) \in Nat
        BY <4>4, WordsFit DEF ReadVarint
      <4>6. ~(ReadVarint(b[v].number) >= WORD32)
        BY <1>2, <4>1 DEF FieldsChecked, VERSION_NUMBER
      <4> HIDE DEF ReadVarint
      <4>7. ReadVarint(b[v].number) % WORD32 = ReadVarint(b[v].number)
        BY <1>10, <4>5, <4>6, WordsFit
      <4> QED
        BY <4>2, <4>7
    <3> QED
      BY <3>2, <3>3
  <2>4. raw[3] = ValueOf(TransactionBody[3], Fields(b, 3), merges)
    BY <1>7
  <2> HIDE DEF raw
  <2> QED
    BY <2>2, <2>3, <2>4, Zenon DEF NumberOf, VERSION_NUMBER
<1>12. raw[4] = 0
  <2>1. TransactionBody[4].is = "uint32"
    BY BodySchema
  <2>2. ValueOf(TransactionBody[4], Fields(b, 4), merges) = LastNumber(Fields(b, 4)) % WORD32
    BY <2>1, ValuesOfKinds
  <2>3. LastNumber(Fields(b, 4)) = 0
    BY <1>2, Zenon DEF NumberOf, TYPE
  <2>4. raw[4] = ValueOf(TransactionBody[4], Fields(b, 4), merges)
    BY <1>7
  <2> HIDE DEF raw
  <2> QED
    BY <1>10, <2>2, <2>3, <2>4, Zenon
<1>13. raw[5] = <<>>
  <2>1. TransactionBody[5].is = "bytes"
    BY BodySchema
  <2>2. ValueOf(TransactionBody[5], Fields(b, 5), merges) = LastBytes(Fields(b, 5))
    BY <2>1, ValuesOfKinds
  <2>3. LastBytes(Fields(b, 5)) = <<>>
    BY <1>2, Zenon DEF BytesOf, OTHER_COMMUNITY_UUID
  <2>4. raw[5] = ValueOf(TransactionBody[5], Fields(b, 5), merges)
    BY <1>7
  <2> HIDE DEF raw
  <2> QED
    BY <2>2, <2>3, <2>4, Zenon
<1>14. Len(raw[1]) = Len(Fields(b, MEMOS))
  <2> DEFINE fields == Fields(b, 1)
             contents == [i \in DOMAIN fields |-> fields[i].bytes]
             n == Len(fields)
  <2>1. raw[1] = ValueOf(TransactionBody[1], fields, merges)
    BY <1>7
  <2>2. ValueOf(TransactionBody[1], fields, merges) = contents
    BY BodySchema DEF ValueOf
  <2>3. Listed(fields) /\ n \in Nat /\ DOMAIN fields = 1..n
    <3>1. Listed(fields)
      BY <1>2, FieldsAreListed
    <3> QED
      BY <3>1, ListedProperties
  <2>4. DOMAIN contents = 1..n /\ contents = [i \in 1..n |-> contents[i]]
    BY <2>3
  <2> HIDE DEF contents, n, raw
  <2>5. Len(contents) = n
    BY <2>3, <2>4, Lists
  <2> QED
    BY <2>1, <2>2, <2>5 DEF n, MEMOS
<1> HIDE DEF raw
<1>15. /\ node[1] = raw[1] /\ node[3] = raw[3] /\ node[4] = raw[4] /\ node[5] = raw[5]
       /\ node[2] = {Read2(TimestampSchema, v, merges) : v \in raw[2]}
       /\ node[6] = {Read2(ShieldedBundle, v, merges) : v \in raw[6]}
  <2> DEFINE At(t) == CASE TransactionBody[t].is = "message" ->
                             {Read2(TransactionBody[t].of, v, merges) : v \in raw[t]}
                        [] TransactionBody[t].is = "repeated" ->
                             [i \in DOMAIN raw[t] |-> Read2(TransactionBody[t].of, raw[t][i], merges)]
                        [] OTHER -> raw[t]
  <2>1. node = [t \in DOMAIN TransactionBody |-> At(t)]
    BY DEF GeneralReading, Read3, Inside, raw
  <2>2. \A t \in 1..6 : node[t] = At(t)
    <3> HIDE DEF At
    <3> QED
      BY <1>6, <2>1
  <2>3. At(1) = raw[1] /\ At(3) = raw[3] /\ At(4) = raw[4] /\ At(5) = raw[5]
    BY BodySchema
  <2>4. At(2) = {Read2(TimestampSchema, v, merges) : v \in raw[2]}
    <3>1. At(2) = {Read2(TransactionBody[2].of, v, merges) : v \in raw[2]}
      BY BodySchema
    <3> QED
      BY <3>1, BodySchema, Zenon
  <2>5. At(6) = {Read2(ShieldedBundle, v, merges) : v \in raw[6]}
    <3>1. At(6) = {Read2(TransactionBody[6].of, v, merges) : v \in raw[6]}
      BY BodySchema
    <3> QED
      BY <3>1, BodySchema, Zenon
  <2> HIDE DEF At
  <2> QED
    BY <2>2, <2>3, <2>4, <2>5
<1> HIDE DEF ts, sh
<1>16. node[2] = {<<device.created_at, 0>>}
  <2>1. node[2] = {Read2(TimestampSchema, ts, merges)}
    BY <1>8, <1>15
  <2> QED
    BY <1>3, <1>4, <2>1
<1>17. node[6] = {DecodeMessage(ShieldedBundle, device.shielded)}
  <2>1. node[6] = {Read2(ShieldedBundle, sh, merges)}
    BY <1>9, <1>15
  <2> QED
    BY <1>3, <1>5, <2>1
<1> QED
  BY <1>3, <1>11, <1>12, <1>13, <1>14, <1>15, <1>16, <1>17

(* What a strict reader takes the others take.                             *)
LEMMA StrictOrNot ==
  ASSUME NEW schema, NEW bytes, Decodable2(schema, bytes, TRUE)
  PROVE  Decodable2(schema, bytes, FALSE)
<1>1. ASSUME NEW of, NEW content, Decodable1(of, content, TRUE)
      PROVE  Decodable1(of, content, FALSE)
  BY <1>1, Zenon DEF Decodable1
<1> QED
  BY <1>1, Zenon DEF Decodable2

(* Such a body decodes, and holds no field that general readers skip.      *)
LEMMA BodyDecodes ==
  ASSUME NEW b \in Message5, DeviceAccepts(b)
  PROVE  /\ Decodable3(TransactionBody, b, FALSE)
         /\ \A i \in DOMAIN b : b[i].tag \in DOMAIN TransactionBody
<1>1. b \notin Atom /\ Listed(b) /\ FieldsChecked(b)
  BY DeviceFields DEF DeviceAccepts
<1>2. DOMAIN b = 1..Len(b)
  BY <1>1, ListedProperties
<1>3. DOMAIN TransactionBody = 1..6
  BY BodySchema
<1>4. /\ TransactionBody[1].is = "repeated bytes" /\ TransactionBody[2].is = "message"
      /\ TransactionBody[3].is = "uint32" /\ TransactionBody[4].is = "uint32"
      /\ TransactionBody[5].is = "bytes" /\ TransactionBody[6].is = "message"
  BY BodySchema
<1>5. /\ \A t \in {3, 4} : IsNumber(TransactionBody[t])
      /\ \A t \in {1, 2, 5, 6} : ~IsNumber(TransactionBody[t])
      /\ \A t \in {1, 3, 4, 5} : ~IsNested(TransactionBody[t])
  BY <1>4 DEF IsNumber, IsNested
<1>6. \A i \in DOMAIN b : \/ b[i].type = "bytes" /\ b[i].tag \in {1, 2, 5, 6}
                          \/ b[i].type = "varint" /\ b[i].tag \in {3, 4}
  <2>1. \A i \in DOMAIN b : Known(b[i])
    BY <1>1, <1>2 DEF FieldsChecked
  <2> QED
    BY <2>1 DEF Known, MEMOS, CREATED_AT, VERSION_NUMBER, TYPE, OTHER_COMMUNITY_UUID, SHIELDED_TRANSFER
<1>7. \A i \in DOMAIN b : b[i].tag \in DOMAIN TransactionBody
  BY <1>3, <1>6
<1>8. Decodable1(TransactionBody, b, FALSE)
  <2>1. ASSUME NEW i \in DOMAIN b
        PROVE  b[i].type = IF IsNumber(TransactionBody[b[i].tag]) THEN "varint" ELSE "bytes"
    <3>1. CASE b[i].type = "bytes" /\ b[i].tag \in {1, 2, 5, 6}
      BY <1>5, <3>1, Zenon
    <3>2. CASE b[i].type = "varint" /\ b[i].tag \in {3, 4}
      BY <1>5, <3>2, Zenon
    <3> QED
      BY <1>6, <3>1, <3>2
  <2> QED
    BY <1>1, <2>1, Zenon DEF Decodable1
<1>9. ASSUME NEW i \in Nested(TransactionBody, b)
      PROVE  Decodable2(TransactionBody[b[i].tag].of, b[i].bytes, FALSE)
  <2>1. i \in DOMAIN b /\ b[i].tag \in {2, 6}
    <3>1. i \in DOMAIN b /\ IsNested(TransactionBody[b[i].tag])
      BY DEF Nested
    <3>2. b[i].tag \in {1, 2, 3, 4, 5, 6}
      BY <1>6, <3>1
    <3> QED
      BY <1>5, <3>1, <3>2, Zenon
  <2>2. b[i].bytes \in Atom \cup Message4
    <3>1. b[i] \in FieldOf(Message4)
      BY <1>2, <2>1, SequencesAreLists DEF Message5
    <3> QED
      BY <3>1 DEF FieldOf
  <2>3. CASE b[i].tag = 2
    <3>1. parse_timestamp_error(b[i].bytes) = "Ok"
      BY <1>1, <1>2, <2>1, <2>3 DEF FieldsChecked, CREATED_AT
    <3>2. Decodable2(TimestampSchema, b[i].bytes, FALSE)
      BY <2>2, <3>1, TimestampReads
    <3>3. TransactionBody[2].of = TimestampSchema
      BY BodySchema
    <3> QED
      BY <2>3, <3>2, <3>3, Zenon
  <2>4. CASE b[i].tag = 6
    <3>1. PICK k \in 1..Len(b) : /\ \A j \in 1..Len(b) : b[j].tag = 6 => j = k
            /\ MessageError(ShieldedBundle, b[k].bytes, MAX_SHIELDED_BUNDLE_SIZE) = "Ok"
      BY DeviceReads DEF SHIELDED_TRANSFER
    <3>2. Decodable2(ShieldedBundle, b[k].bytes, FALSE)
      BY <3>1, Canonical, StrictOrNot
    <3>3. i = k
      BY <1>2, <2>1, <2>4, <3>1
    <3>4. TransactionBody[6].of = ShieldedBundle
      BY BodySchema
    <3> QED
      BY <2>4, <3>2, <3>3, <3>4, Zenon
  <2> QED
    BY <2>1, <2>3, <2>4
<1>10. Decodable3(TransactionBody, b, FALSE)
  BY <1>8, <1>9, Zenon DEF Decodable3
<1> QED
  BY <1>7, <1>10

(* In every state, whatever was changed on the way: a body that
   `parse_transfer_body` and `decode_shielded` take means the same to a
   reader that merges what comes twice and to one that replaces it, with
   nothing in it that either does not know, and a node's `decode` takes
   the bundle in it with the authorisation its server has made.            *)
THEOREM ReadersAgreeHolds == RelaySpec => []ReadersAgree
<1>1. RelayTypeOK => ReadersAgree
  <2> SUFFICES ASSUME RelayTypeOK, DeviceAccepts(body) PROVE ReadersAgree
    BY DEF ReadersAgree
  <2> DEFINE device == parse_transfer_body(body)
             bundle == decode_shielded(device.shielded)
             auth == encode_authorization(sent.bundle)
  <2>1. body \in Message5 /\ sent \in Sent
    BY DEF RelayTypeOK
  <2>2. /\ Decodable3(TransactionBody, body, FALSE)
        /\ \A i \in DOMAIN body : body[i].tag \in DOMAIN TransactionBody
    BY <2>1, BodyDecodes
  <2>3. ASSUME NEW merges
        PROVE  LET node == GeneralReading(body, merges)
               IN  /\ Len(node[1]) = device.memos
                   /\ node[2] = {<<device.created_at, 0>>}
                   /\ node[3] = device.version_number
                   /\ node[4] = 0 /\ node[5] = <<>>
                   /\ \A message \in node[6] : shielded_from_wire(message) = bundle
    <3> DEFINE node == GeneralReading(body, merges)
    <3>1. /\ Len(node[1]) = device.memos
          /\ node[2] = {<<device.created_at, 0>>}
          /\ node[3] = device.version_number
          /\ node[4] = 0 /\ node[5] = <<>>
          /\ node[6] = {DecodeMessage(ShieldedBundle, device.shielded)}
      BY <2>1, BodyReads
    <3> HIDE DEF node, device
    <3>2. \A message \in node[6] : shielded_from_wire(message) = bundle
      BY <3>1 DEF decode_shielded
    <3> QED
      BY <3>1, <3>2 DEF node
  <2>4. decode_error(device.shielded, auth) = "Ok"
    <3>1. decode_shielded_error(device.shielded) = "Ok"
      BY DEF DeviceAccepts
    <3> HIDE DEF device
    <3>2. /\ MessageError(ShieldedBundle, device.shielded, MAX_SHIELDED_BUNDLE_SIZE) = "Ok"
          /\ shielded_error(DecodeMessage(ShieldedBundle, device.shielded)) = "Ok"
      BY <3>1, Zenon DEF decode_shielded_error
    <3>3. /\ ~(LengthOf(auth) > MAX_AUTHORIZATION_SIZE)
          /\ MessageError(ShieldedAuthorization, auth, MAX_AUTHORIZATION_SIZE) = "Ok"
          /\ authorization_error(DecodeMessage(ShieldedAuthorization, auth)) = "Ok"
      BY <2>1, SentAuthorization
    <3> HIDE DEF auth
    <3>4. FirstOf(<<shielded_error(DecodeMessage(ShieldedBundle, device.shielded)),
                    authorization_error(DecodeMessage(ShieldedAuthorization, auth))>>) = "Ok"
      BY <3>2, <3>3, TwoChecks
    <3> QED
      BY <3>2, <3>3, <3>4, Zenon DEF decode_error
  <2> HIDE DEF device, bundle, auth
  <2> QED
    BY <2>2, <2>3, <2>4, Zenon DEF ReadersAgree, device, bundle, auth
<1> QED
  BY <1>1, RelayTyped, PTL

=============================================================================
