--------------------------- MODULE AnchorHistory ---------------------------
(***************************************************************************)
(* The roots a bundle may use as its anchor: struct AnchorHistory of       *)
(* src/tree.rs.  A bounded queue of the most recent roots, and beside it a *)
(* hash map that says how often each root stands in the queue, so that a   *)
(* lookup costs no walk over 20000 entries.  The two have to agree after   *)
(* every push: the same root may stand in the queue several times, and     *)
(* leaves the accepted set only with its last occurrence.                  *)
(***************************************************************************)
EXTENDS Naturals, Sequences, FiniteSets

CONSTANTS
  Root,      (* The values a tree root can have.                           *)
  Capacity   (* AnchorHistory::capacity; `new` asserts that it is not 0.   *)

VARIABLES
  roots,     (* The queue, oldest root first.                              *)
  counts     (* root -> number of its occurrences; the domain are the keys *)

anchorVars == <<roots, counts>>

With(map, key, n) == [k \in DOMAIN map \cup {key} |-> IF k = key THEN n ELSE map[k]]
Without(map, key) == [k \in DOMAIN map \ {key} |-> map[k]]

(* One occurrence less: the key goes with the last one, not before.        *)
Forget(map, root) ==
  IF map[root] = 1 THEN Without(map, root) ELSE With(map, root, map[root] - 1)

(* One occurrence more: entry(root).or_insert(0) += 1.                     *)
Remember(map, root) ==
  With(map, root, IF root \in DOMAIN map THEN map[root] + 1 ELSE 1)

(* Deviation: one root too many before the oldest goes.                    *)
FullLate == Len(roots) > Capacity
Full == Len(roots) = Capacity

New ==
  /\ roots = <<>>
  /\ counts = [key \in {} |-> 0]

(* A full queue makes room first.                                          *)
Push(root) ==
  LET kept      == IF Full THEN Tail(roots) ELSE roots
      remaining == IF Full THEN Forget(counts, Head(roots)) ELSE counts
  IN  /\ roots' = Append(kept, root)
      /\ counts' = Remember(remaining, root)

Contains(root) == root \in DOMAIN counts

Next == \E root \in Root : Push(root)

Spec == New /\ [][Next]_anchorVars

-----------------------------------------------------------------------------
Places(queue, root) == {i \in DOMAIN queue : queue[i] = root}
Occurrences(queue, root) == Cardinality(Places(queue, root))

(* The queue holds roots and never more than its capacity; no entry of the
   map counts to zero.                                                     *)
TypeOK ==
  /\ roots \in Seq(Root)
  /\ Len(roots) <= Capacity
  /\ counts \in [DOMAIN counts -> Nat \ {0}]

(* AnchorHistory::contains looks only at the map: it accepts a root exactly
   while the queue holds it, however often, and the map says how often.    *)
CountsMatchQueue ==
  /\ DOMAIN counts = {roots[i] : i \in DOMAIN roots}
  /\ \A root \in DOMAIN counts : counts[root] = Occurrences(roots, root)
=============================================================================
