--------------------------- MODULE CommitmentTree ---------------------------
(***************************************************************************)
(* The note commitment tree, struct CommitmentTree of src/tree.rs, as a    *)
(* value.  The leaves in order determine the root, and the hash behind the *)
(* root has no collisions, so the root IS the sequence of leaves here.     *)
(* A Merkle path is the tree it was taken from with the leaf's place left  *)
(* open: hashing a leaf up the path gives the root of the tree with that   *)
(* leaf put into the place.                                                *)
(***************************************************************************)
EXTENDS Naturals, Sequences

CONSTANT MAX_NOTES   (* 2^MERKLE_DEPTH, the number of leaves.              *)

ASSUME MaxNotesAssumption == MAX_NOTES \in Nat

(* marked: the positions whose witness is kept up to date (`mark`);
   positions count from 0, as in the code.                                 *)
EmptyTree == [leaves |-> <<>>, marked |-> {}, checkpoints |-> 0]

Size(tree) == Len(tree.leaves)

HasRoomFor(tree, notes) == Size(tree) + notes <= MAX_NOTES

(* append(cm, keep_witness), for a tree with room for one more leaf.       *)
Appended(tree, cm, keep) ==
  [tree EXCEPT !.leaves = Append(@, cm),
               !.marked = IF keep THEN @ \cup {Size(tree)} ELSE @]

(* A loop of append(cm, false) that goes as far as there is room.          *)
AppendedAll(tree, cms) ==
  LET room == MAX_NOTES - Size(tree)
  IN  [tree EXCEPT !.leaves =
         @ \o SubSeq(cms, 1, IF Len(cms) <= room THEN Len(cms) ELSE room)]

Checkpointed(tree) == [tree EXCEPT !.checkpoints = @ + 1]

TreeRoot(tree) == tree.leaves

HasWitness(tree, position) == position \in tree.marked
Witness(tree, position) == [tree |-> tree.leaves, position |-> position]

(* MerklePath::calculate_root of a leaf gives this root: the position picks
   left or right at every level, so it is to be the path's own.  Read at
   another position a path leads, at most, to a root of a tree in which the
   leaf stands at that position (MerkleTree).                              *)
PathLeadsTo(leaf, position, path, root) ==
  /\ position = path.position
  /\ root = [path.tree EXCEPT ![position + 1] = leaf]
=============================================================================
