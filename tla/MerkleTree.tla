----------------------------- MODULE MerkleTree -----------------------------
(***************************************************************************)
(* What stands behind the sequence of leaves that CommitmentTree takes for *)
(* a root: the hashes of src/tree.rs, of which the tree keeps a frontier   *)
(* only (the last leaf and the roots of the full subtrees left of it), and *)
(* the walk up a path of src/circuit/action_slice.rs.  Two trees, as a     *)
(* node and a wallet have them, are filled in any way.                     *)
(*                                                                         *)
(* bridgetree itself is external, and modelled as tree.rs uses it.         *)
(***************************************************************************)
EXTENDS CommitmentTree

CONSTANTS
  MERKLE_DEPTH,
  Note, Own,       (* commitments, and those the wallet marks              *)
  EmptyLeaf        (* "not a valid note commitment in practice"            *)

VARIABLES
  trees,           (* the trees of the node and the wallet, as values      *)
  frontiers        (* what is kept of each: {} or {frontier}               *)

merkleVars == <<trees, frontiers>>

Trees == {"node", "wallet"}
Level == 0..(MERKLE_DEPTH - 1)

ASSUME DepthAssumption ==
  MERKLE_DEPTH \in Nat \ {0} /\ MAX_NOTES = 2^MERKLE_DEPTH /\ EmptyLeaf \notin Note
(* What there is to know of 2^level, as the provers know nothing of powers. *)
ASSUME PowerAssumption ==
  2^0 = 1 /\ \A level \in 0..MERKLE_DEPTH : 2^level \in Nat \ {0} /\ 2^(level + 1) = 2 * 2^level

(* Bit `level` of a position is set: the node is a right child there.      *)
IsRight(position, level) == (position \div 2^level) % 2 = 1

-----------------------------------------------------------------------------
(* MerkleCRH has no collisions.                                            *)
combine(level, left, right) == [level |-> level, left |-> left, right |-> right]

(* Deviation: at every height the empty subtree is an empty leaf.          *)
EmptyRootsFlat == [level \in 0..MERKLE_DEPTH |-> EmptyLeaf]
(* The table behind Hashable::empty_root.                                  *)
empty_roots ==
  LET roots[level \in 0..MERKLE_DEPTH] ==
        IF level = 0 THEN EmptyLeaf
        ELSE combine(level - 1, roots[level - 1], roots[level - 1])
  IN  roots

(* One more leaf: the last one closes the subtrees it completes.           *)
Grown(frontier, leaf) ==
  LET full == CHOOSE level \in 0..MERKLE_DEPTH :
                /\ ~IsRight(frontier.position, level)
                /\ \A below \in 0..(level - 1) : IsRight(frontier.position, below)
      closed[level \in 0..full] ==
        IF level = 0 THEN frontier.leaf
        ELSE combine(level - 1, frontier.ommers[level - 1], closed[level - 1])
  IN  [position |-> frontier.position + 1, leaf |-> leaf,
       ommers |-> [level \in {l \in Level : IsRight(frontier.position + 1, l)} |->
                     IF level = full THEN closed[full] ELSE frontier.ommers[level]]]

(* BridgeTree::root, from the last leaf up; CommitmentTree::root for none. *)
RootOf(frontier) ==
  LET node[level \in 0..MERKLE_DEPTH] ==
        IF level = 0 THEN frontier.leaf
        ELSE IF IsRight(frontier.position, level - 1)
             THEN combine(level - 1, frontier.ommers[level - 1], node[level - 1])
             ELSE combine(level - 1, node[level - 1], empty_roots[level - 1])
  IN  node[MERKLE_DEPTH]
Root(t) ==
  IF frontiers[t] = {} THEN empty_roots[MERKLE_DEPTH]
  ELSE RootOf(CHOOSE frontier \in frontiers[t] : TRUE)

(* Deviation: the leaf is always the left child.                           *)
MerkleRootOfLeftmost(leaf, pos, path) ==
  LET node[level \in 0..MERKLE_DEPTH] ==
        IF level = 0 THEN leaf ELSE combine(level - 1, node[level - 1], path[level - 1])
  IN  node[MERKLE_DEPTH]
(* native::merkle_root, and MerklePath::calculate_root in the circuit.     *)
merkle_root(leaf, pos, path) ==
  LET node[level \in 0..MERKLE_DEPTH] ==
        IF level = 0 THEN leaf
        ELSE IF IsRight(pos, level - 1)
             THEN combine(level - 1, path[level - 1], node[level - 1])
             ELSE combine(level - 1, node[level - 1], path[level - 1])
  IN  node[MERKLE_DEPTH]

(* The roots of all subtrees, by level and index, over all leaves with
   empty ones behind them.                                                 *)
Subtrees(leaves) ==
  LET node[level \in 0..MERKLE_DEPTH] ==
        [index \in 0..(2^(MERKLE_DEPTH - level) - 1) |->
           IF level = 0
           THEN IF index < Len(leaves) THEN leaves[index + 1] ELSE EmptyLeaf
           ELSE combine(level - 1, node[level - 1][2 * index], node[level - 1][2 * index + 1])]
  IN  node

(* CommitmentTree::witness of a marked leaf: the siblings, leaf to root.   *)
Siblings(leaves, position) ==
  [level \in Level |->
     LET index == position \div 2^level
     IN  Subtrees(leaves)[level][IF index % 2 = 1 THEN index - 1 ELSE index + 1]]

-----------------------------------------------------------------------------
MerkleInit ==
  /\ trees = [t \in Trees |-> EmptyTree]
  /\ frontiers = [t \in Trees |-> {}]

(* append; a wallet marks its own notes, a node none.                      *)
AppendTo(t, cm) ==
  /\ HasRoomFor(trees[t], 1)
  /\ trees' = [trees EXCEPT ![t] = Appended(@, cm, t = "wallet" /\ cm \in Own)]
  /\ frontiers' =
       [frontiers EXCEPT ![t] =
          IF @ = {} THEN {[position |-> 0, leaf |-> cm, ommers |-> <<>>]}
          ELSE {Grown(frontier, cm) : frontier \in @}]

MerkleNext == \E t \in Trees, cm \in Note : AppendTo(t, cm)

MerkleSpec == MerkleInit /\ [][MerkleNext]_merkleVars

-----------------------------------------------------------------------------
(* The root computed from what is kept of the tree, with the table of empty
   roots, is the root of the whole tree of 2^MERKLE_DEPTH leaves: "for an
   empty tree this is the root of empty leaves" (tree.rs).                 *)
RootIsOfAllLeaves ==
  \A t \in Trees : Root(t) = Subtrees(trees[t].leaves)[MERKLE_DEPTH][0]

(* "a witness taken from it is exactly the path MerklePath recomputes in
   the proof" (tree.rs).  A path of the wallet leads a commitment at the
   path's own position to a root exactly if CommitmentTree says so; read at
   whatever other position, it leads a commitment to no root of a tree in
   which that commitment does not stand there.                             *)
StandsAt(leaf, position, leaves) ==
  position + 1 \in DOMAIN leaves /\ leaves[position + 1] = leaf

PathsAreExact ==
  \A own \in trees["wallet"].marked, position \in 0..(MAX_NOTES - 1), leaf \in Note, t \in Trees :
    LET leads == merkle_root(leaf, position, Siblings(trees["wallet"].leaves, own)) = Root(t)
    IN  /\ leads => StandsAt(leaf, position, trees[t].leaves)
        /\ position = own =>
             (leads <=> PathLeadsTo(leaf, position, Witness(trees["wallet"], own),
                                    TreeRoot(trees[t])))
=============================================================================
