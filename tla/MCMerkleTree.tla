---------------------------- MODULE MCMerkleTree ----------------------------
(***************************************************************************)
(* Trees of four leaves, two of the three commitments the wallet's own:    *)
(* every content of the one tree with every content of the other.          *)
(***************************************************************************)
EXTENDS MerkleTree

CONSTANTS n1, n2, n3, empty
=============================================================================
