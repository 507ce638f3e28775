SPECIFICATION MerkleSpec
CONSTANTS
  n1 = n1
  n2 = n2
  n3 = n3
  empty = empty
  MERKLE_DEPTH = 2
  MAX_NOTES = 4
  Note = {n1, n2, n3}
  Own = {n1, n2}
  EmptyLeaf = empty
INVARIANTS
  RootIsOfAllLeaves
  PathsAreExact
CHECK_DEADLOCK FALSE
