SPECIFICATION CheckSpec
CONSTANTS
  MODULUS = 67
  WORD_BITS = 3
  Width = {1, 2, 3, 4, 5, 6}
INVARIANTS
  Pinned
CHECK_DEADLOCK FALSE
