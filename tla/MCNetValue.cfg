SPECIFICATION Spec
CONSTANTS
  FIELD = 37
  ORDER = 17
  VALUE_LIMIT = 8
  TIME_LIMIT = 4
  KIND_LIMIT = 2
  EXPIRY_LIMIT = 2
  Decayed <- MCDecayed
  NumActions = 2
INVARIANTS
  ElementsReadBack
  CommitsToNet
  VerifiedAsBuilt
CHECK_DEADLOCK FALSE
