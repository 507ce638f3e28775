SPECIFICATION Spec
CONSTANTS
  alice = alice
  bob = bob
  s1 = s1
  s2 = s2
  User = {alice, bob}
  Session = {s1, s2}
  Community = "home"
  SECONDS_PER_YEAR = 2
  WORD = 4
  VALUE_LIMIT = 8
  W1_SHIFT_LIMIT = 3
  DECAY_POWERS <- MCPowers
  WINDOW_BITS = 1
  TIME_LIMIT = 4
  MAX_NOTES = 6
  NumActions = 2
  Capacity = 2
  Outputs <- MCOutputs
  CreationValue = 4
  MAX_CLOCK = 1
  MAX_LOG = 2
INVARIANTS
  NullifiersDistinct
  WalletsFollowLedger
  SignedAsShown
  SpendsHaveConsent
  RefusedOnlyByLedger
CHECK_DEADLOCK FALSE
SYMMETRY MCSymmetry
