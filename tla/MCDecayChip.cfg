SPECIFICATION Spec
CONSTANTS
  SECONDS_PER_YEAR = 12
  WORD = 16
  VALUE_LIMIT = 8
  W1_SHIFT_LIMIT = 3
  DECAY_POWERS <- MCPowers
  WINDOW_BITS = 2
  FIELD = 8191
  RANGE = 32
  POW_TABLE_MAX = 7
  TIME_LIMIT = 40
INVARIANTS
  DecayedIsDecay
  NoSecondSolution
  HonestProverSucceeds
CHECK_DEADLOCK FALSE
