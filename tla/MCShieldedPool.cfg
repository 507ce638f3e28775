SPECIFICATION Spec
CONSTANTS
  alice = alice
  bob = bob
  Owner = {alice, bob}
  Payee = alice
  Community = "home"
  Communities = {"home", "away"}
  SECONDS_PER_YEAR = 2
  WORD = 4
  VALUE_LIMIT = 8
  W1_SHIFT_LIMIT = 3
  DECAY_POWERS <- MCPowers
  WINDOW_BITS = 1
  TIME_LIMIT = 4
  MAX_NOTES = 6
  NumActions = 2
  Capacity = 2
  CreationValue = 4
  Values = {0, 3, 4}
  MAX_CLOCK = 1
  MAX_LOG = 4
INVARIANTS
  SpentNotesAreOwned
  NoteSpentOnce
  ValueConserved
  NotesAreOfThisLedger
CHECK_DEADLOCK FALSE
