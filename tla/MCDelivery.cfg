SPECIFICATION DeliverySpec
CONSTANTS
  u1 = u1
  u2 = u2
  text1 = text1
  text2 = text2
  key1 = key1
  key2 = key2
  community = community
  User = {u1, u2}
  Year = {1}
  Month = {0, 3, 12, 259}
  Value = {1, 8}
  Expiry = {1}
  Text = {text1, text2}
  MemoKey = {key1, key2}
  SharedKey = {key1}
  Community = community
  Now = 1
  ZeroIvk <- MCZeroIvk
  BYTE = 256
  MAX_RESAMPLES = 2
  VALUE_LIMIT = 8
  TIME_LIMIT = 4
  EXPIRY_LIMIT = 4
  MAX_ADDRESSES = 2
  MAX_MAIL = 3
SYMMETRY Texts
INVARIANTS
  FoundNotesAreCommitted
  SentNotesAreSeen
  MemosAreCommitted
  MonthsHaveTheirAddresses
CHECK_DEADLOCK FALSE
