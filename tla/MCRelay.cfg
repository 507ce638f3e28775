SPECIFICATION RelaySpec
CONSTANTS
  e1 = e1
  e2 = e2
  notElement = notElement
  p1 = p1
  notPoint = notPoint
  enc1 = enc1
  out1 = out1
  proof1 = proof1
  sig1 = sig1
  address = address
  scalar = scalar
  text = text
  freeMemo = freeMemo
  Atom <- MCAtom
  Length <- MCLength
  Element <- MCElement
  Point <- MCPoint
  Address = {address}
  Scalar = {scalar}
  WORD32 = 8
  WORD64 = 16
  BUNDLE_ACTIONS = 2
  CIRCUIT_VERSION = 2
  PROOF_SIZE = 7936
  ENC_CIPHERTEXT_SIZE = 580
  OUT_CIPHERTEXT_SIZE = 80
  TIMESTAMP_LIMIT = 8
  MAX_SHIELDED_BUNDLE_SIZE = 3000
  MAX_AUTHORIZATION_SIZE = 8960
  MAX_REQUEST_SIZE = 65536
  FREE_MEMO_SIZE = 463
  MEMO_LEN = 512
  Sent <- MCSent
  Number <- MCNumber
  Other <- MCOther
  Added <- MCAdded
  MAX_EDITS = 2
INVARIANTS
  ReadersAgree
  BundleHasOneEncoding
  RequestHasOneEncoding
CHECK_DEADLOCK FALSE
