SPECIFICATION Spec
CONSTANTS
  c1 = c1
  c2 = c2
  n1 = n1
  n2 = n2
  n3 = n3
  n4 = n4
  own = own
  other = other
  Commitment = {c1, c2}
  Nullifier = {n1, n2, n3, n4}
  Bundle <- MCBundle
  Sighash = {own, other}
  VerifyBundleCrypto <- MCVerifyBundleCrypto
  NumActions = 2
  MAX_NOTES = 5
  Capacity = 2
INVARIANTS
  NoDoubleSpend
  StateFollowsLog
  AcceptsExactly
PROPERTIES
  AllOrNothing
  ImplementsShieldedLog
