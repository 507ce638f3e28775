SPECIFICATION FairSpec
CONSTANTS
  creation = creation
  unopenable = unopenable
  Creation = {creation, unopenable}
  n1 = n1
  n2 = n2
  n3 = n3
  n4 = n4
  c1 = c1
  c2 = c2
  own = own
  other = other
  Bundle <- MCBundle
  Sighash = {own, other}
  VerifyBundleCrypto <- MCVerifyBundleCrypto
  Openable <- MCOpenable
  NumActions = 2
  MAX_NOTES = 4
  Capacity = 2
INVARIANTS
  TreeIsStored
  CreationsStayDistinct
PROPERTIES
  ImplementsShieldedLog
  NodeAcceptsExactly
  AdmittedIsStored
