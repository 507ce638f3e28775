SPECIFICATION BalanceSpec
CONSTANTS
  PRIME = 11
  LIMB = 2
  N_LIMBS = 2
  N_IN = 2
  N_OUT = 2
  Sighash = {1, 2}
INVARIANTS
  VerifiedBalances
  ProveRefusesExactly
CHECK_DEADLOCK FALSE
