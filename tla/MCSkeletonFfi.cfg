SPECIFICATION FairSkeletonSpec
CONSTANTS
  t1 = t1
  t2 = t2
  a1 = a1
  a2 = a2
  FIELD = 11
  LIMB = 2
  N_LIMBS = 2
  N_IN = 2
  N_OUT = 2
  Thread = {t1, t2}
  RawWitness <- MCWitness
  RawSighash = {1, 2, 11}
  Length = {"short", "enough"}
  Address = {a1, a2}
INVARIANTS
  AnswersAreRight
  BuffersAreOwned
PROPERTIES
  EveryCallReturns
CHECK_DEADLOCK FALSE
