SPECIFICATION KeysSpec
CONSTANTS
  Slot = {s1, s2}
  IdemKey = {k1}
  NoKey = none
  Tier = {default}
  Garbage = garbage
  KeyTtl = 1
  MaxKeys = 2
  MaxBodies = 2
  MaxKeyTime = 2
INVARIANT RevokedMeansRevoked
CHECK_DEADLOCK FALSE
