SPECIFICATION FairSpec
CONSTANTS
  Nobody = Nobody
  w1 = w1
  w2 = w2
  w3 = w3
  i1 = i1
  i2 = i2
  Workers = {w1, w2, w3}
  RmIds = {i1, i2}
INVARIANTS
  IInv
  CacheIsGuarded
  BoundedCreation
PROPERTIES
  CallsReturn
