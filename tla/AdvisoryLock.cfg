SPECIFICATION BootSpec
CONSTANTS
  p1 = p1
  p2 = p2
  p3 = p3
  i1 = i1
  i2 = i2
  k1 = k1
  k2 = k2
  k3 = k3
  s1 = s1
  s2 = s2
  s3 = s3
  d1 = d1
  d2 = d2
  t1 = t1
  t2 = t2
  None = None
  Proc <- Procs
  Instance <- Instances
  Key <- Keys
  Session <- Sessions
  Id <- Ids
  at <- Where
  advisoryKey <- Hash
  MaxConns = 1
  Faults = {}
  BootKey = k1
  Token <- Tokens
SYMMETRY Symmetric
INVARIANTS
  IInv
  MutualExclusion
  OneToken
PROPERTIES
  ImplementsKeyedLock
