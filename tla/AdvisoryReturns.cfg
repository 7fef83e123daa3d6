SPECIFICATION FairSpec
CONSTANTS
  p1 = p1
  p2 = p2
  i1 = i1
  k1 = k1
  k2 = k2
  s1 = s1
  s2 = s2
  d1 = d1
  d2 = d2
  None = None
  Proc <- Procs
  Instance <- Instances
  Key <- Keys
  Session <- Sessions
  Id <- Ids
  at <- Where
  advisoryKey <- Hash
  MaxConns = 1
  Faults = {"sessionLoss"}
PROPERTIES
  CallsReturn
