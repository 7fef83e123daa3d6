SPECIFICATION FairSpec
CONSTANTS
  p1 = p1
  p2 = p2
  p3 = p3
  k1 = k1
  k2 = k2
  e1 = e1
  e2 = e2
  e3 = e3
  Proc <- Procs
  Key <- Keys
  Entry <- Entries
  NoEntry = NoEntry
INVARIANTS
  IInv
  MutualExclusion
  MapBoundedToInFlight
PROPERTIES
  CallsReturn
  ImplementsKeyedLock
