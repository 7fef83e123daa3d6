SPECIFICATION FairSpec
CONSTANTS
  a = a
  b = b
  late = late
  dump = dump
  None = None
  Slug <- Slugs
  Html <- Texts2
  Sha <- Address
  hexRuns <- Runs
  Width = 2
  maxSlideRun = 4
  Uploader <- Owner
  Named <- FirstVersion
  Grace = 1
  Faults = {}
  MaxVersion = 2
  MaxClock = 1
  MaxCalls = 3
INVARIANTS
  IInv
PROPERTIES
  OwnReferencedKept
  SteadyReferencesKept
  RowOutlivesBytes
  PassEnds
