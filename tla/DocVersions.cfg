SPECIFICATION Spec
CONSTANTS
  p1 = p1
  p2 = p2
  h1 = h1
  h2 = h2
  c1 = c1
  n1 = n1
  s1 = s1
  None = None
  Proc <- Handlers
  Html <- TwoHtml
  Code = {}
  Note = {}
  Sha = {}
  MaxVersion = 3
  Explicit <- ClientVersions
  Ops <- Versioning
  Faults = {"error"}
SYMMETRY Symmetric
INVARIANTS
  IInv
  AnsweredIsCommitted
PROPERTIES
  AutoNeverOverwrites
  DraftClearedOnlyWhenPublished
  ImplementsDocRecord
