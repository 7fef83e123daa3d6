SPECIFICATION FairSpec
CONSTANTS
  p1 = p1
  p2 = p2
  h1 = h1
  h2 = h2
  c1 = c1
  n1 = n1
  s1 = s1
  None = None
  Proc <- Handlers
  Html <- OneHtml
  Code <- OneCode
  Note <- OneNote
  Sha <- OneSha
  MaxVersion = 2
  Explicit = {}
  Ops <- Records
  Faults = {"error"}
INVARIANTS
  IInv
  AnsweredIsCommitted
  RemoveLeavesNothing
PROPERTIES
  CodeChangedOnlyByItsHandlers
  ImplementsDocRecord
  Answered
