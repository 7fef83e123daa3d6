SPECIFICATION AccessSpec
CONSTANTS
  p1 = p1
  w1 = w1
  h1 = h1
  c1 = c1
  c2 = c2
  None = None
  Token = Token
  Proc <- OneHandler
  Viewer <- Viewers
  Html <- OneHtml
  Code <- Codes
  Note = {}
  Sha = {}
  MaxVersion = 2
  Explicit = {}
  Ops <- Sharing
  Faults = {"error"}
SYMMETRY AnyCode
INVARIANTS
  ServedToCapable
  LinkOpens
PROPERTIES
  SteadyCodeOpens
