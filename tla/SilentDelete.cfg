SPECIFICATION Spec
CONSTANTS
  p1 = p1
  p2 = p2
  h1 = h1
  h2 = h2
  c1 = c1
  n1 = n1
  s1 = s1
  None = None
  Proc <- Handlers
  Html <- OneHtml
  Code = {}
  Note = {}
  Sha = {}
  MaxVersion = 3
  Explicit = {}
  Ops = {"publish", "remove"}
  Faults = {"silentDelete"}
SYMMETRY Symmetric
INVARIANTS
  RemoveLeavesNothing
