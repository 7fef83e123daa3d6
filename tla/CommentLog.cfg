SPECIFICATION Spec
CONSTANTS
  c1 = c1
  r1 = r1
  u1 = u1
  x1 = x1
  x2 = x2
  x3 = x3
  None = None
  Comment <- OneComment
  Reply <- OneReply
  User <- OneUser
  Artifact <- Figures
  tag <- SameTag
  head <- Headings
  Page <- Pages3
  Sent <- OnFigure
  Local <- AppliedText
  MaxVersion = 2
  MaxEvents = 5
INVARIANTS
  IInv
  CompactionInvisible
  AnchorsSettle
PROPERTIES
  PastStands
  DeletedStays
  ReplyReactionTurns
