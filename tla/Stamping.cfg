SPECIFICATION Spec
CONSTANTS
  None = None
  s1 = s1
  s2 = s2
  stampableTags = {"figure", "img"}
  rawTextTags = {"script"}
  voidTags = {"img"}
  Html <- Pages
  Word <- Texts
  MaxEdits = 2
INVARIANTS
  StampsSettle
  AidsNameContent
  AnchorResolves
PROPERTIES
  AnchorFollowsContent
