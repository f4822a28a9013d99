SPECIFICATION Spec
CONSTANTS
  Texts <- MCTexts
  Basefile = 1
  Registered = {1, 2}
INVARIANTS
  ChaptersFound
  NestedByRank
  SectionsNamed
  TransitionalKept
PROPERTIES
  ParsesAll
CHECK_DEADLOCK FALSE
