SPECIFICATION Spec
CONSTANTS
  Content = {c1, c2}
  Partial = {p1}
  None = None
  Dir = TRUE
  Archive = TRUE
  Copy = FALSE
  SendsEtag = TRUE
  SendsDate = TRUE
  Removes = TRUE
  MaxTime = 6
  MaxCrashes = 2
SYMMETRY Symmetry
INVARIANTS
  NothingLost
  CheckedIsCurrent
  ParseNotMasked
  ArchiveConsistent
PROPERTIES
  ArchiveOnlyGrows
CHECK_DEADLOCK FALSE
