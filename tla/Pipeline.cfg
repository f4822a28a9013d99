SPECIFICATION Spec
CONSTANTS
  A = A
  B = B
  Doc = {A, B}
  MaxContent = 2
  Refs <- MCRefs
  Archive = TRUE
  MaxTime = 18
  MaxFailures = 1
INVARIANTS
  FreshAfterCleanBuild
  OwnContentHeals
  DepsCoverTriples
  RelateHeals
CHECK_DEADLOCK FALSE
