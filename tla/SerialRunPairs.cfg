SPECIFICATION Spec
CONSTANTS
  b1 = b1
  b2 = b2
  b3 = b3
  None = None
  v1 = v1
  v2 = v2
  Jobs <- MCVersions
  NoVersion = None
INVARIANTS
  EachPairRun
CHECK_DEADLOCK FALSE
