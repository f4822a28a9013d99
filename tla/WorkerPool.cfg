SPECIFICATION FairSpec
CONSTANTS
  b1 = b1
  b2 = b2
  b3 = b3
  None = None
  v1 = v1
  p1 = p1
  p2 = p2
  Jobs <- MCJobs
  Proc = {p1, p2}
  MaxDeaths = 2
INVARIANTS
  Conservation
  OwnAnswers
PROPERTIES
  ImplementsCommandRun
  ArmedPoolEnds
  EndsIfNothingLost
CHECK_DEADLOCK FALSE
