SPECIFICATION FairSpec
CONSTANTS
  repo = repo
  other = other
  d1 = d1
  d2 = d2
  w1 = w1
  w2 = w2
  Alias = {repo, other}
  Doc = {d1, d2}
  Worker = {w1, w2}
  Plan <- MCPlan
  External = FALSE
  MaxDeaths = 1
INVARIANTS
  CleanCommandComplete
  WaitsForSomething
  NoJobRunTwice
  NoResultKeptTwice
PROPERTIES
  ArmedCommandEnds
  BuildEnds
CHECK_DEADLOCK FALSE
