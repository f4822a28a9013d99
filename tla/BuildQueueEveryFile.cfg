SPECIFICATION Spec
CONSTANTS
  repo = repo
  other = other
  d1 = d1
  d2 = d2
  w1 = w1
  w2 = w2
  Alias = {repo, other}
  Doc = {d1, d2}
  Worker = {w1, w2}
  Plan <- MCShortPlan
  External = TRUE
  MaxDeaths = 0
INVARIANTS
  RunForEveryFile
CHECK_DEADLOCK FALSE
