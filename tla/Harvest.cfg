SPECIFICATION HarvestSpec
CONSTANTS
  Acts <- Numbers
  BasesOf <- Amends
  Attempts = 2
  LastYear = 3
  MaxRevisit = 1
INVARIANTS
  
  
  GapsAreWaitedFor
PROPERTIES
  RunEnds
