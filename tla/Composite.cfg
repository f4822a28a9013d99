SPECIFICATION Spec
CONSTANTS
  N = 2
  MaxClock = 6
  MaxCrashes = 1
INVARIANTS
  LinkedTogether
  BestParsedLinked
  LinkedTriplesAdded
CHECK_DEADLOCK FALSE
