SPECIFICATION Spec
CONSTANTS
  Profile <- MCAppendix
INVARIANTS
  OneMorePageOfSame
CHECK_DEADLOCK FALSE
