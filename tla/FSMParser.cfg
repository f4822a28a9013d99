SPECIFICATION Spec
CONSTANTS
  Profile <- MCProfile
INVARIANTS
  Conserved
  NothingLost
  NeverStuck
  NoSelfNesting
  HeadingsOpen
PROPERTIES
  ParseEnds
CHECK_DEADLOCK FALSE
