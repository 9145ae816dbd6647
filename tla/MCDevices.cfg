SPECIFICATION Spec
CONSTANTS
  MaxDevs = 3
  MaxUsers = 2
  Size <- MCSize
INVARIANTS
  RefsExact
  ParentsAttached
  FiniNewestFirst
CHECK_DEADLOCK FALSE
