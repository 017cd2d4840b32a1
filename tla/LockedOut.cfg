CONSTANTS
  a1 = a1
  a2 = a2
  Main = main
  Http = http
  Free = free
  Agent <- MCAgent
  Record <- MCKnown
SPECIFICATION Spec
CHECK_DEADLOCK FALSE
INVARIANT LockedOut
