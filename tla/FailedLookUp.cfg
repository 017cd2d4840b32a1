CONSTANTS
  a1 = a1
  a2 = a2
  Main = main
  Http = http
  Free = free
  Agent <- MCAgent
  Record <- MCRecord
SPECIFICATION Spec
CHECK_DEADLOCK FALSE
PROPERTY FailedLookUpExits
