CONSTANTS
  a1 = a1
  a2 = a2
  a3 = a3
  b1 = b1
  b2 = b2
  stranger = stranger
  NoMac = none
  AgentNum = 5
  InfoMac <- MCInfoMac
  InfoRoom <- MCInfoRoom
  Mac <- MCMac
  Output <- MCOutput
SPECIFICATION Spec
INVARIANTS
  TypeOK
  Ranked
  OnlyEarlyAbsent
  RoomIsBacked
  MissedOnlyForWant
  HaltsOnlyOnMismatch
  AgreesWithDefinition
