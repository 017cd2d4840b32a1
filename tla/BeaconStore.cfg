CONSTANTS
  a1 = a1
  a2 = a2
  a3 = a3
  b1 = b1
  b2 = b2
  b3 = b3
  stranger = stranger
  NoMac = none
  AgentNum = 6
  InfoMac <- MCInfoMac
  InfoRoom <- MCInfoRoom
  QMax = 1
  Rssi <- MCRssi
  Mac <- MCMac
  Beacon = {p}
  Batch = 2
  MaxRecords = 7
SPECIFICATION Spec
SYMMETRY MCSymmetry
CONSTRAINT MCFollowed
CHECK_DEADLOCK FALSE
INVARIANTS
  TypeOK
  StrangersOverrun
  PublishesWholeBatches
  PlacedWhereHeard
PROPERTIES
  FilesEachReading
  EveryRecordPlaces
