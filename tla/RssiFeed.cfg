CONSTANTS
  QMax = 3
  Rssi <- MCRssi
SPECIFICATION Spec
INVARIANTS
  TypeOK
  OutWithinSeen
  PresentAgentIsSeen
PROPERTIES
  NeverOvershoots
  KeepsLastReadings
  SettlesWithinBand
