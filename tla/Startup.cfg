CONSTANTS
  Agent = {a1, a2, a3}
  Backlog = 1
  Key <- MCKey
  Known <- MCKnown
  Default <- MCDefault
  Configurations <- MCConfigurations
  Options <- MCOptions
  Missing = missing
  Comment = comment
  NoKey = nokey
  Blank = blank
  TooLong <- MCTooLong
SPECIFICATION Spec
CHECK_DEADLOCK FALSE
INVARIANTS
  TypeOK
  LoadsWholeFile
  LastSettingWins
  NoThreadSeesHalf
  CleanExitOnlyWhenComplete
  BreaksOnlyOnBadInput
PROPERTIES
  EarlyAgentsAreServed
