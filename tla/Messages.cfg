CONSTANTS
  p = p
  q = q
  Beacon = {p, q}
  Url <- MCUrl
  MaxMessages = 2
  Piece <- MCPiece
  MaxCuts = 2
SPECIFICATION Spec
CHECK_DEADLOCK FALSE
INVARIANTS
  TypeOK
  ConfirmedIsFiled
  TroubleHasACause
  NoReadingLostUnsent
PROPERTIES
  AgentIsAnswered
