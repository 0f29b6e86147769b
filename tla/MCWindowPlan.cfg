CONSTANTS
  Symbols = {0, 1}
  TokenIds = {1}
  NoState = NoState
  NoToken = NoToken
  BeforeWindow = BeforeWindow
  Nothing = Nothing
  SizeMax = 63
  MaxChunks = 4
  ShortestTried = 2
  LongestTried = 4
  MaxStates = 3
  MaxTerminator = 3
  LongestTerminator = 4
  MaxWindow = 5
  MaxLength = 7
  Bytes <- MCBytes
  Dfas <- MCDfas
  Planned <- MCPlanned
  Inputs <- MCInputs
SPECIFICATION Spec
INVARIANTS CoreIsMandatory CutsBeginTokens PlanIsExhaustive
PROPERTY SearchesAnswer
CHECK_DEADLOCK FALSE
