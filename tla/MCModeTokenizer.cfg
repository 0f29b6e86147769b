CONSTANTS
  Symbols = {0, 1}
  TokenIds = {1, 2}
  NoState = NoState
  NoToken = NoToken
  BeforeWindow = BeforeWindow
  Nothing = Nothing
  WordMax = 15
  ShortestTried = 2
  LongestTried = 4
  MaxMoves = 2
  MaxTerminator = 2
  MaxStates = 2
  MaxLength = 3
  Lexers <- MCLexers
  Inputs <- MCInputs
  Loads <- MCLoads
SPECIFICATION Spec
INVARIANTS RecoveryIsRepairInvariant StackIsNesting
PROPERTIES DriverEnds StepsAsTokenizer
CHECK_DEADLOCK FALSE
