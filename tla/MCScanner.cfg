CONSTANTS
  Symbols = {0, 1}
  TokenIds = {1, 2}
  NoState = NoState
  NoToken = NoToken
  MaxStates = 3
  MaxLength = 4
  Dfas <- MCDfas
  Inputs <- MCInputs
SPECIFICATION Spec
INVARIANTS TypeOK SplitPointsBeginTokens TokensTileInput
PROPERTIES ImplementsTokenStream
CHECK_DEADLOCK FALSE
