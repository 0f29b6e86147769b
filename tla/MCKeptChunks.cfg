CONSTANTS
  Symbols = {0, 1}
  TokenIds = {1, 2}
  NoState = NoState
  NoToken = NoToken
  MaxStates = 3
  MaxLength = 4
  CallerDfas <- MCDfas
  Ignored <- MCIgnored
  Texts <- MCInputs
SPECIFICATION CallerSpec
INVARIANTS KeptStreamIsSerial
CHECK_DEADLOCK FALSE
