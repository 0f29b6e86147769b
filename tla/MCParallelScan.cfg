CONSTANTS
  a = a
  b = b
  Symbols = {a, b}
  TokenIds = {1, 2}
  NoState = NoState
  NoToken = NoToken
  NoChunk = NoChunk
  MaxLength = 4
  MaxChunks = 3
  SizeMax = 7
  Dfas <- MCDfas
  Inputs <- MCInputs
SPECIFICATION Spec
INVARIANTS SerialIsPrefix ChunksFollowSerial NoSinkAfterReturn ExceptionNeverLost
PROPERTIES CallEnds
CHECK_DEADLOCK FALSE
