CONSTANTS
  a = a
  b = b
  Symbols = {a, b}
  TokenIds = {1, 2}
  NoState = NoState
  NoToken = NoToken
  WordMax = 15
  MaxLength = 3
  Lexers <- MCLexers
  Inputs <- MCInputs
  Starts <- MCStarts
SPECIFICATION Spec
INVARIANTS DiagnosisHolds
PROPERTIES ImplementsPerToken InescapableHolds
CHECK_DEADLOCK FALSE
