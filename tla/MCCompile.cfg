CONSTANTS
  Symbols = {0, 1}
  TokenIds = {1, 2, 3}
  NoState = NoState
  NoToken = NoToken
  Epsilon = Epsilon
  Nothing = Nothing
  MaxWord = 5
  Limits = {0, 1, 2, 3, 4, 8}
  Bytes <- MCBytes
  Terms <- MCTerms
  Grammars <- MCGrammars
SPECIFICATION Spec
INVARIANTS CompiledIsCanonical DiagnosisIsExact LimitIsExact
CHECK_DEADLOCK FALSE
