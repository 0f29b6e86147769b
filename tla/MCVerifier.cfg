CONSTANTS
  Symbols = {0, 1}
  TokenIds = {1, 2}
  NoState = NoState
  NoToken = NoToken
  BeforeWindow = BeforeWindow
  MaxMarked = 7
  MaxFuture = 3
  MaxWindow = 2
  MaxInput = 4
  Bytes <- MCBytes
  Policies <- MCPolicies
  Questions <- MCQuestions
  Requests <- MCRequests
SPECIFICATION AnswersSpec
INVARIANTS VerifierAcceptsScans DecisionsHold KCopyScanIsSerial
CHECK_DEADLOCK FALSE
