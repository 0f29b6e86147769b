CONSTANTS
  Symbols = {0, 1}
  TokenIds = {1, 2}
  NoState = NoState
  NoToken = NoToken
  BeforeWindow = BeforeWindow
  ShortestTried = 2
  LongestTried = 3
  MaxWord = 5
  MaxAudited = 6
  Caps = {0, 3, 1000}
  RescueCap = 1000
  WindowLimit = 3
  MaxTail = 2
  Bytes <- MCBytes
  BoundaryQueries <- MCQueries
  TokenSets <- MCTokenSets
  Tails <- MCTails
SPECIFICATION OfflineSpec
INVARIANTS AnswerIsExact SpanIsExact ReportIsExact RecoveryIsExact DecisionsAgree
CHECK_DEADLOCK FALSE
