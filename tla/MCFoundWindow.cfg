CONSTANTS
  Symbols = {0, 1}
  TokenIds = {1}
  NoState = NoState
  NoToken = NoToken
  BeforeWindow = BeforeWindow
  MaxStates = 3
  MaxLength = 4
  MaxWalked = 3
  MaxWindow = 5
  Budgets = {0, 4, 1000}
  Bytes <- MCBytes
  Dfas <- MCDfas
  SearchDfas <- MCSearchDfas
  Inputs <- MCInputs
  Texts <- MCTexts
SPECIFICATION UseSpec
INVARIANTS CloudCoversScan OriginBeginsToken FoundIsShortest
CHECK_DEADLOCK FALSE
