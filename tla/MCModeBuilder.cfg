CONSTANTS
  Symbols = {0}
  TokenIds = {1, 2}
  NoState = NoState
  NoToken = NoToken
  WordMax = 7
  Modes = {0, 1}
  Patterns <- MCPatterns
  Actions <- MCActions
  MaxCalls = 3
SPECIFICATION BuilderSpec
INVARIANTS DeclaredActionsApply BuiltActionsAreSafe
