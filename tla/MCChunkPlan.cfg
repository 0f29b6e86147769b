CONSTANTS
  Symbols = {a, b}
  MaxLength = 7
  SizeMax = 7
  MaxChunks = 7
  Inputs <- MCInputs
SPECIFICATION Spec
INVARIANTS TargetsExact BoundariesPartition PlanIsGreedy
CHECK_DEADLOCK FALSE
