SPECIFICATION Spec
CONSTANTS
  MaxIn = 2
  Nets <- MCNets
  MaxRemoved = 2
  MaxCalls = 3
INVARIANTS
  MergeSound MergedNetSound LevelsKept MergedMake
CHECK_DEADLOCK FALSE
