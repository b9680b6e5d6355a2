SPECIFICATION Spec
CONSTANTS
  MaxIn = 2
  MaxOut = 1
  MaxEntries = 9
  MaxCalls = 2
  Gates <- MCNone
  Invs = {FALSE, TRUE}
  Rhss <- MCRhss
  Roots = {"AND", "BUF", "ZERO", "XOR", "OUT"}
  Seeds <- MCNets
  LateInput = FALSE
INVARIANTS
  ReplaceSound
CHECK_DEADLOCK FALSE
