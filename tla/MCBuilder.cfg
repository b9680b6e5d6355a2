SPECIFICATION Spec
CONSTANTS
  MaxIn = 2
  MaxOut = 1
  MaxEntries = 5
  MaxCalls = 1
  Gates <- MCGates
  Invs = {FALSE}
  Rhss <- MCRhss
  Roots = {"AND", "BUF"}
  Seeds <- MCEmpty
  LateInput = FALSE
INVARIANTS
  TypeOK NoFault BoundsExact FanoutsExact StrashSound
CHECK_DEADLOCK FALSE
