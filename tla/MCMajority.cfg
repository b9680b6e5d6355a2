SPECIFICATION Spec
CONSTANTS
  MaxIn = 4
  Nets <- MCSameCell
INVARIANTS
  BalanceSound
CHECK_DEADLOCK FALSE
