SPECIFICATION Spec
CONSTANTS
  MaxIn = 4
  Nets <- MCNets
INVARIANTS
  BalanceSound Settled
PROPERTIES
  NeverDeeper
CHECK_DEADLOCK FALSE
