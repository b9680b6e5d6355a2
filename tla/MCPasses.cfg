SPECIFICATION Spec
CONSTANTS
  MaxIn = 3
  CutSize = 3
  Kinds = {"rw", "rwz", "rf", "rfz"}
  Nets <- MCNets
  Rhss <- MCRhss
INVARIANTS
  PassSound SafeVisits CutsFresh
PROPERTIES
  Terminates
CHECK_DEADLOCK FALSE
