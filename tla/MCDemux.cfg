SPECIFICATION Spec
CONSTANTS
  Blocks <- MCDemux
  Words <- MCWords
INVARIANTS
  DemuxIndexed
CHECK_DEADLOCK FALSE
