SPECIFICATION Spec
CONSTANTS
  Blocks <- MCBlocks
  Words <- MCWords
INVARIANTS
  ArithmeticExact ComparisonsExact SelectionExact
CHECK_DEADLOCK FALSE
