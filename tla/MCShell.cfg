SPECIFICATION Spec
CONSTANTS
  d1 = d1
  d2 = d2
  p1 = p1
  p2 = p2
  DesignIDs = {d1, d2}
  NoDesign = NoDesign
  N = 2
  Structures <- MCStructures
  NoNet = NoNet
  Funs = {"w", "g"}
  Fun <- MCFun
  Kind <- MCKind
  Made <- MCMade
  Files <- MCFiles
  Points = {p1, p2}
  MaxCommands = 8
SYMMETRY MCSymmetry
INVARIANTS
  TypeOK Consistent PointsComplete FunctionKept MappedGuard
PROPERTIES
  CheckpointsStable ImplementsStore
CHECK_DEADLOCK FALSE
