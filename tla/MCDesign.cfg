SPECIFICATION Spec
CONSTANTS
  Nets <- MCNets
  Designs <- MCDesigns
  GateIDs <- MCGateIDs
  NewCells <- MCNewCells
  NoCell = NoCell
  MaxIn = 3
  MaxEdits = 2
INVARIANTS TypeOK InnersTopological SignalsSound ComposeSound NetFanoutsExact ArcsExact
PROPERTIES ImplementsComponents ExtractionEnds
