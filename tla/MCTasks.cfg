SPECIFICATION Spec
CONSTANTS
  Ids = {i1, i2, i3}
  MaxPlace = 3
  MaxPlan = 2
  Bad = {b1, b2}
  NoText = NoText
  Faults = {"write", "crash"}
INVARIANTS RowsAreTasks
PROPERTIES OnlySelectedChanges BadTextIsKept
