SPECIFICATION Spec
CONSTANTS
  e1 = e1
  e2 = e2
  NoElement = NoElement
  Elements <- MCElements
  Calls <- AddAtCalls
  InitCapacity = 2
  MaxCapacity = 4
  Width = 3
  DefaultCapacity = 2
SYMMETRY Symmetry
CHECK_DEADLOCK FALSE
PROPERTY AddAtInserts
