SPECIFICATION Spec
CONSTANTS
  e1 = e1
  e2 = e2
  NoElement = NoElement
  Elements <- MCElements
  Calls <- RemoveAtCalls
  InitCapacity = 8
  MaxCapacity = 8
  Width = 4
  DefaultCapacity = 2
SYMMETRY Symmetry
CHECK_DEADLOCK FALSE
PROPERTY RemoveAtRemoves
