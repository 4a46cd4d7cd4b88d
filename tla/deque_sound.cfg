SPECIFICATION SpecBoth
CONSTANTS
  e1 = e1
  e2 = e2
  NoElement = NoElement
  Elements <- MCElements
  Calls <- SoundCalls
  InitCapacity = 2
  MaxCapacity = 8
  Width = 4
  DefaultCapacity = 2
SYMMETRY Symmetry
INVARIANTS
  NoFault
  NoStraySlot
  WalkInOrder
  RoundsByBits
PROPERTIES
  IsASequence
