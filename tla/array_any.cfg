SPECIFICATION MCSpec
CONSTANTS
  e1 = e1
  e2 = e2
  f1 = f1
  f2 = f2
  NoElement = NoElement
  Elements <- MCElements
  Key <- MCKey
  InitCapacity = 1
  ExpNum = 3
  ExpDen = 1
  MemLimit = 3
  MaxElements = 64
SYMMETRY Symmetry
CHECK_DEADLOCK FALSE
INVARIANTS
  NoStrayAccess
  IsASequence
  ZipKeepsPromise
