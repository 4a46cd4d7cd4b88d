SPECIFICATION MCSpec
CONSTANTS
  e1 = e1
  e2 = e2
  low = low
  high = high
  NoElement = NoElement
  Elements <- MCElements
  Ranked <- MCRanked
  Rank <- MCRank
  HeapCapacity = 2
  HeapLimit = 6
  ExpNum = 3
  ExpDen = 2
  InitCapacity = 2
  MaxCapacity = 4
  DefaultCapacity = 2
  Calls = {}
  MaxElements = 64
SYMMETRY Symmetry
CHECK_DEADLOCK FALSE
PROPERTIES
  IsFifo
  IsAPriorityQueue
