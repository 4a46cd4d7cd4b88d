SPECIFICATION MCSpec
CONSTANTS
  ia = ia
  ib = ib
  ic = ic
  Items <- MCItems
  NoElement = NoElement
  BufferSize = 8
  Sizes = {1, 2, 3}
  SizeMax = 15
  MaxLive = 4
  Capacity = 4
  InitSize = 4
  ExpNum = 1
  ExpDen = 1
  IsFixed = FALSE
  IsPacked = TRUE
  MaxPages = 3
SYMMETRY Symmetry
CHECK_DEADLOCK FALSE
INVARIANTS
  BlocksAreDisjoint
  PagedBlocksAreDisjoint
  PrimedRingHoldsQueue
  LatestAreKept
PROPERTIES
  FreesNewestOnly
  PagedFreesNewestOnly
  DequeuesOldest
