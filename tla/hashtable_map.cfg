SPECIFICATION MCSpec
CONSTANTS
  null = null
  k1 = k1
  k2 = k2
  k3 = k3
  u = u
  v = v
  dummy = dummy
  NoElement = NoElement
  NullKey = null
  Keys <- MCKeys
  Values <- MCValues
  Hash <- MCHash
  InitialCapacity = 1
  MaxCapacity = 4
  LoadNum = 3
  LoadDen = 4
SYMMETRY Symmetry
INVARIANTS
  EntriesAreReachable
  LoadIsBounded
PROPERTIES
  WalkIsComplete
  IsAMap
  IsASet
