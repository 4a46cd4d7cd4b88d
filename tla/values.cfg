SPECIFICATION MCSpec
CONSTANTS
  va = va
  vb = vb
  NoElement = NoElement
  Elements <- MCElements
  Key <- MCKey
  InitCapacity = 1
  DefaultCapacity = 1
  DataLength = 2
  ExpNum = 2
  ExpDen = 1
  MemLimit = 5
  MaxElements = 64
CHECK_DEADLOCK FALSE
INVARIANTS
  BlocksKeepPromise
  StraysOnlyWhenRefused
  TreeIsTight
  TreeKeepsPromise
PROPERTIES
  IsLifo
  LoopsEnd
