SPECIFICATION MCSpec
CONSTANTS
  v1 = v1
  v2 = v2
  KeyCount = 4
  dummy = dummy
  NoElement = NoElement
  Sentinel = Sentinel
  Keys <- MCKeys
  Mappings <- MCMappings
PROPERTIES
  IsAnOrderedMap
  IsAnOrderedSet
