SPECIFICATION MCShapeSpec
CONSTANTS
  v1 = v1
  v2 = v2
  KeyCount = 9
  dummy = dummy
  NoElement = NoElement
  Sentinel = Sentinel
  Keys <- MCKeys
  Mappings <- MCMappings
INVARIANTS
  RedBlackRules
  LinksAgree
  EveryNodeIsReached
