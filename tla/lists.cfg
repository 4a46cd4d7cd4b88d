SPECIFICATION MCSpec
CONSTANTS
  ea = ea
  eb = eb
  ec = ec
  NoElement = NoElement
  Elements <- MCElements
  Offered <- MCOffered
  Key <- MCKey
  MaxNodes = 6
  SmallMemory = 3
  Careful = TRUE
INVARIANTS
  EveryListIsLinked
  CallsKeepPromise
PROPERTY
  LoopsEnd
