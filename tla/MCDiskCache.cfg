SPECIFICATION Spec
CONSTANTS
  NumDevs = 5
  Kind <- MCKind
  Parent <- MCParent
  Start <- MCStart
  Size <- MCSize
  BadSets <- MCBadSets
  IdMod <- MCIdMod
  Unit = 2
  CacheNum = 1
  EvictedMax = 1
  MaxAgglomerate = 2
  MaxDepth = 3
INVARIANTS
  BucketsSound
  ReadsRight
  GoodSectorsReadable
  DepthBalanced
CHECK_DEADLOCK FALSE
