SPECIFICATION Spec
CONSTANTS
  MaxHashes = 1
  MaxChunks = 2
  MaxAttempt = 0
  Volumes <- MCVolumes
  Foreign <- MCForeign
  Numbered <- MCNumbered
  OtherNames <- MCOtherNames
  MaxOthers = 2
  WalkMaxDepth = 4
INVARIANTS
  DestinationWhole
  ExportTidy
  NothingOverwritten
  AllAccounted
  WorkComplete
  CancelHitsItsJob
PROPERTY
  SlotFrees
CHECK_DEADLOCK FALSE
