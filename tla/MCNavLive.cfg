SPECIFICATION FairSpec
CONSTANTS
  Paths <- OnePath
  NoPath = "none"
  Up <- OneUp
  RootOf <- OneUp
  Removable = {}
  Encodings = {"utf8"}
  Count = 4
  Batch = 2
  Window = 3
  Page = 1
  HistMax = 2
  MaxNavs = 2
  MaxChanges = 1
PROPERTY SizesFill
CHECK_DEADLOCK FALSE
