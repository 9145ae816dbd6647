SPECIFICATION Spec
CONSTANTS
  Paths <- MCPaths
  NoPath = "none"
  Up <- MCUp
  RootOf <- MCRootOf
  Removable = {"A"}
  Encodings = {utf8, gbk}
  Count = 3
  Batch = 2
  Window = 3
  Page = 1
  HistMax = 2
  MaxNavs = 4
  MaxChanges = 1
INVARIANTS
  CursorOnView
  SizesRight
  BatchAccounted
  DepartedNotShown
  DecodedUnlessSurvived
SYMMETRY EncSymmetry
CHECK_DEADLOCK FALSE
