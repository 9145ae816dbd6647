SPECIFICATION Spec
CONSTANTS
  Threads = {t1, t2}
  Encodings = {"utf8", "gbk"}
  Names <- MCNames
  Paths <- MCPaths
  Asked <- MCAsked
  Browsed <- MCBrowsed
  Objects <- MCObjects
  Dirs = {"dir"}
  Links = {"up"}
  SizeListed = {"c"}
  RootObject = "dir"
  Listing <- MCListing
  Walks <- MCWalks
  Begin <- MCBegin
  Asks <- MCAsks
  Onward <- MCOnward
  Ends <- MCEnds
  Done = Done
  Fails = Fails
  Nowhere = Nowhere
  CacheMax = 3
  MaxChanges = 1
  MaxOps = 2
  Nobody = Nobody
SYMMETRY Symmetry
INVARIANTS
  RawCurrent
  CurrentUnlessStraddled
CHECK_DEADLOCK FALSE
