SPECIFICATION FairSpec
CONSTANTS
  Names <- MCNames
  Dot = "."
  DotDot = ".."
  Trees <- MCTrees
  Asked <- MCAsked
  LinkDepthMax = 3
INVARIANTS
  LinkFree
  NoRevisit
  ResolvesLikePosix
PROPERTY
  WalkEnds
CHECK_DEADLOCK FALSE
