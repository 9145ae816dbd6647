SPECIFICATION FairSpec
CONSTANTS
  Addrs = {a1, a2}
  Letters = {X, Y}
  MaxMounts = 3
INVARIANTS
  GoneIsCurrent
  EntersNoKnownDrive
  MenuUnmountsShown
PROPERTY
  EndedLeaves
CHECK_DEADLOCK FALSE
