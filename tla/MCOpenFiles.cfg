SPECIFICATION FilesSpec
CONSTANTS
  Threads = {t1, t2, t3}
  Openings = {f1, f2}
  MaxReads = 4
  MaxObjects = 4
SYMMETRY ThreadSymmetry
INVARIANTS
  HandlesExactUnlessRaced
  ClosedVolumeIsFree
CHECK_DEADLOCK FALSE
