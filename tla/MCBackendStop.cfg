SPECIFICATION Spec
CONSTANTS
  Callers = {c1, c2}
  MaxCalls = 1
  MaxSeq = 1
  MaxStarts = 1
  Chunks = 2
  WaitCanFail = {}
  NoTask = NoTask
  NoReq = NoReq
INVARIANT
  StopHeard
CHECK_DEADLOCK FALSE
