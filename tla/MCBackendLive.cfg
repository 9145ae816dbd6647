SPECIFICATION FairSpec
CONSTANTS
  Callers = {c1, c2}
  MaxCalls = 1
  MaxSeq = 2
  MaxStarts = 2
  Chunks = 1
  WaitCanFail = {}
  NoTask = NoTask
  NoReq = NoReq
PROPERTIES
  CallsReturn
  StopReturns
  TasksEnd
CHECK_DEADLOCK FALSE
