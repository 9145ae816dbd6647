SPECIFICATION Spec
CONSTANTS
  Callers = {c1, c2}
  MaxCalls = 2
  MaxSeq = 2
  MaxStarts = 2
  Chunks = 2
  WaitCanFail = {c2}
  NoTask = NoTask
  NoReq = NoReq
INVARIANTS
  AcceptedCallsSucceed
  QueuedCallsPending
  GrubConfined
  BoundedOvertaking
PROPERTY
  ImplementsTaskQueue
CHECK_DEADLOCK FALSE
