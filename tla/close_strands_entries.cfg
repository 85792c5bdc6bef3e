SPECIFICATION Spec
CONSTANTS
  Callers = {c1, c2}
  Nobody = nobody
  FsyncEveryNCount = 3
  BufferSize = 2
  MaxCalls = 1
  MaxFailures = 0
INVARIANT CloseLeavesNothing
CHECK_DEADLOCK FALSE
