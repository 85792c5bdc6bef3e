SPECIFICATION Spec
CONSTANTS
  Callers = {c1, c2}
  Nobody = nobody
  FsyncEveryNCount = 3
  BufferSize = 2
  MaxCalls = 3
  MaxFailures = 1
INVARIANTS InOrder LossesCounted TierKept FlushCovers
CHECK_DEADLOCK FALSE
