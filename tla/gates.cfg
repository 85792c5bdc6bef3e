SPECIFICATION FairSpec
CONSTANTS
  Callers = {c1, c2, c3}
  SampleRate = 2
  Limit = 4
  WindowMs = 0
  StartMs = 2
  CountSpan = 3
  WindowSpan = 2
  MaxClock = 4
  MaxCalls = 3
INVARIANTS TypeOK PerWindowCap OutputCap RefusedOnlyWhenFull SampledExactly
PROPERTY WindowNeverBack
PROPERTY CallsReturn
CHECK_DEADLOCK FALSE
