SPECIFICATION Spec
CONSTANTS
  Threads = {t1, t2}
  Names = {HTTP}
  Nobody = nobody
  DefaultProfile = DEFAULT
  profileLookupThreshold = 8
  MaxCalls = 1
PROPERTY SubNeverResets
CHECK_DEADLOCK FALSE
