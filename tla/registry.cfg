SPECIFICATION Spec
CONSTANTS
  Threads = {t1, t2}
  Names = {HTTP, DB, AUTH}
  Nobody = nobody
  DefaultProfile = DEFAULT
  profileLookupThreshold = 1
  MaxCalls = 2
INVARIANTS LatestWins HandleOfItsType
CHECK_DEADLOCK FALSE
