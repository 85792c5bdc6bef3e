SPECIFICATION Spec
CONSTANTS
  p1 = p1
  p2 = p2
  p3 = p3
  Callers = {p1, p2, p3}
  LevelOf <- TwoLevelsAndCustom
  LevelCount = 2
  MaxCalls = 1
  MaxResets = 1
INVARIANTS StatsOrdered DropsReported
CHECK_DEADLOCK FALSE
