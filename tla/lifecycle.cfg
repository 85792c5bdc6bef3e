SPECIFICATION Spec
CONSTANTS
  p1 = p1
  p2 = p2
  NoRun = NoRun
  NoFlush = NoFlush
  Producers = {p1, p2}
  Runs = {r1, r2}
  Flushes = {f1}
  Closes = {c1}
  LevelOf <- InfoAndCustom
  ChannelSize = 1
  FlushThreshold = 2
  WorkerBatchMax = 2
  ErrorBlock = TRUE
  MayFail = TRUE
  MaxPerProducer = 1
INVARIANTS
  TypeOK NothingLost DropsAccounted LevelDropsAccounted SingleWorker FlushWrites
  ChannelsClosedOnce FileIsComplete CloseDrains
PROPERTY ImplementsPipe
CHECK_DEADLOCK FALSE
