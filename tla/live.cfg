SPECIFICATION FairSpec
CONSTANTS
  p1 = p1
  p2 = p2
  NoRun = NoRun
  NoFlush = NoFlush
  Producers = {p1}
  Runs = {r1}
  Flushes = {f1, f2}
  Closes = {}
  LevelOf <- OneProducer
  ChannelSize = 2
  FlushThreshold = 2
  WorkerBatchMax = 2
  ErrorBlock = TRUE
  MayFail = FALSE
  MaxPerProducer = 2
PROPERTY AcceptedIsTaken
PROPERTY CancelledRunStops
PROPERTY FlushReturnsWhileServed
CHECK_DEADLOCK FALSE
