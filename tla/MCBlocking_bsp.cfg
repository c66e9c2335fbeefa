CONSTANTS
  NumCPUs = 2
  NumThreads = 3
  QueueCap = 2
  SleepCap = 2
  Durations <- OneAndTwo
  MaxTick = 2
SPECIFICATION FairSpec
INVARIANTS
  BlockedIsRegistered
PROPERTIES
  SleepIsComplete
  RingIsFifo
  WakeOneWakesOldest
  SleeperReturns
