CONSTANTS
  Word = 16
  Page = 4
  Keys <- MCKeys
  Buffers <- MCBuffers
  MaxSize = 5
  OwnGrowth = 1
  Slack = 2
  MaxAttempts = 4
  ChangesCap = 2
SPECIFICATION FairSpec
INVARIANTS KernelStartsOnTheFinalMap OneMapBuffer AttemptsAreCharged
PROPERTY LoaderFinishes
