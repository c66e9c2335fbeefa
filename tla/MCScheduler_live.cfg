CONSTANTS
  NumCPUs = 2
  NumSlots = 4
  NumStacks = 2
  CacheCap = 2
  Pins <- AnyOnly
SPECIFICATION FairSpec
PROPERTIES
  ReadyIsDispatched
  TerminatedIsReaped
