CONSTANTS
  NumCPUs = 2
  NumSlots = 4
  NumStacks = 3
  CacheCap = 1
  Pins <- PinToAp
SPECIFICATION Spec
INVARIANTS
  StackExclusive
  ResumeIsFresh
  ExecutingIsRunning
  RunsWhereAllowed
PROPERTIES
  StacksKeepOneHolder
  OwnershipIsTwoPhase
  ImplementsHandoff
