CONSTANTS
  BspId = 1
  ApIds <- MCApIds
  Topologies <- MCTopologies
  MaxAps = 3
  Stacks = {s1, s2, s3}
  None = None
SPECIFICATION FairSpec
INVARIANTS OwnStacks SuccessMeansAllUp LateApsStayParked ShootdownsAreAnswered
PROPERTY BootGoesOn
