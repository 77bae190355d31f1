SPECIFICATION Spec
CONSTANTS
  i1 = i1
  i2 = i2
  i3 = i3
  Instance <- ThreeInstances
  NoOwner = NoOwner
  Ttl = 3
  RefreshEvery = 2
  Timely = TRUE
  MaxFailures = 3
INVARIANTS
  NoSplitBrain
PROPERTIES
  LeadershipIsRegained
  SplitBrainHeals
