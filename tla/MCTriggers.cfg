SPECIFICATION Spec
CONSTANTS
  wf1 = wf1
  wf2 = wf2
  r1 = r1
  r2 = r2
  Workflow <- TwoWorkflows
  Request <- TwoRequests
  Situations <- DistinctOrShared
  MaxEvents = 5
VIEW WithoutFlag
SYMMETRY RequestSymmetry
CHECK_DEADLOCK FALSE
INVARIANTS
  LiveStateMatchesRows
PROPERTIES
  ActivationIsComplete
  TeardownIsComplete
  ServedRoutesAreKept
