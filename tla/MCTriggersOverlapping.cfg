SPECIFICATION Spec
CONSTANTS
  wf1 = wf1
  wf2 = wf2
  r1 = r1
  r2 = r2
  Workflow <- OneWorkflow
  Request <- TwoRequests
  Situations <- OnlyOneHook
  MaxEvents = 2
SYMMETRY RequestSymmetry
CHECK_DEADLOCK FALSE
INVARIANTS
  TableStaysConsistent
