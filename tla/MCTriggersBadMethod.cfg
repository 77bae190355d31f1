SPECIFICATION Spec
CONSTANTS
  wf1 = wf1
  wf2 = wf2
  r1 = r1
  r2 = r2
  Workflow <- OneWorkflow
  Request <- OneRequest
  Situations <- OnlyBadMethod
  MaxEvents = 3
CHECK_DEADLOCK FALSE
INVARIANTS
  WarmUpSucceeds
