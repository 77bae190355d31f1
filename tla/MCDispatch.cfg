SPECIFICATION Spec
CONSTANTS
  w1 = w1
  w2 = w2
  e1 = e1
  Worker <- TwoWorkers
  Execution <- OneExecution
  RedisMayFail = TRUE
  TtlOutlivesTask = FALSE
  PoolLoss = TRUE
  MaxFaults = 2
CHECK_DEADLOCK FALSE
INVARIANTS
  OneRunnerPerExecution
  ClaimsAreBacked
  RowsAgree
  RowsHaveTheirPayload
PROPERTIES
  LaterRunsWin
  EveryExecutionIsSaved
