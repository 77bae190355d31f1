SPECIFICATION Spec
CONSTANTS
  w1 = w1
  w2 = w2
  e1 = e1
  Worker <- TwoWorkers
  Execution <- OneExecution
  RedisMayFail = FALSE
  TtlOutlivesTask = TRUE
  PoolLoss = FALSE
  MaxFaults = 1
CHECK_DEADLOCK FALSE
PROPERTIES
  AtLeastOnce
