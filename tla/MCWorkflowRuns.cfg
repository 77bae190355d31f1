SPECIFICATION Spec
CONSTANTS
  Workflows <- AllWorkflows
  NodeKinds <- Programs
  ProjectOf <- Projects
  Unknown = "unknown"
  Unlimited = Unlimited
  Windows = {1, 2}
  BatchSize = 2
  Ids = {"a", "b"}
  Vectors <- SomeVectors
  Score <- DotProduct
  MaxDepth = 3
INVARIANTS HistoryIsTheLatest NothingEscapesTheSummary VectorStoreIsAMap
PROPERTY RunsEnd
CHECK_DEADLOCK FALSE
