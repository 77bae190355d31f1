SPECIFICATION Spec
CONSTANTS
  Workflows <- AllWorkflows
  NodeKinds <- Programs
  ProjectOf <- Projects
  Unknown = "unknown"
  Unlimited = Unlimited
  Windows = {1, 2}
  BatchSize = 2
  Ids = {"a", "b"}
  Vectors <- SomeVectors
  Score <- DotProduct
  MaxDepth = 2

PROPERTY StaticDataPersists
CHECK_DEADLOCK FALSE
