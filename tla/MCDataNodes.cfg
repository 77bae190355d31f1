SPECIFICATION Spec
CONSTANTS
  Keys <- AllKeys
  NoKey = "None"
  Payloads = {1, 2}
  FieldValues <- Seen
  ValuesMatch <- Match
  Ports = {"main", "other"}
  CasePorts = {"main", "other", "unknown"}
  MaxItems = 3
  MaxCases = 2
  Segments = {"a", "b", "c"}
  Blank = ""
  Names <- Paths
  Leaves = {"p", "q", "x", "y"}
  Empty = "{}"
  Bodies <- SmallBodies
  Values <- Assigned
  NotDict = NotDict
  MaxEntries = 3
  ChunkSize = 4
  MaxPieces = 7
INVARIANTS
  JoinsMatchTheKeys
  RoutingIsExact
  FieldsGetTheirValues
  ChunksCoverTheText
CHECK_DEADLOCK FALSE
