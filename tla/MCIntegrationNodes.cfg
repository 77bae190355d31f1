SPECIFICATION Spec
CONSTANTS
  Nodes <- AllNodes
  Forms <- AllForms
  Requests <- AllRequests
  Calls <- AllCalls
  Types <- AllTypes
  None = None
  ItemCounts = {0, 2}
  MaxChunks = 2
  MaxEdits = 3
  SharedFields <- KnownShared
  LateSecrets <- KnownLate
INVARIANTS
  TypeOK
  CompleteFormIsAccepted
  TestedCredentialIsAccepted
  HiddenFieldsHaveNoEffect
  RequestsFollowItems
PROPERTIES
  RunEnds
CHECK_DEADLOCK FALSE
