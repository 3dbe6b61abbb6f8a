SPECIFICATION Spec
CONSTANTS
  MinWindow = 1
  MaxWindow = 1
  U32 = 3
  ExactF32 = 2
  InitialWindow = 1
  WindowLimit = 1
  Roles <- MCEndpoints
  Ids <- MCAllIds
  Amounts = {}
  Limits = {1}
  Schedules <- MCTwoParents
  MaxTotal = 0
INVARIANTS
  AcceptedInOrder
  AdmittedHaveWindows
  QueuedOnce
  AtMostOneParent
PROPERTIES
  SweepLeavesNothing
