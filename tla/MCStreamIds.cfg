SPECIFICATION Spec
CONSTANTS
  MinWindow = 1
  MaxWindow = 1
  U32 = 3
  ExactF32 = 2
  InitialWindow = 1
  WindowLimit = 1
  Roles <- MCServer
  Ids <- MCOwnIds
  Amounts = {1}
  Limits = {2}
  Schedules <- MCPlain
  MaxTotal = 1
INVARIANTS
  OwnIdsAreOurs
