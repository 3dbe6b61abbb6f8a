SPECIFICATION Spec
CONSTANTS
  MinWindow = 1
  MaxWindow = 2
  U32 = 5
  ExactF32 = 2
  InitialWindow = 2
  WindowLimit = 2
  Roles <- MCReceiver
  Ids <- MCOneId
  Amounts = {1, 2}
  Limits = {1, 2}
  Schedules <- MCPlain
  MaxTotal = 2
INVARIANTS
  TypeOK
  HalfClosedIsEarned
PROPERTIES
  LegalTransitions
  NothingSentAfterEnd
