SPECIFICATION Spec
CONSTANTS
  MinWindow = 1
  MaxWindow = 2
  U32 = 5
  ExactF32 = 2
  Streams <- MCStreams
  Amounts <- MCAmounts
  InitialSizes <- MCInitialSizes
  MaxTotal = 2
  MaxPending = 1
INVARIANTS
  TypeOK
  ConnectionLedger
  SendPathsAgree
  AnnouncedUpdateRestores
  FailureSparesStreams
PROPERTIES
  DebitsAgree
