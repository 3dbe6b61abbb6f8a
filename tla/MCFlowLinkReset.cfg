SPECIFICATION Spec
CONSTANTS
  MinWindow = 1
  MaxWindow = 8
  U32 = 17
  ExactF32 = 2
  Streams <- MCStreams
  ConnWindow = 3
  StreamWindow = 3
  MaxFrame = 2
  MaxTotal = 5
  Modes <- MCResetModes
INVARIANTS
  ConnectionNeverStalls
CHECK_DEADLOCK FALSE
