SPECIFICATION FairSpec
CONSTANTS
  MaxPackets = 3
  AckOnly = {1}
  ReceivedCap = 3
  InitialRto = 500
  InitialRttVar = 250
  MinRto = 200
  Samples = {40, 400}
  NumberLimit = 256
  Base = 4
  IdLen = 2
  Headers <- MCHeaders
  Payloads <- MCPayloads
  Delays <- MCDelays
INVARIANTS
  AckedHaveArrived
  EachHandedOnce
  AcksCoverNeighbours
  RttBounds
  WireReadsBack
PROPERTIES
  EventuallyAcked
CHECK_DEADLOCK FALSE
