SPECIFICATION FairSpec
CONSTANTS
  Capacity = 2
  MaxRequests = 7
INVARIANTS
  ResponsesInOrder
  EntriesAccounted
PROPERTIES
  RequestsFinish
CHECK_DEADLOCK FALSE
