SPECIFICATION FairSpec
CONSTANTS
  KeepAlive = TRUE
  PeerFinishes = TRUE
  MaxInFlight = 3
PROPERTIES
  SilentWhenDone
  ClientSettles
  LifecycleSpec
