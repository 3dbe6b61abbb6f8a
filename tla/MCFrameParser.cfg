SPECIFICATION FairSpec
CONSTANTS
  Streams <- MCStreams
  MaxFrameSize = 3
  MaxBufferSize = 7
  MaxChunk = 4
  Quarter = 2
  Samples <- MCSamples
INVARIANTS
  TypeOK
  Aligned
  NoGapWithoutError
  NumbersReadBack
PROPERTIES
  WedgedUntilCleared
  FramesArrive
  DeliverySpec
