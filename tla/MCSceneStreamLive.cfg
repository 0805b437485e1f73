SPECIFICATION MCFairSpec
CONSTANTS
    Peers = {p1}
    NoPacket = NoPacket
    NoPeer = NoPeer
    MaxIdentities = 2
    MaxBatches = 2
    MaxGeneration = 2
PROPERTIES
  HeadsetCatchesUp
  PublisherCloses
CHECK_DEADLOCK FALSE
