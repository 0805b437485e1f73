SPECIFICATION MCSpec
CONSTANTS
    Peers = {p1, p2}
    NoPacket = NoPacket
    NoPeer = NoPeer
    MaxIdentities = 2
    MaxBatches = 3
    MaxGeneration = 3
INVARIANTS
  PublisherInv
  HeadsetInv
PROPERTIES
  FramesInOrder
  FeedbackNeverGoesBack
CHECK_DEADLOCK FALSE
