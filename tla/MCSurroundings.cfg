SPECIFICATION SurroundingsSpec
CONSTANTS
    Cameras = {1, 2}
    RgbCameras = {1}
    MaxTime = 3
    MaxSkew = 1
    MaxAge = 2
    PacketSkew = 1
    Retention = 1
    MaxKeyframes = 1
    MaxGeneration = 3
    Places = {1, 2}
    Nowhere = 0
    Posed = TRUE
    MaxBatches = 2
    MaxManifestSize = 9
    Worlds = {w1, w2}
    MonitorMaxAge = 2
    SweepInterval = 1
    ProbesPerUpdate = 1
    QueryStall = 2
    LocateLimit = 1
    MaxSurfaces = 2
    RoomClock = 3
    RoomRevisions = 6
INVARIANTS
  RoomInv
  RetainedInv
  NothingFromBeforeTheClear
  NoExpiryHole
PROPERTIES
  FrozenUntilAsked
CHECK_DEADLOCK FALSE
