SPECIFICATION BatchSpec
CONSTANTS
  Depth <- MCDepth
  Pixel <- MCPixel
  Outside = Outside
  Reach = 8
  Jump = 1
  Scenes = {"wall", "edge", "slab", "void"}
  PlainScene = "wall"
  Profiles <- MCProfiles
  Rigs <- MCRigs
  RgbCamera = 5
  MaxAge = 2
  PacketSkew = 1
  MaxLate = 1
  MaxExposure = 3
  Voxels = {0, 1, 7, 50001}
  Budgets = {5, 50000}
  Keyframes = {0, 1, 4}
INVARIANTS
  BatchInv
  EveryBatchFits
  ReaderFollowsWriter
  PointsSpread
CHECK_DEADLOCK FALSE
