SPECIFICATION LossSpec
CONSTANTS
  Frames <- PausingFrames
  Commands = {"togglePause"}
  InputAge = 0
  QueueSize = 1
  MaxSubsteps = 1
  MaxSuspensions = 1
  MaxReferences = 0
  MaxPresses = 1
  MaxSettings = 1
INVARIANT EveryLossNeedsRelease
