SPECIFICATION MCSpec
CONSTANTS
  Frames <- HandFrames
  Commands = {"togglePause", "reset", "box"}
  InputAge = 0
  QueueSize = 1
  MaxSubsteps = 2
  MaxSuspensions = 1
  MaxReferences = 1
  MaxPresses = 1
  MaxSettings = 2
INVARIANTS
  BoundaryInv
  HandMustLetGo
  StaleInputNeverDrives
