SPECIFICATION LiveSpec
CONSTANTS
  Frames <- LosingFrames
  Commands = {}
  InputAge = 0
  QueueSize = 1
  MaxSubsteps = 1
  MaxSuspensions = 1
  MaxReferences = 0
  MaxPresses = 1
  MaxSettings = 1
PROPERTIES
  HandLetsGo
