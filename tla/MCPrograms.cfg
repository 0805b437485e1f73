SPECIFICATION ProgramSpec
CONSTANTS
    Ids = {c1, c2}
    Robot = robot
    Box = box
    MaxObjects = 2
    Open = 2
    Physics = {p1, p2}
    MaxRevision = 1
    MaxGeneration = 4
    Rates = 2
    MaxPid = 3
    MaxChanges = 2
    MaxVersion = 3
INVARIANTS
  SceneInv
  SweepInv
  BundleInv
PROPERTIES
  UnfinishedEditLeavesTheScene
  ClosesOnlyOnFreshForces
  SessionImplementsScene
CHECK_DEADLOCK FALSE
