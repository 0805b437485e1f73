SPECIFICATION ServerSpec
CONSTANTS
  PanMin = 0
  PanMax = 1
  CommandTimeout = 2
  MaxLease = 1
  ChallengeAge = 1
  TrackingLoss = TRUE
  Inputs <- MCInputs
  MaxTime = 3
  MaxSessions = 2
  Conns = {c1, c2}
  NoConn = NoConn
INVARIANTS
  ServerInv
PROPERTIES
  NoMotionAfterClose
  LeaseConsumesChallenge
CHECK_DEADLOCK FALSE
