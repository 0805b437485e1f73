SPECIFICATION FairServerSpec
CONSTANTS
  PanMin = 0
  PanMax = 2
  CommandTimeout = 2
  MaxLease = 1
  ChallengeAge = 1
  TrackingLoss = FALSE
  Inputs <- LiveInputs
  MaxTime = 3
  MaxSessions = 1
  Conns = {c1, c2}
  NoConn = NoConn
INVARIANTS
  TickNeverRaises
PROPERTIES
  ImplementsLease
  LeaseEnds
  ServerSettles
CHECK_DEADLOCK FALSE
