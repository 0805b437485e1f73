SPECIFICATION MCSpec
CONSTANTS
  PanMin = 0
  PanMax = 0
  CommandTimeout = 2
  MaxLease = 1
  ChallengeAge = 1
  TrackingLoss = FALSE
  Inputs <- NoInputs
  MaxTime = 3
  MaxSessions = 2
  FrameGap = 1
  IntentAge = 0
  SendPeriod = 1
  RpcDeadline = 1
  MaxStarts = 2
  ClientLease = 1
INVARIANTS
  ControlInv
  LeaseBoundedByHand
  EverySessionNeedsTheHand
PROPERTIES
  RearmNeedsLettingGo
