SPECIFICATION CaptureSpec
CONSTANTS
    Cameras = {1}
    RgbCameras = {1}
    GimbalCamera = 1
    Capacity = 2
    MaxGap = 2
    MaxTime = 3
    MaxAge = 1
    MaxSkew = 1
    Radii = {0, 1}
    Traces <- SampleTraces
INVARIANTS
  CaptureInv
PROPERTIES
  AnswersNeverChange
  ColorNeverGoesBack
  CaptureImplementsFrameSource
CHECK_DEADLOCK FALSE
