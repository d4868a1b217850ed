\* One frame, with a white spot at the lower border of the picture.
CONSTANTS
  Size = 8
  TopMargin = 2
  MinL = 2
  Stepback = 1
  MaxCodes = 5
  Frames = {f1}
  FrameQueueLen = 2
  CamQueueLen = 2
  NULL = NULL
  Pictures <- Spot
  Surroundings <- SomeMemory
SPECIFICATION Spec
INVARIANT
  SendsNothing
CHECK_DEADLOCK FALSE
