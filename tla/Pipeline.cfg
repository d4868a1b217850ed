\* The two frames of main.cpp and some pictures to find codes in; the queue
\* is shorter than the two of main.cpp so that it can be full.
CONSTANTS
  Size = 8
  TopMargin = 2
  MinL = 2
  Stepback = 1
  MaxCodes = 5
  Frames = {f1, f2}
  FrameQueueLen = 2
  CamQueueLen = 1
  NULL = NULL
  Pictures <- SomePictures
  Surroundings <- SomeMemory
SPECIFICATION FairSpec
INVARIANTS
  TypeOK
  FramesAccounted
  ReportsWhatIsSeen
  ReportIsVisible
  SingleCodeReported
PROPERTY
  ReportsKeepComing
CHECK_DEADLOCK FALSE
