\* Two frame buffers, three calls; a camera that runs may be shut down.
CONSTANTS
  FrameCnt = 2
  Channels <- PairsPerGroup
  MaxTries = 3
SPECIFICATION Spec
INVARIANTS
  TypeOK
  NothingLost
  FreedOnce
  RunningIsComplete
  OthersUndisturbed
CHECK_DEADLOCK FALSE
