\* The two calls of app_main on a network that is lost twice, with two failures.
CONSTANTS
  Script <- MainC
  MaxFaults = 2
  MaximumRetry = 5
  MaxEvents = 3
  MaxLosses = 2
SPECIFICATION FairRobotSpec
INVARIANTS
  RobotTypeOK
  NothingLeaks
  SendsOwnOrLater
  AttemptsBounded
  CallsAfterWifi
PROPERTIES
  FailAfterAllRetries
  MainProceeds
  AllCallsEnd
\* app_main returns and its tasks delete themselves: then nothing happens.
CHECK_DEADLOCK FALSE
