\* The two calls of app_main on a network that does not fail.
CONSTANTS
  Script <- MainC
  MaxFaults = 0
SPECIFICATION Spec
INVARIANT
  EndsAnswered
