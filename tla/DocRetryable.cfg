SPECIFICATION FairSpec
CONSTANTS
  Runners = {r1}
  Last = 3
  ReadOnly <- FirstStage
  Fallible <- InRequest
  MaxFaults = 1
  MaxCrashes = 0
PROPERTIES FailureIsRetryable
