SPECIFICATION FairSpec
CONSTANTS
  Runners = {r1}
  Last = 3
  ReadOnly <- FirstStage
  Fallible <- Everywhere
  MaxFaults = 3
  MaxCrashes = 3
INVARIANTS ResultIsBacked
PROPERTIES PromiseSpec RunEnds
