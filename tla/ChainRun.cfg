CONSTANTS
  Runners = {r1}
  Attempts <- MCAttempts
  Requests <- MCRequests
  Runtime = 1
  TestDates = {2, 3}
  Exported = {1, 2, 3}
  Calendar = {1, 2, 3}
  Bytes = {1, 2}
  MaxFaults = 1
  MaxCrashes = 1
SPECIFICATION FairSpec
INVARIANTS ResultIsOneLineage EveryDateReachesResult
PROPERTIES ChainEnds
