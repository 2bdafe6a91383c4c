SPECIFICATION TrainingSpec
CONSTANTS
  a = a  b = b  c = c  Null = Null
  Names <- MCNames
  Sessions <- MCSessions
  Window <- MCWindow
  Arriving <- MCArriving
  Worlds <- MCWorlds
  SplitPolicies <- MCSplits
  FirstSnapshot = 1
  Leaver = c
  LeaveDay = 5
  Horizon = 2
  ListingAge = 2
  MaxLabelSets = 2
  MaxSamples = 1
  MaxPreps = 1
INVARIANTS TrainableRows CrossSectionIsTrained NoOutcomeLeaks PreparedRequestRuns FilterReadsAsOf
CHECK_DEADLOCK FALSE
