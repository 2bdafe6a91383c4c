SPECIFICATION LossSpec
CONSTANTS
  Operator = "greater_than"
  Threshold = 1
  Exit = 0
  CooldownDays = 1
  Metrics <- Drawdowns
  Waivers <- Exceptions
  MaxDay = 4
  MaxStamp = 4
  MaxBatch = 2
INVARIANTS EpisodesSpaced NoUnguardedBreach
