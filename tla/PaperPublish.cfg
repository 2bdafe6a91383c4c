SPECIFICATION FairPublicationSpec
CONSTANTS
  Runners = {r1, r2}
  Days = 2
  Documents <- TwoDocuments
  Refused <- SecondDate
  MaxAttempts = 2
INVARIANTS JudgedByPublisher
PROPERTIES ChainSpec StageEnds
CHECK_DEADLOCK FALSE
