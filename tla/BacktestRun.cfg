SPECIFICATION RunSpec
CONSTANTS
  NoTargets = NoTargets
  None = None
  NoCap = NoCap
  Instruments <- MCInstruments
  Sessions <- MCSessions
  Quotes <- MCQuotes
  Weights <- MCWeights
  GateAnswers <- MCGate
  Capital = 1000
  BuyLot <- MCLots
  SellLot <- MCSellLot
  MinBuy <- MCMinBuy
  Configs <- MCConfigs
  Industry <- MCIndustry
  EventSets <- MCEvents
  Versions <- MCVersions
INVARIANTS SettledInventoryOnly ClaimsOnTime LimitReferenceFresh
PROPERTIES BuyIsWithinLimits DividendSpec
CHECK_DEADLOCK FALSE
