SPECIFICATION EitherSpec
CONSTANTS
  N = 2
  Lot = 2
  MinCommission = 1
  BuyRate = 10
  SellRate = 20
  RateScale = 100
  LimitTolerance = 0
  Basis = "decision_close_estimate"
  HoldingRule = "preserve_one_lot"
  CashPolicy = "round_down_to_lot"
  InitialBooks <- AllBooks
  DecisionRows <- CoreRows
  Quotes <- CoreQuotes
  MaxTarget = 6
  MaxRounds = 2
INVARIANTS StagesAgree SoldWithinHeldAtOpen FundedBuysFill CarryKeepsStageAlive
PROPERTIES LedgerSpec
