CONSTANTS
  Currency = {"gbp", "usd"}
  Base = "gbp"
  Instrument = {"msft", "hsba"}
  Event <- MCEvent
  MaxEvents = 5
SPECIFICATION MCSpec
CHECK_DEADLOCK FALSE
INVARIANTS
  TypeOK
  BalanceIsNetCash
  BorrowsCovered
  FeesBookedOnce
  ValueConserved
  CostConserved
  MethodsAgree
  ProfitIsAccounted
  TrackerFollowsLots
