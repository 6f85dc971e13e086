CONSTANTS
  Currency = {"gbp", "usd"}
  Base = "gbp"
  Instrument = {"msft", "hsba"}
  Event <- CashEvents
  MaxEvents = 5
SPECIFICATION Spec
CHECK_DEADLOCK FALSE
INVARIANTS
  EveryBorrowCovered
