CONSTANTS
  Currency = {"gbp", "usd"}
  Base = "gbp"
  Instrument = {"msft", "hsba"}
  Event <- OddEvents
  MaxEvents = 5
SPECIFICATION Spec
CHECK_DEADLOCK FALSE
INVARIANTS
  ExpiryCloses
