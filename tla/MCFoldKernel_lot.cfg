CONSTANTS
  Currency = {"gbp", "usd"}
  Base = "gbp"
  Instrument = {"msft", "hsba"}
  Event <- EquityEvents
  MaxEvents = 5
SPECIFICATION Spec
CHECK_DEADLOCK FALSE
INVARIANTS
  LotsAreEvents
