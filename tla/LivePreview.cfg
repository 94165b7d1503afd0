SPECIFICATION Spec
CONSTANTS
  Coins = {"BTC", "SOL"}
  Intervals = {"15m", "1h"}
  MaxFlight = 2
  MaxClicks = 2
  MaxVersion = 2
  MaxFaults = 2
INVARIANTS
  PreviewHeedsMonitor
