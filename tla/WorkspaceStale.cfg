SPECIFICATION Spec
CONSTANTS
  Side = 2
  Period = 1
  Merge = 2
  Around = 3
  Warmup = 3
  MinScore = 45
  Past = 14
  NDepths = 1
  ReclaimBuffer = 1
  TrailDistance = 2
  MaxAge = 4
  MaxRecords = 1
  Intervals = {"m15", "h1"}
  Default = "m15"
  Length <- Durations
  Tapes <- Markets
  AlertPrice = 3
  MaxAlerts = 1
  MaxLedger = 1
  Horizon = 4
  MaxClicks = 3
  MaxFaults = 1
CHECK_DEADLOCK FALSE
PROPERTIES
  NoRepaintEver
