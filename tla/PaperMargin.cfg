SPECIFICATION Spec
CONSTANTS
  NLevels = 1
  Distance = 1
  MaxAge = 30
  Minute = 2
  NSymbols = 2
  Tapes <- Drop
  Stored <- TwoManual
  GalkaLevels = {}
  Balance = 1
  MaxBuffer = 2
  MaxRecovery = 30
  Horizon = 7
  MaxEvents = 2
INVARIANT ReplayIsChronological
CHECK_DEADLOCK FALSE
