SPECIFICATION Spec
CONSTANTS
  NLevels = 2
  Distance = 1
  MaxAge = 9
  Minute = 3
  NSymbols = 1
  Tapes <- Calm
  Stored <- OneManual
  GalkaLevels = {3}
  Balance = 1
  MaxBuffer = 2
  MaxRecovery = 9
  Horizon = 7
  MaxEvents = 2
INVARIANT ResumeReplaysAll
CHECK_DEADLOCK FALSE
