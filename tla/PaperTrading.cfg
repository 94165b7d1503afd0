SPECIFICATION Spec
CONSTANTS
  NLevels = 2
  Distance = 1
  MaxAge = 5
  Minute = 3
  NSymbols = 2
  Tapes <- Moving
  Stored <- TwoKinds
  GalkaLevels = {2}
  Balance = 1
  MaxBuffer = 2
  MaxRecovery = 5
  Horizon = 6
  MaxEvents = 2
INVARIANTS
  PaperTypeOK
  LedgerMatches
  GapsCovered
  ReplayedOnce
  HoldingsDisjoint
PROPERTIES
  PositionLeavesByTrade
CHECK_DEADLOCK FALSE
