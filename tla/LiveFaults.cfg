SPECIFICATION Spec
CONSTANTS
  NLevels = 2
  Lot = 1
  MaxManual = 0
  CancelReads = 2
  FinishReads = 2
  RecoveryReads = 2
  CloseTries = 1
  EmergencyTries = 2
  MaxFaults = 2
INVARIANTS
  ClosedIsClean
  LedgerExact
  LedgerSurvivesCrash
  ExposureBounded
PROPERTIES
  NoBuyWhenBlocked
  ImplementsContract
