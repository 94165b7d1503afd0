SPECIFICATION Spec
CONSTANTS
  NLevels = 1
  Lot = 2
  MaxManual = 1
  CancelReads = 2
  FinishReads = 2
  RecoveryReads = 2
  CloseTries = 1
  EmergencyTries = 2
  MaxFaults = 0
INVARIANTS
  TypeOK
PROPERTIES
  SafeModeReleased
  RearmReplacesL1
