SPECIFICATION FairSpec
CONSTANTS
  NLevels = 1
  Lot = 1
  MaxManual = 1
  CancelReads = 2
  FinishReads = 2
  RecoveryReads = 2
  CloseTries = 1
  EmergencyTries = 2
  MaxFaults = 1
PROPERTIES
  RecoveryEnds
  RecoveryProtects
