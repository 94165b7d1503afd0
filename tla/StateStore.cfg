SPECIFICATION Spec
CONSTANTS
  MaxVersion = 4
  MaxCrashes = 3
  MaxDamage = 2
INVARIANTS
  StoreTypeOK
  DamageCostsOneSave
PROPERTIES
  ImplementsDurable
