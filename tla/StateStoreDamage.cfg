SPECIFICATION Spec
CONSTANTS
  MaxVersion = 4
  MaxCrashes = 0
  MaxDamage = 1
INVARIANTS
  DamageIsRecovered
