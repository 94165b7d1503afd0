SPECIFICATION Spec
CONSTANTS
  MaxVersion = 4
  MaxCrashes = 3
  MaxDamage = 2
PROPERTIES
  DamagedIsNotEmpty
