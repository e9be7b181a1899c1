SPECIFICATION Spec
CONSTANTS
  OldDatabases <- MCOldDatabases
  MaxWrites = 2
  MaxFailures = 1
INVARIANTS
  TypeOK
  BackupsAreGood
PROPERTIES
  UpgradeIsSound
CHECK_DEADLOCK FALSE
