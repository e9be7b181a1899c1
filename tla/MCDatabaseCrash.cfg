SPECIFICATION Spec
CONSTANTS
  OldDatabases <- MCOldDatabases
  MaxWrites = 2
  MaxFailures = 1
INVARIANT BailsOutUpToDate
CHECK_DEADLOCK FALSE
