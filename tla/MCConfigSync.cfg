SPECIFICATION SyncFairSpec
CONSTANTS
  main = main
  dbus = dbus
  Writer <- MCWriter
  Owner = main
  MaxPosted = 4
INVARIANTS
  SyncTypeOK
  ForgottenOnlyIfMissed
PROPERTIES
  ChangesAreSaved
CHECK_DEADLOCK FALSE
