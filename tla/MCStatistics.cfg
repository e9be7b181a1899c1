SPECIFICATION FairSpec
CONSTANTS
  a1 = a1
  a2 = a2
  i1 = i1
  Activity <- MCActivity
  Item <- MCItem
  Private <- MCPrivate
  MaxTime = 2
  MaxDelay = 1
  MaxRows = 2
INVARIANTS
  TypeOK
  AddedOnce
  CreditedHasScore
PROPERTIES
  ForgottenOnlyIf
  ScheduledIsUpdated
CHECK_DEADLOCK FALSE
