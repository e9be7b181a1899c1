SPECIFICATION FollowSpec
CONSTANTS
  a1 = a1
  a2 = a2
  Activity <- MCActivity
  NoActivity = NoActivity
  MaxChanges = 4
  MaxQueue = 3
INVARIANTS
  FollowTypeOK
  FollowersAgree
PROPERTIES
  LeftBehindOnlyIf
SYMMETRY Symmetry
CHECK_DEADLOCK FALSE
