SPECIFICATION FairSpec
CONSTANTS
  a1 = a1
  a2 = a2
  scoring = scoring
  other = other
  broken = broken
  NoActivity = NoActivity
  NoPlugin = NoPlugin
  Activity <- MCActivity
  Plugin <- MCPlugin
  Enabled <- MCPlugin
  Broken <- MCBroken
  Scoring = scoring
  Calls <- MCCalls
  MaxChanges = 4
INVARIANTS
  TypeOK
  FeaturesAreSound
PROPERTIES
  ShutdownEnds
CHECK_DEADLOCK FALSE
