SPECIFICATION FairSpec
CONSTANTS
  a1 = a1
  a2 = a2
  main = main
  dbus = dbus
  NoActivity = NoActivity
  Activity <- MCActivity
  Thread <- MCThread
  Main = main
  Inner = inner
  Asked <- MCAsked
  MaxQueue = 2
  MaxCalls = 1
  MaxPosted = 1
INVARIANTS
  TypeOK
  FlagHasProcessor
  ReportedCallOutstanding
  QueueBounded
PROPERTIES
  PostedWorkIsDone
  ImplementsSessions
