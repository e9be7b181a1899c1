SPECIFICATION Spec
CONSTANTS
  a1 = a1
  a2 = a2
  a3 = a3
  main = main
  dbus = dbus
  NoActivity = NoActivity
  Activity <- MCActivity
  Main = main
  DBus = dbus
  InitialConfigs <- MCInitialConfigs
  DefaultNames = 1
  MaxOwed = 1
  MaxCalls = 2
  MaxRestarts = 1
INVARIANT StateIsOfKnown
