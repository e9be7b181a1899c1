SPECIFICATION LinkSpec
CONSTANTS
  a1 = a1
  a2 = a2
  f1 = f1
  p1 = p1
  ActivityId <- MCActivity
  Path <- MCPath
  Application <- MCApplication
  Agent <- MCAgent
  NoActivity = NoActivity
  Favorites = Favorites
  other = other
  Inherited <- MCInherited
  MaxLinks = 5
  MaxCalls = 1
INVARIANTS
  LinkTypeOK
  ViewIsFresh
PROPERTIES
  LinksStand
SYMMETRY Symmetry
CHECK_DEADLOCK FALSE
