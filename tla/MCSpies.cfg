SPECIFICATION Spec
CONSTANTS
  d1 = d1
  d2 = d2
  Doc <- MCDoc
  GtkDoc <- MCGtkDoc
  Described <- MCDescribed
  MaxTime = 3
  MaxUses = 2
INVARIANTS
  TypeOK
  EachUseOnce
  RecordedWhole
CHECK_DEADLOCK FALSE
