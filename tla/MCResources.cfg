SPECIFICATION SlcFairSpec
CONSTANTS
  p = p
  u1 = u1
  u2 = u2
  AboutUri = {u2}
  w1 = w1
  w2 = w2
  App = {p}
  Uri <- MCUri
  Wid <- MCWid
  NoWid = NoWid
  NoUri = NoUri
  Inputs <- MCInputs
  MaxQueue = 2
INVARIANTS
  TypeOK
  FocusIsFollowed
  ReleasedBeforeClosed
PROPERTIES
  ImplementsChannel
  QueueIsEmptied
CHECK_DEADLOCK FALSE
