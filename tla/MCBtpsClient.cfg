SPECIFICATION Spec
CONSTANTS
  r1 = r1
  r2 = r2
  a = a
  b = b
  None = None
  Requests = {r1, r2}
  Ids = {a, b}
  IdOf <- MCDistinct
  Sockets = {s1, s2}
  WriteResults = {TRUE, FALSE}
  Options <- MCUpdates
INVARIANTS
  ConnectingIsUnderWay
  ConnectedHasSocket
  BackpressureIsDraining
PROPERTIES
  WritesAreAwaited
  NoWriteAfterDestroy
CHECK_DEADLOCK FALSE
