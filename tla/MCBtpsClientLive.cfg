SPECIFICATION FairSpec
CONSTANTS
  r1 = r1
  r2 = r2
  a = a
  b = b
  None = None
  Requests = {r1, r2}
  Ids = {a}
  IdOf <- MCReused
  Sockets = {s1, s2}
  WriteResults = {TRUE}
  Options <- MCOptions
INVARIANTS
  EveryCallIsTimed
  QueueIsUnsettled
PROPERTIES
  PromiseSpec
  EveryCallSettles
  ConnectingEnds
CHECK_DEADLOCK FALSE
