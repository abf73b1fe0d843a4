SPECIFICATION FairSpec
CONSTANTS
  None = None
  Receivers = {p1, p2}
  Clients = {c1, c2}
  Calls = {w1, w2}
  Limits = {1, 2}
INVARIANTS
  PoolOwnsClients
  CallsKeepReceiver
PROPERTIES
  PoolIsBounded
  EveryCallEnds
CHECK_DEADLOCK FALSE
