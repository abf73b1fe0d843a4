SPECIFICATION Spec
CONSTANTS
  None = None
  Old = Old
  Stores = {p1, p2}
  Ids = {i1, i2}
  Calls = {c1, c2}
  Flushers = {f1, f2}
  FileExists <- MCMissing
SYMMETRY MCSymmetry
INVARIANTS
  AckedIsUnderWay
  LockIsTheWriters
  CleanCacheIsFile
  TurnsKeepAcked
CHECK_DEADLOCK FALSE
