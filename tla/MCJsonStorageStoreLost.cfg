SPECIFICATION Spec
CONSTANTS
  None = None
  Old = Old
  Stores = {p1}
  Ids = {i1}
  Calls = {c1, c2}
  Flushers = {f1, f2}
  FileExists <- MCMissing
SYMMETRY MCSymmetry
INVARIANT
  AckedIsKept
CHECK_DEADLOCK FALSE
