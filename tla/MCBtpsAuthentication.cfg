SPECIFICATION Spec
CONSTANTS
  None = None
  Agents = {a1}
  AuthTokens = {u1}
  RefreshTokens = {t1, t2, t3}
  Keys = {k1, k2}
  Calls = {w1, w2, w3}
SYMMETRY MCSymmetry
INVARIANTS
  IssuedMeansAccepted
  OneTokenPerAgent
  SessionIsGood
  HistoryTraces
  AuthTokenOnce
CHECK_DEADLOCK FALSE
