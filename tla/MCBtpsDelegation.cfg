SPECIFICATION Spec
CONSTANTS
  None = None
  Device = Device
  saas = saas
  managed = managed
  custom = custom
  d1 = d1
  d2 = d2
  Identities = {saas, managed, custom}
  Domains = {d1, d2}
  DomainOf <- MCDomainOf
  Delegator = saas
  MaxSelector <- MCMaxSelector
  Artifacts = {w1, w2}
  Others = {w2}
  OtherKeys <- MCOtherKeys
  InitCalls = {k1, k2}
SYMMETRY MCSymmetry
INVARIANTS
  HonestIsValid
  ValidIsAuthorised
CHECK_DEADLOCK FALSE
