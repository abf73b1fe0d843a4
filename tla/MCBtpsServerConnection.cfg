SPECIFICATION Spec
CONSTANTS
  N = 2
  None = None
  LineSet <- MCEveryKind
  Installations <- MCInstallations
INVARIANTS
  DeliveredIsCleared
  AckedIsForwarded
  AnsweredOnce
  SilenceHasCause
  SequentialIsCorrelated
CHECK_DEADLOCK FALSE
