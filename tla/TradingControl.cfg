\* A pause, a resume and a flatten race with failures, the monitor and the
\* way out of HALT, through a queue that fills up.
SPECIFICATION FairSpec
CONSTANTS
  PauseRequest = {p1}
  ResumeRequest = {r1}
  OtherRequest = {f1}
  NoRequest = none
  MaxSize = 1
  MaxReconcileFailures = 2
  Signals = {"volatile"}
  None = noEvent
  CleanupEvery = 3
  MaxBuys = 1
PROPERTIES PauseHolds ExitsGoOn ImplementsQueue ImplementsRisk
