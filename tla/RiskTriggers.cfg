\* Failures, disconnects, silence, slow messages, every signal of account and
\* market, and the window of orders, with every operator action and restarts.
SPECIFICATION FairSpec
CONSTANTS
  MaxWsDisconnect = 1
  MaxAuthFailures = 1
  MaxReconcileFailures = 2
  WsTimeout = 0
  LatencyWindow = 1
  LatencyDuration = 1
  MinOrderEvents = 5
  MaxOrderEvents = 5
  MaxLatencyEvents = 1
  Beyond = 0
  Signals = {"safe loss", "halt loss", "volatile", "exposed"}
  None = none
PROPERTIES HaltIsManual NormalIsClean CausesEscalate
