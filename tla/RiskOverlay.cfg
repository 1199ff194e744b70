SPECIFICATION OverlaySpec
CONSTANTS
  StayTicks = 1
  GradualTicks = 1
  Levels = {1000, 989, 985, 979, 964, 949, 0}
  Severities = {0}
INVARIANTS GatesClosed
PROPERTIES LimitsLast
