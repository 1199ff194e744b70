\* Confirmed fills, the reconciler's override, and strategies that may sell
\* each other's coins, as the engine's exits do.
SPECIFICATION Spec
CONSTANTS
  Symbol = {btc, eth}
  Strategy = {vob, cr}
  Pid = {p1, p2, p3}
  NoPid = none
  Dust = 1
  MaxHeld = 3
  Oversell = TRUE
SYMMETRY Symmetry
INVARIANTS Consistent
PROPERTIES ClosedIsFinal ImplementsBook OverrideReconciles
\* every id used and every coin sold: the bounded environment may stop
CHECK_DEADLOCK FALSE
