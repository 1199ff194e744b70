\* Saves of a position racing each other, and a database that may fail.
SPECIFICATION PSpec
CONSTANTS
  Symbol = {btc}
  Strategy = {vob}
  Pid = {p1, p2}
  NoPid = none
  Dust = 0
  MaxHeld = 2
  Oversell = FALSE
  Task = {k1, k2}
  NoRow = norow
  MaxCrashes = 1
  DbMayFail = TRUE
SYMMETRY Symmetry
INVARIANTS PConsistent SavedWhenSettled
PROPERTIES RestoreExact NeverReopened
\* every id used and every coin sold: the bounded environment may stop
CHECK_DEADLOCK FALSE
