\* More handlers than the queue has room for.
SPECIFICATION FairSpec
CONSTANTS
  Request = {r1, r2, r3, r4}
  NoRequest = none
  MaxSize = 2
INVARIANTS FirstInFirstRun PendingExact
PROPERTIES EveryRequestEnds
\* every request was answered or timed out: nothing is left to do
CHECK_DEADLOCK FALSE
