\* The policies, each by itself: MCPolicies.tla.
INIT InitPolicies
NEXT NextPolicies
CONSTANTS
  MaxAge = 7
  Profits <- MCProfits
  Breakouts = {9800, 9950, 10000}
  Ranges = {20, 50, 100}
  Drawdowns = {0, 30, 31, 40, 41}
  Losses = {0, 15, 16, 20, 21}
  PreserveDays = 3
  GrowthDays = 2
INVARIANT StateIsEarned
INVARIANT TimeStopNeverQuicker
INVARIANT DangerBuysNoMore
PROPERTY NoFlapping
PROPERTY OnlyLowered
