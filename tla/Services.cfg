\* The services, each by itself: MCServices.tla.
INIT InitServices
NEXT NextServices
CONSTANTS
  Batch = 2
  BufferSize = 3
  MaxListed = 4
  RoundCycle = 12
  MaxMinute = 6
  Fetchers = {f1, f2}
  PageSize = 2
  LastTime = 3
  Coins = {BTC, ETH}
  CacheLimit = 1
  MaxOrders = 2
  PositionsEvery = 2
  OrdersEvery = 4
  MaxFailures = 2
  MaxTotal = 1
  MaxBooked = 2
  Capital = 1000
  MaxOpen = 2
  HoldLimit = 2
  LastCandle = 3
  Cash = 10000
  AtOnce = 1
  LastStamp = 4
  Discovered = 1
  Generated = 3
  Optimized = 4
  LastRound = 5
  MaxRetries = 1
  SameType = 1
  MaxOptimized = 1
  Rounds = 3
  SearchDays = 7
  WindowDays = 4
  StepDays = 2
  MaxSockets = 3
  MaxAttempts = 1
  MaxConnects = 2
  Cooldown = 6
INVARIANT MarketDataCurrent
INVARIANT BooksAgree
INVARIANT BacktestsBalance
INVARIANT BestIsMeasured
INVARIANT StreamSound
CHECK_DEADLOCK FALSE
