CONSTANTS
  idA = idA
  idB = idB
  btc = btc
  Id = {idA, idB}
  SymbolOf <- MCSymbolOf
  MaxPrice = 3
  Entries = {2}
  Stops = {1}
  Distance = 1
  Drop = 2
  MaxMade = 3
SPECIFICATION WatchSpec
INVARIANT WatchSound
PROPERTIES StoppedLeave StoppedInTime
