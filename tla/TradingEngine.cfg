CONSTANTS
  Symbol = {x}
  Strategies = 2
  Price = 2
  MinOrder = 2
  MaxPositions = 2
  Sizes = {4}
  StartKrw = 4
  SavedQty = {0}
  MaxCrashes = 1
SPECIFICATION Spec
INVARIANTS Backed
PROPERTIES ExitsLeave
