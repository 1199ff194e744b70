CONSTANTS
  Qty = 2
  MaxRetries = 2
  MaxUnseen = 2
SPECIFICATION HedgeSpec
INVARIANTS LegsConsistent HedgedOnce NeverOversold
PROPERTY PairAnswered
