SPECIFICATION Spec
CONSTANTS
  MaxN = 4
  Setups <- ReuseSetups
  NoEntry = NoEntry
INVARIANTS
  Preserved
