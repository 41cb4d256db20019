SPECIFICATION FairSpec
CONSTANTS
  Ids = {d1, d2}
  Paths = {"f", "g"}
  Nested = {}
  NoPath = NoPath
  Aside = Aside
  NoEntry = NoEntry
  Setups <- RepairSetups
PROPERTY
  Repaired
