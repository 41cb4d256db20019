SPECIFICATION FairSpec
CONSTANTS
  Ids = {d1, d2}
  Paths = {"g"}
  Nested = {"g"}
  NoPath = NoPath
  Aside = Aside
  NoEntry = NoEntry
  Setups <- FolderSetups
PROPERTY
  UnresolvedCaught
