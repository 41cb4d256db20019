SPECIFICATION Spec
CONSTANTS
  Ids = {d1, d2, d3, d4}
  Paths = {"f", "g"}
  Nested = {}
  NoPath = NoPath
  Aside = Aside
  NoEntry = NoEntry
  Setups <- SafetySetups
SYMMETRY MCSymmetry
INVARIANTS
  TypeOK
  LiveMirrored
  DeadRemoved
