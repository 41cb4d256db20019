SPECIFICATION Spec
CONSTANTS
  MaxN = 4
  Setups <- KeepSetups
  NoEntry = NoEntry
INVARIANTS
  TypeOK
  Preserved
  JournalCovers
  AtMostMaxPerFile
PROPERTIES
  
  EvictLeavesNoFile
