SPECIFICATION Spec
CONSTANTS
    MaxDepth = 4
    MaxProbe = 6
    Setups <- RepairSetups
INVARIANTS
    TypeOK
    Survives
    DoneFlat
    EntriesCarried
    
