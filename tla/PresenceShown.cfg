SPECIFICATION Spec
CONSTANTS
    MaxSessions = 5
    FaultSets = {{"drop", "crash"}, {"drop", "crash", "race"}}
INVARIANTS
    TypeOK
    GoneOffline
PROPERTIES
    Shown
CHECK_DEADLOCK FALSE
