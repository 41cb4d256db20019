SPECIFICATION Spec
CONSTANTS
    Workers = {w1, w2}
    Setups <- FileSetups
INVARIANTS
    TypeOK
    SafetyNet
    LocalStands
    RemoteStands
PROPERTIES
    PullKeepsEdits
    Converges
