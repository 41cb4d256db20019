SPECIFICATION Spec
CONSTANTS
    Dirs <- MCDirs
    Leaves <- MCLeaves
    MaxAttempts = 2
    Setups <- DirSetups
INVARIANTS
    TypeOK
    EntriesFollow
PROPERTIES
    Followed
