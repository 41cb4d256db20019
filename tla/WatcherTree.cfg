SPECIFICATION Spec
CONSTANTS
  Dirs <- MCDirs
  Files <- MCFiles
  Start <- MCStart
  NoWatch = NoWatch
  NoFile = NoFile
  UserOps = {"mkdir", "write", "remove", "rename", "out", "pull"}
  Calm = TRUE
  MaxOps = 4
INVARIANTS
  TypeOK
  EveryChangeTold
  Covered
