SPECIFICATION Spec
CONSTANTS
  NoProc = NoProc
  NoItem = NoItem
  Puller = puller
  Bisync = bisync
  i1 = i1
  i2 = i2
  i3 = i3
  w1 = w1
  w2 = w2
  Items = {i1, i2}
  Kind <- MCKind
  Workers = {w1, w2}
  Handlers = {h1}
  InboxCap = 1
  PushCap = 1
  WorkCap = 1
  MaxAttempts = 2
  DryRun = FALSE
  Requests = {"pause", "signal"}
SYMMETRY MCSymmetry
INVARIANTS
  TypeOK
  Conserved
  ClosedAfterDrain
PROPERTIES
  LossOnlyWhen
  ByTurns
