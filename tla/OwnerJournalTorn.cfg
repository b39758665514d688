SPECIFICATION Spec
CONSTANTS
  u1 = u1
  u2 = u2
  e1 = e1
  e2 = e2
  NoProc = NoProc
  UiProc <- TwoUi
  ExtProc <- TwoExt
  MaxAttempt = 2
  DirSyncMayFail = TRUE
SYMMETRY Symmetric
CHECK_DEADLOCK FALSE
INVARIANTS
  CleanedIsFinal
PROPERTIES
  TombstoneHolds
