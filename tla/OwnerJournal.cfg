SPECIFICATION Spec
CONSTANTS
  u1 = u1
  u2 = u2
  e1 = e1
  e2 = e2
  NoProc = NoProc
  UiProc <- TwoUi
  ExtProc <- TwoExt
  MaxAttempt = 3
  DirSyncMayFail = FALSE
SYMMETRY Symmetric
CHECK_DEADLOCK FALSE
INVARIANTS
  TypeOK
  OwnerIsJournalled
  LostOwnerIsDead
  CleanedIsFinal
PROPERTIES
  TombstoneHolds
  AttemptNeverReplaced
  OwnershipHandover
  OwnershipSpec
