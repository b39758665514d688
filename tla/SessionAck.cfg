SPECIFICATION Spec
CONSTANTS
  MaxConnect = 1
  MaxInc = 2
  Faults <- NoFault
INVARIANTS CleanMeansGone
CHECK_DEADLOCK FALSE
