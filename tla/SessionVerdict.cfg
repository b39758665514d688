SPECIFICATION FairSpec
CONSTANTS
  MaxConnect = 2
  MaxInc = 2
  Faults <- Stalls
PROPERTIES VerdictReaches
CHECK_DEADLOCK FALSE
