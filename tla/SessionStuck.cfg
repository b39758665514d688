SPECIFICATION FairSpec
CONSTANTS
  MaxConnect = 2
  MaxInc = 2
  Faults <- NoFault
PROPERTIES StartResolves
CHECK_DEADLOCK FALSE
