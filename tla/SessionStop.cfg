SPECIFICATION FairSpec
CONSTANTS
  MaxConnect = 1
  MaxInc = 2
  Faults <- PeerFaults
PROPERTIES StopCompletes
CHECK_DEADLOCK FALSE
