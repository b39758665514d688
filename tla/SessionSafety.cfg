SPECIFICATION Spec
CONSTANTS
  MaxConnect = 2
  MaxInc = 2
  Faults <- AnyFault
INVARIANTS TypeOK TunnelIsOwned CleanMeansReleased FreshStartIsExclusive AdoptionIsClean StopIsClaimable
PROPERTIES TerminalSticks
CHECK_DEADLOCK FALSE
