SPECIFICATION FairSpec
CONSTANTS
  MaxConnect = 1
  MaxInc = 2
  Faults <- AnyFault
PROPERTIES StartResolves VerdictReaches PluginDrains
CHECK_DEADLOCK FALSE
