SPECIFICATION FairSpec
CONSTANTS
  MaxRevision = 3
  MaxAck = 1
  MaxCrash = 1
INVARIANTS ReadIsWhole ReadIsRecent ScrubLeavesNothing
PROPERTIES NewestArrives RegisterSpec
CHECK_DEADLOCK FALSE
