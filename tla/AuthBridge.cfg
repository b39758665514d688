SPECIFICATION FairSpec
CONSTANTS
  MaxTap = 3
  MaxForm = 3
INVARIANTS
  FormHasWaiter
  AbortedShowsNothing
  AnswersOwnForm
PROPERTIES
  AnsweredOnce
  WaiterLeaves
CHECK_DEADLOCK FALSE
