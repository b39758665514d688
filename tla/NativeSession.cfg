SPECIFICATION FairSpec
CONSTANTS
  Forms <- MCForms
  MaxReplies = 2
  MaxAttempt = 2
  Gateways = 2
CHECK_DEADLOCK FALSE
INVARIANTS TypeOK UnprotectedOnRecord NeverReplayed SubmissionIsOwned
PROPERTIES OldEndIsSilent ConversationEnds
