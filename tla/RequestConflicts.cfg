SPECIFICATION FairSpec
CONSTANTS
  MaxRetries = 1
  OnError = FALSE
  Conflicts = TRUE
  CommitErrors = FALSE
  MaxRequests = 2
  MaxEffects = 2
  MaxUnlimited = 1
INVARIANTS
  UndoneUnlessCommitted
PROPERTIES
  Answered
CHECK_DEADLOCK FALSE
