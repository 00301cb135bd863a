SPECIFICATION Spec
CONSTANTS
  MaxRetries = 1
  OnError = TRUE
  Conflicts = FALSE
  CommitErrors = TRUE
  MaxRequests = 2
  MaxEffects = 2
  MaxUnlimited = 1
INVARIANTS
  TypeOK
  FreedOnce
  ClientBalanced
  FinalsAfterCommit
  OwnTransaction
PROPERTIES
  PromiseKept
CHECK_DEADLOCK FALSE
