SPECIFICATION FairSpec
CONSTANTS
  Workers = {w1}
  Pruner = pruner
  Slots = {s1}
  Pages = {p1, p2}
  None = None
  RefWrap = 4
  ReaderWrap = 4
  MaxMessages = 1
  MaxChannels = 1
  MaxSends = 1
  MaxCrashes = 0
  OnError = FALSE
  CommitErrors = TRUE
  ExpungeFails = FALSE
  CleanupErrors = FALSE
  LeaveTask = "others"
PROPERTIES
  CollectedEventually
  MailIsTaken
