SPECIFICATION Spec
CONSTANTS
  Workers = {w1, w2}
  Pruner = pruner
  Slots = {s1}
  Pages = {p1}
  None = None
  RefWrap = 3
  ReaderWrap = 3
  MaxMessages = 2
  MaxChannels = 1
  MaxSends = 2
  MaxCrashes = 0
  OnError = TRUE
  CommitErrors = TRUE
  ExpungeFails = FALSE
  CleanupErrors = TRUE
  LeaveTask = "others"
SYMMETRY Symmetries
INVARIANTS
  TypeOK
  CommitOrder
  AtomicUnits
  NoSleepingMail
