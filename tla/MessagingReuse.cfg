SPECIFICATION Spec
CONSTANTS
  Workers = {w1}
  Pruner = pruner
  Slots = {s1, s2}
  Pages = {p1, p2}
  None = None
  RefWrap = 3
  ReaderWrap = 3
  MaxMessages = 2
  MaxChannels = 1
  MaxSends = 1
  MaxCrashes = 1
  OnError = FALSE
  CommitErrors = TRUE
  ExpungeFails = TRUE
  CleanupErrors = FALSE
  LeaveTask = "others"
SYMMETRY Symmetries
INVARIANTS
  KnownClient
  ExpungerAlone
  ChannelsOwned
  NoForeignDelivery
PROPERTIES
  CollectedOnlyIfStale
