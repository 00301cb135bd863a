SPECIFICATION FairSpec
CONSTANTS
  c1 = c1
  c2 = c2
  w1 = w1
  w2 = w2
  Workers = {w1, w2}
  Connections = {c1, c2}
  Streams <- MCStreams
  FirstSize = 4
  MaxSize = 8
  KeepAlive = TRUE
INVARIANTS
  OneOwner
PROPERTIES
  RequestsInOrder
  ClosedInTheEnd
CHECK_DEADLOCK FALSE
