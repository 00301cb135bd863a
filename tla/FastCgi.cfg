SPECIFICATION FairSpec
CONSTANTS
  c1 = c1
  c2 = c2
  w1 = w1
  w2 = w2
  Workers = {w1, w2}
  Connections = {c1, c2}
  Descriptors = {1, 2}
  Streams <- MCStreams
  HeaderSize = 2
  MaxContent = 3
INVARIANTS
  OneOwner
  OwnRequest
  
PROPERTIES
  StreamIntact
  AnsweredOrParked
CHECK_DEADLOCK FALSE
