CONSTANTS
  c1 = c1
  c2 = c2
  c3 = c3
  c4 = c4
  Conns = {c1, c2}
  Fds = {1, 2}
  Workers = {w1, w2}
  None = None
  Stream <- ShortStream
  Pooled = TRUE
  QueueSize = 1
  MaxConnections = 2
  Unique = TRUE
  Pipelining = FALSE
  Leaving = {"fin", "rst"}
  SizeMod = 8
SPECIFICATION FairSpec
PROPERTIES
  LoopStops
