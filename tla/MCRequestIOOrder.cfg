CONSTANTS
  c1 = c1
  c2 = c2
  c3 = c3
  c4 = c4
  Conns = {c1, c2}
  Fds = {1, 2}
  Workers = {w1, w2}
  None = None
  Stream <- TripleStream
  Pooled = TRUE
  QueueSize = 2
  MaxConnections = 2
  Unique = FALSE
  Pipelining = TRUE
  Leaving = {}
  SizeMod = 8
SPECIFICATION Spec
INVARIANTS
  ResponsesInOrder
