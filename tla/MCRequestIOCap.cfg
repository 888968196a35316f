CONSTANTS
  c1 = c1
  c2 = c2
  c3 = c3
  c4 = c4
  Conns = {c1, c2, c3, c4}
  Fds = {1, 2, 3, 4}
  Workers = {w1}
  None = None
  Stream <- IdleStream
  Pooled = TRUE
  QueueSize = 2
  MaxConnections = 2
  Unique = FALSE
  Pipelining = TRUE
  Leaving = {"fin"}
  SizeMod = 8
SPECIFICATION Spec
INVARIANTS
  HardCap
