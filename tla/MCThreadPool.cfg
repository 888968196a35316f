CONSTANTS
  Workers = {w1, w2}
  Callers = {c1, c2}
  Tasks = {t1, t2, t3}
  MaxQueueSize = 1
  NoTask = NoTask
SPECIFICATION FairSpec
INVARIANTS
  TypeOK
  FifoExactlyOnce
  DrainedOnKill
  NoLostWakeup
PROPERTIES
  AcceptedIsRun
  CallsReturn
  ImplementsExecutor
