SPECIFICATION FairSpec
CONSTANTS
  Threads = {t1, t2, t3}
  Pushers = {p1}
  Tasks = {k1, k2, k3}
  NoTask = NoTask
  ThreadLimits = {0}
  IdleLimits = {0, 1}
  TaskLimits = {0}
  MayFail = FALSE
  SpuriousCap = 1
CHECK_DEADLOCK FALSE
PROPERTIES
  UntimedQueuedRuns
  ExactAcceptedRuns
  ExactDestroyEnds
