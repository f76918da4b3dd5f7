SPECIFICATION FairSpec
CONSTANTS
  Threads = {t1, t2}
  Pushers = {p1}
  Tasks = {k1, k2}
  NoTask = NoTask
  ThreadLimits = {0}
  IdleLimits = {1}
  TaskLimits = {0}
  MayFail = FALSE
  SpuriousCap = 0
CHECK_DEADLOCK FALSE
PROPERTIES
  ExistingTasksFinish
