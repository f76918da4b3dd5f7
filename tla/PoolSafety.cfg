SPECIFICATION Spec
CONSTANTS
  Threads = {t1, t2, t3}
  Pushers = {p1, p2}
  Tasks = {k1, k2, k3}
  NoTask = NoTask
  ThreadLimits = {1}
  IdleLimits = {0, 1}
  TaskLimits = {0, 1}
  MayFail = TRUE
  SpuriousCap = 1
SYMMETRY Symmetry
CHECK_DEADLOCK FALSE
INVARIANTS
  TypeOK
  CountsExact
  OnePlace
  AcceptedKept
  FreedQuiet
  ThreadBound
PROPERTIES
  Refinement
