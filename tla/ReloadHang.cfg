\* Does vt_stats_destroy terminate the printing thread?
SPECIFICATION FairSpec
CONSTANTS
  Threads = {t1}
  Sizes = {1, 2}
  MaxReloads = 1
  MaxConns = 0
\* the process ends
CHECK_DEADLOCK FALSE
PROPERTY
  StatsDestroyEnds
