\* One reload, two connections and signals at any time, fair scheduling.
SPECIFICATION FairSpec
CONSTANTS
  Threads = {t1}
  Sizes = {1, 2}
  MaxReloads = 1
  MaxConns = 2
\* the process ends
CHECK_DEADLOCK FALSE
INVARIANTS
  NoConnLost
  OwnContext
  AccidentsExplained
PROPERTIES
  TermStands
  TermEnds
  
