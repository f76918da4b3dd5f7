SPECIFICATION Spec
CONSTANTS
  Threads = {t1, t2}
  Diff = 1
  LastSecond = 4
  MaxChanges = 2
INVARIANTS
  LookupSafe
  ReloadOnce
  
