CONSTANTS
  t1 = t1
  t2 = t2
  t3 = t3
  Threads = {t1, t2}
  MultiProcess = TRUE
  MaxInst = 2
  MaxInode = 4
  MaxRestores = 1

SPECIFICATION Spec
INVARIANT RestoreGoesThrough
CHECK_DEADLOCK FALSE
