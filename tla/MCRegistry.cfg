CONSTANTS
  t1 = t1
  t2 = t2
  t3 = t3
  Threads = {t1, t2}
  MultiProcess = TRUE
  MaxInst = 2
  MaxInode = 4
  MaxRestores = 1

SPECIFICATION FairSpec
INVARIANTS RegistryInv OneInstance ClosedReadIsOrdered NoUseAfterClose RestoredIsReloaded MapsTheFiles
PROPERTY EveryCallReturns
CHECK_DEADLOCK FALSE
