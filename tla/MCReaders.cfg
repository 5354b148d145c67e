CONSTANTS
  p1 = p1
  r = r
  b = b
  g1 = g1
  g2 = g2
  k1 = k1
  k2 = k2
  v1 = v1
  Procs = {p1, r, b}
  Reader = r
  Backup = b
  Goroutines = {g1, g2}
  Keys = {k1, k2}
  Vals = {v1}
  NoVal = NoVal
  HeaderSize = 1
  PageSize = 4
  HeadroomItems = 1
  MultiProcess = TRUE
  ReadOnly = {}
  Comparing = {}
  Recovering = {}
  Calls <- SomeCalls
  InitMaps <- SomeMaps
  MaxSeq = 2
  MaxLog = 4
  MaxHold = 0
SPECIFICATION ReadersSpec
INVARIANTS FreshRead  BackupIsConsistent
PROPERTY EveryReadReturns
CHECK_DEADLOCK FALSE
