CONSTANTS
  p1 = p1
  p2 = p2
  k1 = k1
  k2 = k2
  v1 = v1
  v2 = v2
  Procs = {p1, p2}
  Keys = {k1, k2}
  Vals = {v1}
  NoVal = NoVal
  HeaderSize = 1
  PageSize = 4
  HeadroomItems = 1
  MultiProcess = TRUE
  ReadOnly = {}
  Comparing = {}
  Recovering = {}
  Calls <- SetsAndGets
  InitMaps <- SomeMaps
  MaxSeq = 3
  MaxLog = 5
  MaxHold = 0
  MaxKills = 1

SPECIFICATION ReopenSpec
INVARIANT CompletedCallsSurvive
