CONSTANTS
  p1 = p1
  p2 = p2
  k1 = k1
  k2 = k2
  v1 = v1
  v2 = v2
  Procs = {p1}
  Keys = {k1, k2}
  Vals = {v1}
  NoVal = NoVal
  HeaderSize = 1
  PageSize = 4
  HeadroomItems = 1
  MultiProcess = FALSE
  ReadOnly = {}
  Comparing = {}
  Recovering = {p1}
  Calls <- AllCalls
  InitMaps <- SomeMaps
  MaxSeq = 3
  MaxLog = 4
  MaxHold = 0
  MaxKills = 2

SPECIFICATION RestartSpec
INVARIANTS CrashTypeOK CompletedCallsSurvive NeverAMixture
PROPERTY StoresLeaveAGoodDigest
