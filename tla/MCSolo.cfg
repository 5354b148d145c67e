CONSTANTS
  p1 = p1
  p2 = p2
  p3 = p3
  k1 = k1
  k2 = k2
  v1 = v1
  v2 = v2
  Procs = {p1}
  Keys = {k1, k2}
  Vals = {v1, v2}
  NoVal = NoVal
  HeaderSize = 1
  PageSize = 4
  HeadroomItems = 1
  MultiProcess = FALSE
  ReadOnly = {}
  Comparing = {p1}
  Recovering = {}
  Calls <- AllCalls
  InitMaps <- SomeMaps
  MaxSeq = 4
  MaxLog = 5
  MaxHold = 1
SPECIFICATION Spec
INVARIANT SameSequencePreservesViews
PROPERTY ImplementsMap
