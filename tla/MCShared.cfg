CONSTANTS
  p1 = p1
  p2 = p2
  p3 = p3
  k1 = k1
  k2 = k2
  v1 = v1
  v2 = v2
  Procs = {p1, p2, p3}
  Keys = {k1}
  Vals = {v1, v2}
  NoVal = NoVal
  HeaderSize = 1
  PageSize = 4
  HeadroomItems = 1
  MultiProcess = TRUE
  ReadOnly = {p3}
  Comparing = {}
  Recovering = {}
  Calls <- OneKeyCalls
  InitMaps <- SomeMaps
  MaxSeq = 3
  MaxLog = 4
  MaxHold = 1
SYMMETRY Symmetry
SPECIFICATION Spec
INVARIANTS TypeOK DigestMatchesRegion ViewsAreFresh MappingIsFile NoDanglingViews NoSpuriousRecovery RegionFits LastConfirmedIntact SameSequencePreservesViews Coherent
 
