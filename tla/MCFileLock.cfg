CONSTANTS
  p1 = p1
  p2 = p2
  p3 = p3
  Procs = {p1, p2, p3}
  Converting = TRUE
  MaxCount = 3
SYMMETRY Symmetry
SPECIFICATION Spec
INVARIANTS TypeOK CountsMatchKernel ExclusiveExcludes NoCircularWait
