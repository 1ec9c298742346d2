CONSTANTS
  Docs = {d1, d2}
  StartId = 0
  MaxId = 3
  MaxCrashes = 1
SYMMETRY DocSymmetry
SPECIFICATION Spec
INVARIANTS AckedLoads
CHECK_DEADLOCK FALSE
