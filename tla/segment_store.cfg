CONSTANTS
  Docs = {d1, d2, d3}
  StartId = 0
  MaxId = 4
  MaxCrashes = 2
SPECIFICATION Spec
INVARIANTS ShownOnce DoneMeansWhole AckedOnDisk
PROPERTIES NeverOverwrites
CHECK_DEADLOCK FALSE
