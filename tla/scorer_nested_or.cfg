SPECIFICATION TreeSpec
CONSTANTS
  a = a
  b = b
  MaxDoc = 3
  Main <- TwoMain
  NotCount = 1
  Ors <- OrsBoth
  TopK = 1
INVARIANT ExcludedNeverReturned
