CONSTANTS
  Capacity = 1
  Producers = {p1, p2}
  Workers = {w1, w2}
  Docs = {d1, d2, d3, e1}
  Termless = {e1}
  SmallTotal = 2
  IdSpan = 2
  NoDoc = NoDoc
SPECIFICATION FairSpec
INVARIANTS HeldOnce CommitKeepsDocs MergedFindable
PROPERTIES AddReturns CommitReturns
CHECK_DEADLOCK FALSE
