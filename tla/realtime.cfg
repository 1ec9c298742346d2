CONSTANTS
  NumThreads = 2
  Docs = {d1, d2}
  Searchers = {c1}
  MaxBatch = 2
  FirstSegId = 0
  MayFail = TRUE
SPECIFICATION FairSpec
INVARIANTS IInv ExactlyOneReader StopFlushesAll StatsHonest NoSegmentTwice SearchComplete
PROPERTIES FrozenReachesDisk StopReturns KeepsPromise
CHECK_DEADLOCK FALSE
