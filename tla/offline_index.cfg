CONSTANTS
  StopWords <- MCStopWords
  Stem <- MCStem
  MaxTf = 3
  MaxLen = 4
  Content <- MCContent
  Schemas <- MCSchemas
  Filters <- MCFilters
  Queries <- MCQueries
  MergeIds = {0, 3}
  MaxTopK = 2
SPECIFICATION Spec
INVARIANTS AliveOnce SearchExact LengthsExact PositionsDistinct FilterExact QueryExact DistinctTopK
CHECK_DEADLOCK FALSE
