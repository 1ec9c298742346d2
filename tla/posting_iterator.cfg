CONSTANTS
  BlockSize = 3
  CoverTenths = 5
  Width = 4
  SkipInterval = 2
  MaxDoc = 9
SPECIFICATION Spec
INVARIANTS ReadsBack BoundsOfDoc PositionsOfDoc
PROPERTIES IsCursor
