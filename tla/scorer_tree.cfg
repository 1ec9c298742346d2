SPECIFICATION TreeSpec
CONSTANTS
  a = a
  b = b
  MaxDoc = 3
  Main <- TwoMain
  NotCount = 2
  Ors <- OrsNot
  TopK = 2
INVARIANTS TypeOK ScanExact AnswerExact
PROPERTY Terminates
