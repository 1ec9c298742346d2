SPECIFICATION WandSpec
CONSTANTS
  Children = {x, y}
  MaxDoc = 4
  MaxPart = 2
  MaxDead = 1
  BlockSize = 2
  TopK = 2
INVARIANTS PassedTogether HeapExact TopKExactWhenSafe RoundsBounded
