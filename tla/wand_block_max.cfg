SPECIFICATION WandSpec
CONSTANTS
  Children = {x, y}
  MaxDoc = 3
  MaxPart = 3
  MaxDead = 1
  BlockSize = 1
  TopK = 1
INVARIANT TopKExact
