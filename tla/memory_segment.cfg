SPECIFICATION Spec
CONSTANTS
  Terms <- TermsDef
  Hash <- HashDef
  StrLen <- StrLenDef
  Docs <- DocsDef
  Toks <- ToksDef
  Parts <- PartsDef
  NoDoc = NoDoc
  ArenaPages = 11
  HashCap = 2
  StrCap = 2
  InlineLimit = 1
  PosPerPage = 1
  TfCap = 1
  LenCap = 3
  MaxAdds = 6
INVARIANTS MemoryExact FlushExact BoundsHold
CHECK_DEADLOCK FALSE
