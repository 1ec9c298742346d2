SPECIFICATION Spec
CONSTANTS
  Terms <- TermsDef
  Hash <- HashDef
  StrLen <- StrLenDef
  Docs <- DocsDef
  Toks <- ToksDef
  Parts <- PartsDef
  NoDoc = NoDoc
  ArenaPages = 30
  HashCap = 4
  StrCap = 4
  InlineLimit = 1
  PosPerPage = 1
  TfCap = 1
  LenCap = 3
  MaxAdds = 3
INVARIANT SearchBoundHolds
CHECK_DEADLOCK FALSE
