\* An item fails after its document row is written.
SPECIFICATION Spec
CONSTANTS
  Paths <- TwoPaths
  StoreFirst <- NoMarkdown
  Contents <- OwnContents
  Files <- OwnFiles
  Bases = {"b1"}
  Sigs = {"s1"}
  Chunkers = {"c1"}
  Embedders <- OneEmbedder
  LexicalOnly <- NoLexical
  Scopes <- FullScan
  ForceModes <- Plain
  Events <- Failing
  MaxEvents = 1
  FlushAt = 2
  Absent = Absent
  NoPath = NoPath
  NoDoc = NoDoc
  NoCursor = NoCursor
INVARIANTS
  SkipIsSound
