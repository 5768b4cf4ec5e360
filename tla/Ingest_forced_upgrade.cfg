\* A parser upgrade followed by ingest --force-reingest.
SPECIFICATION Spec
CONSTANTS
  Paths <- TwoPaths
  StoreFirst <- NoMarkdown
  Contents <- OwnContents
  Files <- OwnFiles
  Bases = {"b1", "b2"}
  Sigs = {"s1"}
  Chunkers = {"c1"}
  Embedders <- OneEmbedder
  LexicalOnly <- NoLexical
  Scopes <- FullScan
  ForceModes <- Forced
  Events <- Quiet
  MaxEvents = 2
  FlushAt = 2
  Absent = Absent
  NoPath = NoPath
  NoDoc = NoDoc
  NoCursor = NoCursor
INVARIANTS
  PathIsFree
