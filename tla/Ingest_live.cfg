\* Runs end and the index catches up with the workspace, while a client pages.
SPECIFICATION FairSpec
CONSTANTS
  Paths <- TwoPaths
  StoreFirst <- NoMarkdown
  Contents <- OwnContents
  Files <- OwnFiles
  Bases = {"b1", "b2"}
  Sigs = {"s1", "s2"}
  Chunkers = {"c1"}
  Embedders <- OneEmbedder
  LexicalOnly <- NoLexical
  Scopes <- FullScan
  ForceModes <- Plain
  Events <- Paging
  MaxEvents = 2
  FlushAt = 2
  Absent = Absent
  NoPath = NoPath
  NoDoc = NoDoc
  NoCursor = NoCursor
INVARIANTS
  NoOrphanVectors
  CursorHonest
PROPERTIES
  RunTerminates
  Converges
