\* A markdown file is edited.
SPECIFICATION Spec
CONSTANTS
  Paths <- TwoPaths
  StoreFirst <- Markdown
  Contents <- OwnContents
  Files <- OwnFiles
  Bases = {"b1"}
  Sigs = {"s1"}
  Chunkers = {"c1"}
  Embedders <- OneEmbedder
  LexicalOnly <- NoLexical
  Scopes <- FullScan
  ForceModes <- Plain
  Events <- EditsOnly
  MaxEvents = 1
  FlushAt = 2
  Absent = Absent
  NoPath = NoPath
  NoDoc = NoDoc
  NoCursor = NoCursor
INVARIANTS
  NoOrphanVectors
