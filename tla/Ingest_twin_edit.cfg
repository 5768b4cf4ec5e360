\* One of two files with equal content is edited.
SPECIFICATION Spec
CONSTANTS
  Paths <- TwoPaths
  StoreFirst <- NoMarkdown
  Contents <- TwinContents
  Files <- TwinFiles
  Bases = {"b1"}
  Sigs = {"s1"}
  Chunkers = {"c1"}
  Embedders <- OneEmbedder
  LexicalOnly <- NoLexical
  Scopes <- FullScan
  ForceModes <- Plain
  Events <- EditsOnly
  MaxEvents = 1
  FlushAt = 2
  Absent = Absent
  NoPath = NoPath
  NoDoc = NoDoc
  NoCursor = NoCursor
PROPERTIES
  RowStable
