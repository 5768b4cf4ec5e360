\* Parser, settings, chunker and embedder upgrades, embeddings switched off, narrowed scopes, cancels.
SPECIFICATION Spec
CONSTANTS
  Paths <- TwoPaths
  StoreFirst <- Markdown
  Contents <- OwnContents
  Files <- OwnFiles
  Bases = {"b1", "b2"}
  Sigs = {"s1"}
  Chunkers = {"c1", "c2"}
  Embedders <- Toggled
  LexicalOnly <- LexicalConfig
  Scopes <- AnyScope
  ForceModes <- Plain
  Events <- Quiet
  MaxEvents = 3
  FlushAt = 2
  Absent = Absent
  NoPath = NoPath
  NoDoc = NoDoc
  NoCursor = NoCursor
INVARIANTS
  SkipIsSound
  ReportedAreIndexed
  PathIsFree
PROPERTIES
  RowStable
