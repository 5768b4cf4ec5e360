\* Crashes, failing items, races, cancels, vector resets and forced runs, over twin files.
SPECIFICATION Spec
CONSTANTS
  Paths <- TwoPaths
  StoreFirst <- Markdown
  Contents <- TwinContents
  Files <- TwinFiles
  Bases = {"b1", "b2"}
  Sigs = {"s1"}
  Chunkers = {"c1"}
  Embedders <- Toggled
  LexicalOnly <- LexicalConfig
  Scopes <- FullScan
  ForceModes <- Forced
  Events <- Faulty
  MaxEvents = 3
  FlushAt = 2
  Absent = Absent
  NoPath = NoPath
  NoDoc = NoDoc
  NoCursor = NoCursor
INVARIANTS
  TypeOK
  StampSound
  RecordsHaveChunks
  DocumentsHaveAssets
  AssetPathsUnique
