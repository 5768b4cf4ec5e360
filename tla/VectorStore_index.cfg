\* Two processes on one Lance directory, with faults and compaction.
SPECIFICATION Spec
CONSTANTS
  Procs <- TwoProcs
  Chunks <- ThreeChunks
  Own <- OwnChunks
  Tables <- TwoTables
  DimOf <- TwoDims
  Embedders <- ThreeEmbedders
  None = None
  CompactEvery = 2
  DeleteBatch = 1
  MaxCalls = 3
  MaxFaults = 1
INVARIANTS
  TypeOK
  CommittedAreIndexed
  FragmentsBounded
  IndexedAreFound
PROPERTIES
  ImplementsIndex
