SPECIFICATION FairSpec
CONSTANTS
  Chunks <- ThreeChunks
  Queries <- AllQueries
  PageSizes <- TwoHits
  GlobOverfetch = 1
  Fanout = 2
  Overfetch = 1
  StoreOverfetch = 2
  RrfK = 60
  MaxCommits = 1
  NoCursor = NoCursor
CHECK_DEADLOCK FALSE
INVARIANTS
  PagesTile
  NullMeansNoMore
  FusionAgrees
PROPERTIES
  PagingEnds
