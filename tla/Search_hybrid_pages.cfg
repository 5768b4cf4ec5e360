SPECIFICATION Spec
CONSTANTS
  Chunks <- ThreeChunks
  Queries <- PlainHybrid
  PageSizes <- SmallPages
  GlobOverfetch = 1
  Fanout = 2
  Overfetch = 1
  StoreOverfetch = 2
  RrfK = 60
  MaxCommits = 0
  NoCursor = NoCursor
CHECK_DEADLOCK FALSE
INVARIANTS
  NoRepeat
