SPECIFICATION CallsSpec
CONSTANTS
  p1 = p1
  p2 = p2
  p3 = p3
  Passages = {p1, p2, p3}
  PassageSize <- MCPassageSize
  ContextBudget = 3
  MaxHits = 2
  MaxDepth = 2
  MaxPool = 2
  HardCap = 2
  FirstBudget = 300
  LeastBudget = 150
  MaxTokens = 1
  Nothing = Nothing

  Writers = {w1, w2}
  Assets = {a1, a2, a3}
  Large = {a3}
  Places = {q1, q2}
  Unset = Unset
  MaxPuts = 3
  MaxMishaps = 1

  t1 = t1
  t1d = t1d
  t2 = t2
  i1 = i1
  i2 = i2
  Texts = {t1, t1d, t2}
  Nfc <- MCNfc
  Pictures = {i1, i2}
  Engines <- MCEngines
  EmbedBatch = 2
  MaxTries = 2
  MaxInputs = 3
  NoValue = NoValue
  Damaged = Damaged
  MaxDerives = 2
  MaxUpsets = 1
  PdfPages = 2
  PageImage <- MCPageImage
  Extracted = Extracted

  ChunkPolicies <- MCChunkPolicies
  MdDocs <- MCMdDocs
  PdfDocs <- MCPdfDocs
  AstDocs <- MCAstDocs
  LineFiles <- MCLineFiles
  AstMaxLines = 5
  ParaLines = 4
  ParaOverlap = 1

  ConfigFiles <- MCConfigFiles
  Environments <- MCEnvironments
  Unparsable = Unparsable
  NoFile = NoFile

  Languages <- MCLanguages
  SyntaxTrees <- MCSyntaxTrees

  Fronts <- MCFronts
  Levels = {1, 2}
  MaxTags = 4
  MaxWords = 2

  Copies = {1, 2}
  MaxTurns = 2
  NoDoc = NoDoc

  c1 = c1
  c2 = c2
  c3 = c3
  d1 = d1
  d2 = d2
  ChunkDoc <- MCChunkDoc
  Goldens <- MCGoldens
  Rankings <- MCRankings
  NarrowK = 2
  PoolK = 3
  MrrTop = 2
  TopKs = {1, 2}
  Unit = 6
  Scale = 3
  Replies <- MCReplies
  NoGroup = NoGroup

  Roots = {"first", "second"}
  Arrangements <- MCArrangements
  SourceChoices <- MCSourceChoices
  ExcludeSets <- MCExcludeSets
  Arguments <- MCArguments
  StdinBodies <- MCStdinBodies
  Half <- MCHalf
  MaxCommands = 2
  MaxEdits = 1
  MaxSetbacks = 1

  Begins <- MCBegins
  ChunkCounts = {2}
  Durations = {1, 2}
  SlowestTop = 1
  KeepRecent = 2
  RetentionDays = 2
  MaxFailures = 1

  Shelves <- MCShelves
  FetchRequests <- MCFetchRequests
  ChunkingSizes = {2}
  StaleAfter = 1
  BulkMax = 3
  MaxRewrites = 1
  NoCap = NoCap
SYMMETRY MCSymmetry
INVARIANTS
  CallsTypeOK
  GroundedIsEarned CitationsResolve HopsExplainPool FinalIsTheAnswer
  BytesFollowRows
  ValuesAreTheirInputs PagesAreSettled
  ChunkIdsDistinct ChunkedToFit
  MigrationKeepsSettings
  UnitsAreTheFile
  BlocksAreTheText
  SkipsAreExact
  VerdictsHold
  IndexFollowsTheTree
  RunIsToldTruly
  AnswersAreTheStore
CHECK_DEADLOCK FALSE
