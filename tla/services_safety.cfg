SPECIFICATION ServicesSpec
CONSTANTS
  TextLength = 3
  SpanScores = {1, 2}
  MaxSpans = 2
  MaxContentLength = 0
  MaxReferences = 2
  MinCalibration = 2
  WindowFloor = 1
  FirstFactor = 1
  LastFactor = 3
  MaxRecent = 7
  MaxGateFaults = 1
  MaxQuarantined = 1
  Entity = {"a", "b", "c", "d"}
  NoteNode = {"n"}
  CausalPairs <- CausalEdges
  PossibleEdges <- SomeEdges
  TraverseDepths = {1, 3}
  HopLimit = 2
  CausalDepth = 2
  MaxVisited = 3
  MaxGrowth = 1
  Note = {"a", "b", "c"}
  K = 2
  RerankMax = 2
  EntityK = 2
  Worlds <- SomeWorlds
  MaxStoreChanges = 1
  Asker = {"t1", "t2"}
  Question = {"a", "b"}
  SNote = {"s1", "s2", "s3"}
  EntityHits <- EntityHitsOf
  SearchHits <- SearchHitsOf
  LowTier = {}
  Wanted = 2
  Unsafe = {"s3"}
  MaxQueries = 2
  MaxEvents = 3
  Callers = {t1, t2}
  Providers = {"local", "ollama", "litellm"}
  Fallback = ""
  MaxCalls = 2
  MaxReloads = 1
  MaxCreated = 4
  Rule <- ThreeRules
  LegacyRule <- Legacy
  Files <- SomeFiles
  Walker = {w1, w2}
  MaxWalks = 2
  MaxIngestFaults = 1
  SeedTypes = {"DomainName", "ASNumber"}
  Seeds = {"EXAMPLE.com.", "1", "?"}
  Spelling <- SomeSpelling
  Invalid <- NoAddress
  RelationTypes <- OsintRelations
  Collectors <- TwoCollectors
  MaxReturned = 2
  MaxRuns = 2
  MaxStoreErrors = 1
  EntityId = {"i1", "i2"}
  TypeDefs <- OneType
  BuiltInRelations <- OneRelation
  CustomRelations <- OwnRelations
  NotBefore <- EndAfterStart
  Properties <- SomeProperties
  EntityTypes = {"Note", "Free"}
  RelationNames = {"superseded_by", "follows"}
  StoreThread = {s1, s2}
  MaxStoreCalls = 5
  MaxReopens = 1
  Default <- FourDefaults
  FileValues <- SomeFile
  Environments <- SomeEnvironments
  EnvOrder <- EnvSequence
  StrictInt <- Strict
  TokenFloors <- Floors
  Edits <- TwoEdits
  ConfigThread = {c1, c2}
  MaxObjects = 3
  MaxGets = 4
  MaxEdits = 1
  Caller = {ca, cb}
  KeySet = {ca}
  Loopback = {ca}
  RatePerWindow = 2
  WindowLength = 2
  MaxTime = 5
  MaxRequests = 4
  MaxLogLines = 4
  MaxRotations = 2
  MNote = {"n1", "n2"}
  MContent = {"old", "newer", "live"}
  OldFiles <- OldFileSet
  LiveEdges <- OneLiveEdge
  MaxMigrations = 2
  MaxWriteErrors = 1
  MaxSaves = 2
  EText = {"x", "y"}
  Embedder = {e1, e2}
  MaxEntries = 1
  Ttl = 1
  CleanupEvery = 1
  MaxInstant = 3
  MaxAsks = 4
  Document <- ThreeTexts
  PieceSize = 6
  PromptSize = 4
  FallbackSize = 2
  MaxFacts = 2
  MinImportance = 3
  Answered = {1, 9}
  Known <- OldNotes
INVARIANTS
  ServicesTypeOK RedactionExact
  HopsExact WalksExact CausalNearestFirst
  NothingStaleReturned
  RegistryCurrent OneVectorPerEra TextTakenInUpToAPoint
  RulesExplained TuplesWholeAndCounted
  SchemaHolds ConfigAgrees
  RateBounded StreamFollowsLog
  MigratedWhole
CHECK_DEADLOCK FALSE
