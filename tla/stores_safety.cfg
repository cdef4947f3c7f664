SPECIFICATION StoresSpec
CONSTANTS
  Notes = {n1, n2}
  Versions = {v1, v2}
  Nodes = {"a", "b"}
  EdgeKeys <- OneEdge
  Scanners = {s1}
  ChunkSize = 1
  MaxRowid = 4
  MaxFailures = 1
  MaxCloses = 1
  JNotes = {m1, m2}
  JThreads = {t1}
  Flusher = flusher
  MaxRenames = 2
  MaxVersion = 3
  MaxFaults = 1
  Indexed = {x1, x2}
  IndexThreads = {a1, a2}
  MaxChanges = 4
  MaxBuilds = 2
  MaxSaveErrors = 1
  TemporalEdges <- OneTemporal
  OtherEdges <- OnePlain
  GraphThreads = {g1, g2}
  Stamps = {1, 2}
  OldLogs <- EmptyOrLegacyLog
  MaxLines = 4
  MaxAppendErrors = 1
  MaxRestarts = 2
  Facts <- ThreeFacts
  Writing = {q1, q2}
  EntitiesIn <- FactEntities
  Negated <- OneNegated
  MinEpgSize = 2
  MaxRuns = 2
  MaxScanErrors = 1
  LanceTables = {l1, l2}
  MaxToggles = 2
  MaxSpawns = 4
INVARIANTS
  StoresTypeOK DurableExplained EdgesHaveNodes ScanMissesNothing
  DiskCurrentUnlessOvertaken UnsavedAccessIsPending
  ChangesReachFile RestartAgrees
  EveryNoteHasItsTurn
  ThreadsFollowTables
CHECK_DEADLOCK FALSE
