\* Mapping: all values, with the 27 zones of the code and the extremes.
\* Selection: up to three routes; queries of 0, 3 and 6 tokens.
\* Retrieval: four chunks of three pages; the first SELECT sees three of them,
\* the ANN index two, and two are returned.
\* Merge: two routes with up to three chunks of four keys, room for three.
\* Chunking: up to six words, among them one longer than a chunk.
\* Assembly: up to three items of two entities or none, around the threshold.
\* Inference: up to three rows, of which two are read and one by the fallback.
\* Timing: five routes, checks and POSTs from immediate to never ending.
\* Table: up to three of five routes, all zones.
\* bruce_core: up to three routes over two slots.
\* Imports: three importers of up to two files that share embeddings.
\* Load tests: four queries, two workers, a queue of three.
\* Benchmark: two queries in each suite.
SPECIFICATION FairSpec
CONSTANTS
  ZoneNumbers = {1, 27, 65535}
  Bruce = Bruce
  Names = {Bruce, DocsDe, Code}
  MaxRoutes = 3
  Tokens = {0, 3, 6}
  c1 = c1
  c2 = c2
  c3 = c3
  c4 = c4
  Chunks = {c1, c2, c3, c4}
  Pages <- TwoPages
  Profiles <- FourProfiles
  TrigramLimit = 3
  AnnLimit = 2
  Limit = 2
  AnnOutcomes = {"rows", "refused"}
  r1 = r1
  r2 = r2
  Routes = {r1, r2}
  Keys = {k1, k2, k3, k4}
  MaxChunks = 3
  MaxTotal = 3
  size = 6
  overlap_words = 2
  Lengths = {1, 2, 5, 7}
  MaxWords = 6
  e1 = e1
  e2 = e2
  Entities = {e1, e2}
  CodeEntities = {e2}
  NoEntity = NoEntity
  Source <- PageOf
  Confidences = {67, 70, 72}
  Contents = {t1, t2}
  Empty = Empty
  MaxItems = 3
  ChunkKinds <- FewChunks
  Unreadable = Unreadable
  MaxRows = 3
  CalcItems = 2
  HfItems = 1
  CompletionTokens = {5, 50, 256}
  Settings <- FewSettings
  Durations = {0, 20, 60, 90, 115, 200, 5000}
  RouteRows <- FewRouteRows
  BuiltIn <- DefaultRoute
  MaxTable = 3
  MaxMatches = 3
  MaxPending = 2
  s1 = s1
  s2 = s2
  s3 = s3
  Importers = {p1, p2, p3}
  Sums = {s1, s2, s3}
  Batches <- SmallBatches
  NoOne = NoOne
  NoPage = NoPage
  MaxQueries = 4
  MaxWorkers = 2
  QueueLength = 3
  SuiteLength = 2
CHECK_DEADLOCK FALSE
INVARIANTS
  PartsTypeOK
  SameZone
  SelectsTheBest
  
  BestOfLibrary
  NoDuplicates
  NothingLeftOut
  Balanced
  CoversText
  HighestConfidenceWins
  NothingVanishes
  WeakFactsGetHelp
  ResultIsTraceable
  RecordedInTime
  EveryAttemptIsSent
  EveryZoneIsCovered
  RefusedOnlyAboveLimit
  PagesAreWhole
  ImportsAPrefix
  CountsEveryQuery
PROPERTIES
  FireImplementsSlots
  VectorKeepsPage
  EveryPartEnds
