------------------------------ MODULE MCParts ------------------------------
(***************************************************************************)
(* Small instances of the parts of the system that need no other part: the *)
(* functions on the way of a query and of a document, and the programs     *)
(* bruce_core, import_docs and the two load tests.  A behaviour is a run   *)
(* of one of them with any of its inputs; the others have ended.           *)
(***************************************************************************)
EXTENDS StateMapping, RouteSelection, MCRetrieval, BalancedMerge, ChunkText,
  AnswerAssembly, MCCalc, DispatchTiming, RoutingTable, BruceCore,
  KnowledgeImport, StressClient, BackendBenchmark

CONSTANTS r1, r2, e1, e2, s1, s2, s3

(* The snippet of page 7, the code of page 8; -1 without entity. *)
PageOf == [e \in Entities \union {NoEntity} |->
             IF e = e1 THEN 7 ELSE IF e = e2 THEN 8 ELSE -1]

(* The defaults of the code, and routes that are faster, slower, narrower. *)
FewSettings ==
  {[timeout |-> 180, retries |-> 1, backoff |-> 10, fail_fast |-> 140],
   [timeout |-> 180, retries |-> 1, backoff |-> 10, fail_fast |-> 90],
   [timeout |-> 500, retries |-> 2, backoff |-> 12, fail_fast |-> 1500],
   [timeout |-> 90, retries |-> 4, backoff |-> 10, fail_fast |-> 1000],
   [timeout |-> 20, retries |-> 3, backoff |-> 0, fail_fast |-> 70]}

DefaultRoute == [id |-> 3, priority |-> 1, first |-> 2000, last |-> 2999]

(* Ranges that do not reach a zone, end or begin at one, and overlap.      *)
FewRouteRows ==
  {DefaultRoute,
   [id |-> 2, priority |-> 2, first |-> 1000, last |-> 1999],
   [id |-> 4, priority |-> 2, first |-> 2000, last |-> 2481],
   [id |-> 5, priority |-> 1, first |-> 2962, last |-> 2962],
   [id |-> 6, priority |-> 0, first |-> 2500, last |-> 3100]}

Files == {<<>>, <<s1, s2>>, <<s2, s3>>, <<s3, s1>>, <<s2, s2>>}

(* One file of each kind, or two of which the second meets the rows the    *)
(* first has committed.                                                    *)
SmallBatches == {<<f>> : f \in Files} \union {<<<<s1, s2>>, <<s2, s1>>>>, <<<<s3>>, <<>>>>}

(* What the parts that are not run hold is among what they may hold.       *)
ASSUME PartsAssumption ==
  /\ 27 \in ZoneNumbers /\ 0 \in Tokens /\ Profiles # {}
  /\ r1 \in Routes /\ r2 \in Routes
  /\ [timeout |-> 180, retries |-> 1, backoff |-> 10, fail_fast |-> 140] \in Settings

VARIABLE part

partVars ==
  <<part, mappingVars, selectionVars, retrievalVars, mergeVars, chunkVars,
    assemblyVars, calcVars, timingVars, tableVars, coreVars, importVars,
    stressVars, benchVars>>

-----------------------------------------------------------------------------
MappingAtEnd == value = 32767 /\ num_zones = 27 /\ py = 26 /\ cpp = 26

SelectionAtEnd ==
  LET only == <<[name |-> Bruce, terms |-> 0, keywords |-> 0]>> IN
  /\ tokens = 0 /\ routes = only /\ ranked = <<>> /\ selected = only
  /\ selecting = "done"

RetrievalAtEnd ==
  /\ db = {} /\ profile = [c \in Chunks |-> CHOOSE p \in Profiles : TRUE]
  /\ long = FALSE /\ snapshot = {} /\ candidates = <<>> /\ annRows = {}
  /\ result = <<Synthetic>> /\ retrieving = "done"

MergeAtEnd ==
  /\ route_chunks = [r \in Routes |-> <<>>] /\ order = <<r1, r2>> /\ at = 0
  /\ pointers = [r \in Routes |-> 0] /\ merged = <<>> /\ seen = {}
  /\ progressed = FALSE /\ done = TRUE

ChunkAtEnd ==
  /\ words = <<>> /\ start = 1 /\ idx = 1 /\ current_len = 0 /\ chunks = <<>>
  /\ chunking = "done"

AssemblyAtEnd ==
  /\ items = <<>> /\ handled = 0 /\ byEntity = [e \in Entities |-> 0]
  /\ passthrough = {} /\ main = {} /\ low = {} /\ divided = TRUE

CalcAtEnd ==
  /\ backend = "extractive" /\ hf_fallback = FALSE /\ payload = <<>> /\ parsed = <<>>
  /\ bausteine = <<>> /\ with_hf = FALSE /\ source_ids = <<>> /\ inferring = "rejected"

TimingAtEnd ==
  /\ setting = [timeout |-> 180, retries |-> 1, backoff |-> 10, fail_fast |-> 140]
  /\ elapsed = 0 /\ busy = 0 /\ attempt = 0 /\ unsent = 0 /\ timing = "recorded"

TableAtEnd ==
  /\ zone = 0 /\ active = {} /\ loaded = <<>> /\ resolved = <<BuiltIn>>
  /\ resolving = "done"

CoreAtEnd ==
  /\ core_main = "blocked" /\ matched = 0 /\ route_no = 1 /\ current = 0
  /\ pending_jobs = 0
  /\ thread = [k \in Requests |-> "none"] /\ request = [k \in Requests |-> "unsent"]
  /\ file = [k \in Requests |-> FALSE]

ImportAtEnd ==
  /\ files = [p \in Importers |-> <<>>] /\ finished = [p \in Importers |-> 0]
  /\ importing = [p \in Importers |-> "done"] /\ written = [p \in Importers |-> 0]
  /\ seiten = {} /\ chunk_rows = {}
  /\ owner = [c \in Sums |-> NoPage] /\ locker = [c \in Sums |-> NoOne]

StressAtEnd ==
  /\ test = "sustained" /\ window = FALSE /\ query_count = 0
  /\ call = [q \in 1..MaxQueries |-> "none"] /\ job = [q \in 1..MaxQueries |-> "none"]
  /\ futures = {} /\ counted = [q \in 1..MaxQueries |-> 0] /\ testing = "done"

BenchAtEnd ==
  /\ hf_token = FALSE /\ suite = "extractive"
  /\ deployed = Substituted("extractive") /\ up = Containers
  /\ query_idx = 0 /\ cases = 0
  /\ answerers = [s \in Suites |-> {}] /\ reported = [s \in Suites |-> 0]
  /\ bench = "raised"

-----------------------------------------------------------------------------
Functions ==
  {"mapping", "selection", "retrieval", "merge", "chunk", "assembly", "calc",
   "timing", "table"}
Programs == {"core", "import", "stress", "bench"}

Init ==
  /\ part \in Functions \union Programs
  /\ IF part = "mapping" THEN MappingInit ELSE MappingAtEnd
  /\ IF part = "selection" THEN SelectionInit ELSE SelectionAtEnd
  /\ IF part = "retrieval" THEN RetrievalInit ELSE RetrievalAtEnd
  /\ IF part = "merge" THEN MergeInit ELSE MergeAtEnd
  /\ IF part = "chunk" THEN ChunkInit ELSE ChunkAtEnd
  /\ IF part = "assembly" THEN AssemblyInit ELSE AssemblyAtEnd
  /\ IF part = "calc" THEN CalcInit ELSE CalcAtEnd
  /\ IF part = "timing" THEN TimingInit ELSE TimingAtEnd
  /\ IF part = "table" THEN TableInit ELSE TableAtEnd
  /\ IF part = "core" THEN CoreInit ELSE CoreAtEnd
  /\ IF part = "import" THEN ImportInit ELSE ImportAtEnd
  /\ IF part = "stress" THEN StressInit ELSE StressAtEnd
  /\ IF part = "bench" THEN BenchInit ELSE BenchAtEnd

Next ==
  /\ UNCHANGED part
  /\ IF part = "mapping" THEN MappingNext ELSE UNCHANGED mappingVars
  /\ IF part = "selection" THEN SelectionNext ELSE UNCHANGED selectionVars
  /\ IF part = "retrieval" THEN RetrievalNext ELSE UNCHANGED retrievalVars
  /\ IF part = "merge" THEN MergeNext ELSE UNCHANGED mergeVars
  /\ IF part = "chunk" THEN ChunkNext ELSE UNCHANGED chunkVars
  /\ IF part = "assembly" THEN AssemblyNext ELSE UNCHANGED assemblyVars
  /\ IF part = "calc" THEN CalcNext ELSE UNCHANGED calcVars
  /\ IF part = "timing" THEN TimingNext ELSE UNCHANGED timingVars
  /\ IF part = "table" THEN TableNext ELSE UNCHANGED tableVars
  /\ IF part = "core" THEN CoreNext ELSE UNCHANGED coreVars
  /\ IF part = "import" THEN ImportNext ELSE UNCHANGED importVars
  /\ IF part = "stress" THEN StressNext ELSE UNCHANGED stressVars
  /\ IF part = "bench" THEN BenchNext ELSE UNCHANGED benchVars

(* A function runs in the thread that called it; a program as its module   *)
(* says.                                                                   *)
FairSpec ==
  /\ Init /\ [][Next]_partVars
  /\ WF_partVars(part \in Functions /\ Next)
  /\ CoreFairness /\ ImportFairness /\ StressFairness /\ BenchFairness

PartsTypeOK ==
  /\ MappingTypeOK /\ SelectionTypeOK /\ RetrievalTypeOK /\ MergeTypeOK
  /\ ChunkTypeOK /\ AssemblyTypeOK /\ CalcTypeOK /\ TimingTypeOK /\ TableTypeOK
  /\ CoreTypeOK /\ ImportTypeOK /\ StressTypeOK /\ BenchTypeOK

(* Every call of a function returns and every program ends, whatever the   *)
(* services and the database do: the merge although a route has only       *)
(* duplicates left, an import although others hold rows it needs,          *)
(* bruce_core although the exchange on its counter fails, a load test      *)
(* although no query is ever answered.                                     *)
EveryPartEnds ==
  <>(/\ selecting = "done" /\ retrieving \in Returns /\ done
     /\ chunking = "done" /\ divided /\ inferring \in {"done", "rejected", "raised"}
     /\ timing \in {"ok", "recorded"} /\ resolving = "done" /\ core_main \in Ended
     /\ \A p \in Importers : importing[p] \in {"done", "failed"}
     /\ testing = "done" /\ bench \in {"exit", "raised"})
=============================================================================
