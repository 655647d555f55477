# BRUCE RAG system: TLA+ models, model checking and proofs

The subject is the repository's own source: the Python services of
`src/python` (query API, calc services and their backends, embedder, assembler,
shared database code), the two PostgreSQL schemas of `schema/`, the C++ core of
`src/cpp`, the import script, the load tests and the backend benchmark. Line
numbers in this file refer to that source. `PROJECT.json` holds, for every
definition of every module, the lines it stands for, the hazards of the code at
their lines, and the list of runs and theorems.

Contents: 1 inventory, 2 modules and their relation to the code, 3 runs,
4 divergences found, 5 fairness, 6 proofs, 7 abstractions, 8 what is only
model-checked and what is not modelled, 9 plan.

To check a run: `tlc -workers 2 -config PipelineRoutes.cfg MCPipeline.tla`.
To check a proof: `tlapm PipelineProofs.tla`.

## 1. Inventory

| Component | State it keeps | Operations | Talks to |
|---|---|---|---|
| Query API `api/main.py` | none of its own besides threads and the health cache | `submit_query`, `query_status` | finish DB (one transaction per `common/db.py` call), knowledge DB (reads), calc services |
| Whitelist `common/db.py` | table `whitelist` | `is_query_whitelisted` | knowledge DB |
| Route selection `api/main.py` | none | `fetch_active_routes`, `_score_route_intent`, `_select_routes` | knowledge DB |
| Route dispatcher `_dispatch_route` | one daemon thread per query and route, an executor with one worker | health check, POST attempts with timeout, retry and backoff, `_record_route_failure` | calc service over HTTP, finish DB |
| Health cache `_route_health` | `_HEALTH_CACHE`: endpoint to (time, verdict), shared by all dispatchers without a lock | look up, check, store | calc service |
| Retrieval and merge | none | `_retrieve_context_chunks`, `_retrieve_by_vector`, `_domain_balanced_merge` | knowledge DB |
| Connection pool `common/db.py` | `_pool`, its free and lent connections | `_get_pool`, `get_conn` | PostgreSQL |
| Finish DB `01_finish_db.sql` | `pipeline_jobs`, `calc_results`, `final_answers`, `trace_log`, NOTIFY queue | INSERT, UPSERT, UPDATE, trigger `bruce_after_calc_result` | everybody |
| Calc service `calc_models/service.py` | none | `calc`: infer, `insert_calc_result`, `insert_trace`, reply | finish DB |
| Calc backends `backends.py` | a loaded model | `infer` of the extractive, granite, hf and hf_api backends, the call of the HF API for weak facts | a model server, the HF inference API |
| Assembler `assembler/service.py` | listener thread, its connection | LISTEN, `_assemble_job` | finish DB |
| Assembly `common/assembly.py` | none | `assemble`, `_deduplicate_conflicts` | - |
| Knowledge DB, import `import_docs.py` | `seiten`, `vektoren`, `chunks`, routing configuration | `import_file`, `chunk_text` | PostgreSQL |
| Embedding `embedding/service.py` | the cached `DeterministicEmbedder`, shared by all threads without a lock | `get_embedder`, `embed_int16`, `dim_to_zone` | a model, or SHA256 |
| C++ routing table and state mapping | `routes_` | `reload_from_database`, `resolve`, `map_state_to_bibliothek_id`, `dim_to_zone` | knowledge DB through psql |
| C++ guard and core | two atomic counters, detached threads | `reserve_slot`, `release_slot`, `fire`, `main` | calc services through curl |
| Load tests `real_stress_benchmark.py` | a list of futures, an executor | `submit_and_poll`, `run_load_test`, the sustained test | query API over HTTP |
| Backend benchmark `benchmark_backends.py`, `docker-compose.yml` | the environment of the containers | `compose_up`, the waits, a suite of queries per backend | docker compose, query API |

How they interact. A query goes through `submit_query`: whitelist, embedding,
route selection, the row in `pipeline_jobs`, retrieval per route, merge, and one
daemon thread per route, then the reply "queued". Each dispatcher posts to a
calc service; the service, not the dispatcher, writes `calc_results`; the trigger
on that table collects the routes, marks the job "ready" and notifies; the
assembler, listening on that channel, reads the rows, writes `final_answers` and
marks the job "assembled"; the client polls. Between these stages nothing is
shared but rows and the notification, and nothing is repeated by a later stage
if an earlier one is lost.

What is hard here:

- every database call is a transaction of its own, so an exception or a crash
  between two of them leaves a half-finished job;
- the calc handler of an attempt that timed out keeps running and commits later,
  over a retry, over a fallback or after the answer;
- a NOTIFY reaches only sessions that listen at that moment, once;
- a poll reads job and answer with two SELECTs;
- the first calls race for the creation of the pool; dispatchers race for the
  health cache; threads race on atomic counters; `main` of the C++ core ends
  while its threads run;
- imports that share embeddings lock each other's rows in any order;
- threads that embed first make embedders of their own, which may differ;
- the timeouts of a dispatcher (health check, attempt, pause, fail-fast) and those
  of httpx overlap, with one worker for all attempts of a route;
- the sustained load test rebuilds its list of futures while calls end, and the
  benchmark relies on an environment that compose may not hand on;
- the sequential parts (selection, retrieval, merge, inference, chunking,
  assembly, routing table, mapping) have thresholds, cut-offs and loop bounds
  that interact.

What makes each component correct, as the properties named in section 3:

| Component | Correct means |
|---|---|
| Query API, dispatchers, calc services | submissions end, and so do threads that do not wait for a post that never returns (`ThreadsEnd`); a success leaves facts and a recorded failure leaves a row, whatever late handlers do (`OutcomeIsStored`); failures are recorded in bounded time (`RecordedInTime`), no attempt is lost in the executor (`EveryAttemptIsSent`) |
| Finish DB | `completed_routes`, status and rows agree (`CompletedMatchesResults`), one notification per job (`NotifiedOnce`), status moves forward |
| Assembler | answers cover the expected routes (`AnswerCoversRoutes`), are final (`AnswerWrittenOnce`), no ready job is overlooked (`ReadyIsInHand`) |
| The pipeline as a whole | it is a job lifecycle (`ImplementsLifecycle`), accepted queries are assembled (`AcceptedIsAssembled`), polls are consistent (`AssembledHasResult`, `ClientSeesProgress`) |
| Calc backends | weak facts get a second opinion (`WeakFactsGetHelp`), a result names its pages (`ResultIsTraceable`) |
| Health cache | verdicts acted on are recent (`VerdictIsRecent`) |
| Embedder | queries of one process are embedded alike (`EmbedsAlike`) |
| Pool | nothing leaks, and a connection goes back to its own pool (`LentIsHeld`) |
| Guard, IPC client, core | counts are exact (`CountsHolders`, `CountsRequests`), refusals justified (`RefusedOnlyAboveLimit`), both are slots (`ImplementsSlots`, `FireImplementsSlots`) |
| C++ routing table | every library of a zone has a route that covers it (`EveryZoneIsCovered`) |
| Import | pages are whole (`PagesAreWhole`), files are finished in order (`ImportsAPrefix`), vectors keep their page (`VectorKeepsPage`) |
| Selection, retrieval | the best are chosen (`SelectsTheBest`, `BestOfLibrary`), a second route when it fits (`SecondRouteFits`) |
| Merge | no duplicate, nothing lost, nobody crowded out (`NoDuplicates`, `NothingLeftOut`, `Balanced`) |
| Chunking | all words are covered by full chunks (`CoversText`) |
| Assembly | the most confident item wins, nothing vanishes (`HighestConfidenceWins`, `NothingVanishes`) |
| State mapping | the `dim_to_zone` of Python and of C++ agree (`SameZone`) |
| Load tests | every query is counted once (`CountsEveryQuery`) |
| Functions and programs | they end (`EveryPartEnds`) |

## 2. Modules and code

### The pipeline

`FinishDb` is extended by `QueryApi`, `RouteDispatch` and `Assembler`; `Pipeline`
extends the three and composes them by interleaving, each action leaving the
variables of the other components alone. `MCPipeline` instantiates it.

**`FinishDb`** (`schema/01_finish_db.sql`, `common/db.py`). `status`, `expected`
and `completed` are the columns of `pipeline_jobs`; `results` says what the row
of `calc_results` for a job and a route holds: nothing, the facts of the calc
service, or the dispatcher's fallback; `answer` is the row of `final_answers`,
represented by the result rows it was built from; `inbox` is what the server has
delivered to the listening session. One operator is one `get_conn()` block, that
is one transaction: `InsertPipelineJob`, `InsertCalcResult` (its INSERT branch
fires the trigger `AfterCalcResult`, its ON CONFLICT branch does not),
`WriteFinalAnswer` (upsert and status change together). `PgNotify` appends to
the inbox only if somebody listens. `Fault` stands for every statement that
raises and for every crash: the open transaction is rolled back, so the tables
stay.

**`QueryApi`** (`submit_query`, `query_status`). `request` is where a submission
is between its commits: "new" up to `insert_pipeline_job`, "retrieve" up to the
end of merge and cascade trace, "dispatch" while it starts threads, "trace" for
the last trace. `SubmitFails` is an exception at any of these points (the code
catches none). `PollJob` and `PollAnswer` are the two SELECTs of
`get_job_status`.

**`RouteDispatch`** (`_dispatch_route`, `_post`, `calc`). Three actors per job and
route. The dispatcher thread (`disp`, `attempt`): missing endpoint, health check,
fail-fast, `SubmitPost`, the outcomes of `future.result` (`PostSucceeds`,
`PostFails`, `AttemptTimeout`), backoff and the two transactions of
`_record_route_failure` (`RecordFailure`, `TraceFailure`; `RecordingFails` is an
exception in one of them). Every return and every exception then leaves `with
ThreadPoolExecutor`, whose exit is `shutdown(wait=True)`: in the stages `Leaving`
the thread waits until its worker is idle (`LeaveExecutor`). The executor's only
worker (`worker`), which takes one queued post after the other and may still be
busy with a timed-out one. The handler in the calc service, one per attempt
(`call`): it infers, commits the result, traces and replies, or fails at each of
these points, and does not notice that nobody waits for it.

**`Assembler`** (`_listen_loop`, `_assemble_job`). `listener` is the thread,
`cur` and `rows` its locals. An exception anywhere ends the thread
(`ListenerFails`): nothing catches it and the process stays up without listener.
`AssemblerRestart` is the operator's restart; what was in the inbox or in hand is
gone, and startup does not look for ready jobs.

**`Pipeline`** states the properties. **`JobLifecycle`** is the abstract
specification of one job: created with its routes, completed route by route,
ready with the last, assembled once from all. `Pipeline` implements it under
`phase <- status`, `covered <- [j |-> Filled(answer[j])]`; retries, late
handlers, faults, notifications and polls are stuttering steps.

### Objects shared by threads

**`SlotPool`** is the abstract counter of slots: acquired and released by holders,
never more than the limit. Two implementations are shown to refine it:
**`HierarchicalGuard`** (`reserve_slot`, `release_slot`: load,
`compare_exchange_weak` that may fail spuriously, give up) and **`BruceCore`**
(`bruce_core.cpp` `main`, `IPCClient::fire` and its detached threads: count,
spawn, payload file, curl, remove, `fetch_sub`; when `main` returns, threads end
where they are, a curl already started goes on).

**`ConnPool`** (`_get_pool`, `get_conn`): the unlocked `if _pool is None`, the
constructor, `return _pool` reading the global again, `getconn` (idle, new,
exhausted, refused), the body, `putconn`. A pool is named after the thread that
created it, so that pools replaced by a later creation stay visible.

**`HealthCache`** (`_route_health`): the clock read, the cache hit, the check in
an executor, the store. `shown`, the moment the endpoint showed what the verdict
says, is not in the code; it is what the property is about.

**`Embedder`** (`get_embedder`, `embed_int16`): `lru_cache` looks, the constructor
loads the model or not, the first instance stored stays, and the thread goes on
with the one it has made.

### Import

**`KnowledgeImport`** (`import_file`, `main`): importers with one transaction per
file, an upsert per chunk in `vektoren` keyed by the checksum of the embedding, a
row per chunk. `locker` is the row lock, `owner` the `seite_id` of the vector
row. A later transaction waits for the lock; PostgreSQL aborts one of those that
wait in a circle (`Deadlocked`). **`ChunkText`** is `chunk_text`, a word being its
length and a chunk the interval of its words.

**`Loops`** holds the two loops that several functions make over a list: `Filter`
(a comprehension with a condition) and `Total` (a running sum), as recursive
functions, so that theorems can speak of what they compute.

### Sequential functions and programs

**`RouteSelection`** (`fetch_active_routes`, `_score_route_intent`,
`_select_routes`): fetch, rank, keep one or two. **`ContextRetrieval`**
(`_retrieve_context_chunks`): the trigram SELECT, the ANN SELECT in a second
transaction, the ranking, with imports committing at any time. `AnnOutcomes` says
what the server makes of the ANN SELECT. PostgreSQL with pgvector refuses it
(`AnnRefused`: `'[1,2]'::int2[]` is a malformed array literal, `api/main.py:308`, and
`<=>` is not defined for the column `INT2[]`, `schema/00_knowledge_db.sql:49`), and
then every retrieval raises (finding 6) after the job row is committed (finding 1).
The ranking behind it is checked for a server that takes the statement
(`SelectAnn`), which is what the code was written for.
**`BalancedMerge`** (`_domain_balanced_merge`): one action per turn of the loop.
**`AnswerAssembly`** (`_deduplicate_conflicts`, `assemble`): one action per item,
then the division into sections. **`StateMapping`**: both `dim_to_zone` functions,
with the C++ conversions at their widths.

**`CalcInference`** (`calc`, the four `infer` methods, `_needs_hf_fallback`): parse the
rows, infer, ask the HF API if the facts are weak, cite, store. A chunk is its
page, its similarity, its overlap with the query and whether it holds code.
**`DispatchTiming`** (`_dispatch_route`, `_post`): the loop of `RouteDispatch` once
more, for one dispatcher, with the clock: `elapsed` is `perf_counter() - started`,
`busy` the moment the worker of the executor is free. **`RoutingTable`**
(`reload_from_database`, `resolve`, `map_state_to_bibliothek_id`): the rows of the
active version in the order of their priority, or the built-in route.

**`StressClient`** (`submit_and_poll`, `run_load_test`, the sustained test): `main`, the
workers of its executor and the pipeline behind them interleave; `futures` is the
list, `counted` says how often the results have a query. **`BackendBenchmark`**
(`benchmark_backends.py`, `docker-compose.yml`): `main` step by step, containers
that start in any order, and what compose substitutes.

### Model-checking modules

`MCPipeline`, `MCCalc` and `MCRetrieval` add the values of constants. `MCShared` and
`MCParts` put small modules side by side in one state space: the modules do not
interact, so a behaviour picks one of them and leaves the others where they began
(`MCShared`, variable `object`) or at their end (`MCParts`, variable `part`). The
states of the run are the sum, not the product, of the parts.

Definitions commented "Faulty variant" stand beside the definition they vary: a
plausible mistake in the same code. `PROJECT.json`, "mutants", pairs each
property with a variant that breaks it, which shows that the property depends on
the code in question.

## 3. Runs

Bounds are constants of the .cfg; the counts are distinct states.

| Run | Instance | States | Shows |
|---|---|---|---|
| `pipeline_routes` | one query, two routes, one attempt each, one fault of any kind, fairness | 210,572 | tables, trigger, notification and answer stay consistent (`CompletedMatchesResults`, `NotifiedOnce`); `ImplementsLifecycle`; `AcceptedIsAssembled`, `ThreadsEnd` |
| `pipeline_retries` | one polled query, a route with three attempts and one without endpoint, two faults | 2,255,811 | late handlers, retries and fallbacks overwrite each other in every order, and polls see it: `OutcomeIsStored`, `AnswerWrittenOnce`, `AssembledHasResult`, `ClientSeesProgress` |
| `pipeline_jobs` | two queries, one route, one listener, one fault | 792,792 | notifications of several jobs in one inbox: `ReadyIsInHand` |
| `shared` | guard: four threads, two slots; pool: three threads, 1 to 2 connections; health cache: three dispatchers, check as long as the time to live, four ticks; embedder: three threads | 2,441,052 | `CountsHolders`, `ImplementsSlots`; `LentIsHeld`; `VerdictIsRecent`; `EmbedsAlike`; no deadlock |
| `parts` | every function and program alone, with all inputs within the bounds below, fairness | 1,615,735 | the properties of section 1 for selection, retrieval, merge, chunking, assembly, mapping, inference, timing, routing table, C++ core, import and load tests; `EveryPartEnds` |
| `pipeline_pending` | one query, one route, one fault | violation | finding 1 |
| `pipeline_ready` | the same, with fairness | violation | finding 2 |
| `pipeline_same` | two queries, one route, no fault | violation | finding 3 |
| `core_posted` | the C++ core, up to three routes, without fairness | violation | finding 4 |
| `calc_echo` | inference over one row | violation | finding 5 |
| `retrieval_ann` | the library of `parts`, a server that refuses the ANN SELECT | violation | finding 6 |
| `benchmark_backend` | two queries per suite | violation | finding 7 |

The states of `parts` by part: mapping 196,608; selection 494,751; retrieval 71,280;
merge 135,658; chunking 100,478; assembly 238,574; inference 16,746; timing 2,517;
routing table 3,888; core 2,316; import 288,914; load tests 62,163; benchmark
1,842. `pipeline_routes`, `shared` and `parts` also check the type invariants of
their modules.

Why these bounds are enough to show something:

- *Pipeline.* Two routes are the most the code selects (`_select_routes`). One
  fault is what separates any two commits; two are needed where a fault of the
  calc service meets one of the dispatcher. Three attempts let a handler of the
  first be overtaken by one that failed and one that is still queued in the
  executor. Two jobs are needed only for the listener, the single place where
  jobs meet. Theorems cover any numbers (section 6). `MaxFaults` is a bound of
  the model, `MaxRetries` and `MaxSelected` are the code's.
- *Guard.* Three threads already let an exchange fail on a stale copy; the
  fourth meets the limit in that moment. *Pool.* Three threads can create two
  pools and still contend for one. *Health cache.* A check that lasts as long
  as the time to live is the worst case the assumption allows (`Timeout = Ttl`);
  four ticks let an entry be stored, overwritten by a late check, and expire.
- *Core.* More routes than slots, so that refusal and acceptance both occur.
- *Import.* The files make circles of two and of three importers, an importer
  that meets its own vector twice, an empty file, and a second file that meets
  committed rows.
- *Functions.* Mapping: all 65,536 values, with 27 zones (the layout of the code)
  and the extremes 1 and 65,535. Selection: up to three routes, queries of 0, 3
  and 6 tokens (none, a ratio below four, a long query) with any number of
  matches that the ratio tells apart. Retrieval: four chunks in two pages, four
  score profiles, the first SELECT returns three of them, so that one is cut off,
  the ANN SELECT two or an exception, two are returned. Merge: two routes with up to three of four keys and room for
  three. Chunking: size 6, overlap 2, up to six words of lengths 1, 2, 5 and 7,
  so that a word may exceed a chunk and a chunk may have fewer words than the
  overlap. Assembly: up to three items of two entities or none, confidences 67,
  70 and 72, that is below, at and above the threshold 70 and less than the tie
  width 5 apart.
- *Inference.* Up to three rows of five kinds or unreadable, of which two are
  read (four in the code) and one by the fallback (two): the slices then cut as
  they do there. The kinds lie on both sides of 0.68, 0.74 and the overlap of
  one half; generated texts are shorter and longer than the ten tokens of
  `GraniteBackend`.
- *Timing.* The defaults of the code and four other settings, among them one
  with a deadline before the first timeout, one with five attempts and one
  without backoff; checks and POSTs from immediate to longer than every timeout,
  with the exact lengths of the timeouts between.
- *Routing table.* Up to three of five routes with ranges that touch, overlap and
  miss the libraries; all 27 zones; every failure of the reload.
- *Load tests.* Four queries, two workers, a queue of three: calls wait for a
  worker, and the window closes with calls queued, in work and done.
- *Benchmark.* Two queries, the fewest for which the script computes its
  statistics. *Embedder.* Two threads race for the constructor, the third comes
  late.

Symmetry (of the two jobs in `pipeline_jobs`, of the threads in `shared`) is used
only in runs without fairness; it is sound there because the modules treat the
permuted values alike.

`CHECK_DEADLOCK FALSE` stands in every run but `shared`, because the system comes
to rest there: queries are answered, imports done, functions returned. In
`shared` threads always have a next step, so that run checks deadlock.

## 4. Divergences found

Each of the seven violation runs refutes one statement of the documentation.

1. `pipeline_pending`, `PendingIsWorkedOn`. An exception in `submit_query` after
   `insert_pipeline_job` (`api/main.py:542`), a crash of the API, or a database
   error in a dispatcher leaves the job "pending" with nothing working on it;
   nothing reads `deadline_at` or writes "failed". `docs/API.md:126` says of
   "pending" that the query is being processed.
2. `pipeline_ready`, `ReadyIsAssembled`. The notification of a ready job has been
   delivered; the listener fails or the assembler is restarted before the answer is
   committed (`assembler/service.py:91`), and the notification is gone with the
   session. Startup does not look for ready jobs and later updates of a result do
   not notify, so the job stays ready although a new listener runs.
   `docs/API.md:127` says the assembly is imminent. (A NOTIFY sent while nobody
   listens is lost as well; the property asks for a delivered one.)
3. `pipeline_same`, `SameRoutesSameAnswer`. Timing alone decides whether a route
   contributes its facts or the dispatcher's fallback (`api/main.py:489`), with
   every component working. `README.md:15` says that equal input always gives
   equal output.
4. `core_posted`, `DispatchedIsPosted`. `fire` detaches the thread that runs curl
   (`ipc_client.cpp:44`) and `main` returns without waiting, so a run may end
   with a request accepted and never sent. `docs/CLI.md:75` says the binary
   dispatches the request with curl.

5. `calc_echo`, `AnswersFromDocuments`. If retrieval finds nothing, the API sends a
   chunk whose text is the query (`api/main.py:433`); the extractive backend finds
   that it overlaps with the query fully (`calc_models/backends.py:123`) and
   returns it as a confident fact without a page. `README.md:11` says that every
   answer rests on the stored documents alone.
6. `retrieval_ann`, `TrigramFallback`. The ANN SELECT is sent whether or not there is
   an HNSW index, PostgreSQL refuses it (section 2), and nothing catches the
   exception (`api/main.py:309`, `381`): the candidates of the trigram SELECT are
   lost with it. `docs/DEVELOPMENT.md:218` says that without the index, which
   `schema/00_knowledge_db.sql` leaves out where `int2_cosine_ops` is missing, the
   trigram-based fallback applies.
7. `benchmark_backend`, `MeasuresItsBackend`. `docker-compose.yml:40` gives the
   service `calc_bruce` the literal backend granite, so the suites "extractive" and
   "hf_api" both contain its answers. `docs/CLI.md:131` says that the script
   starts the services in extractive mode and then switches to hf_api.

Further disagreements met while reading, which no run demonstrates:

- the pool may be created twice by racing threads (`common/db.py:17`;
  `docs/DEVELOPMENT.md:60` calls it a singleton), and a process may then hold more
  connections than the limit of one pool (`docs/DATABASE.md:209`). `ConnPool` models
  it, and `LentIsHeld` holds for every pool nevertheless;
- of the ANN SELECT only rows that are also among the 500 of the first SELECT
  could enter the ranking (`api/main.py:384`); `docs/ARCHITECTURE.md:78` says that
  the results of both paths are merged. As the statement is refused, no run rests
  on it;
- of two code blocks of one page only one reaches the answer
  (`common/assembly.py:38`; `docs/ARCHITECTURE.md:106`);
- the trace of the assembly is stored under a trace id made from the job id
  (`assembler/service.py:53`), so the trace of a query never shows that stage
  (`docs/DEVELOPMENT.md`);
- after the benchmark the services run without the HF fallback they have by
  default, and with hf_api if its second suite raises
  (`scripts/benchmark_backends.py:245`);
- queries of six or more tokens keep a second route that scores 0.15, however far
  behind the first it is (`api/main.py:172`); `docs/ARCHITECTURE.md:74` and
  `docs/API.md:309` ask for a distance of at most 0.25 in any case. `SecondRouteFits`
  states what the code does;
- a word longer than 800 characters makes a chunk longer than the chunk size
  (`scripts/import_docs.py:36`; `docs/CLI.md:106`). `CoversText` states the
  bound with this exception.

## 5. Fairness

- **Pipeline** (`FairSpec`): weak fairness for each submission, for the start of
  each dispatcher, for each dispatcher thread and for the listener, because each
  is a running thread and each of its waits but one has a timeout (the health
  check, the attempt, the backoff; `select` returns when a notification is there). Nothing
  is assumed of calc services and executor workers, which may hang, nor of the
  operator who restarts a process. `AcceptedIsAssembled` therefore holds with calc
  services that never answer: the dispatcher times out and records the failure.
  `AcceptedIsAssembled` is stated for queries whose routes have endpoints, up to the first fault;
  findings 1 and 2 show why.
  At the exit of its executor a dispatcher waits for its worker without a timeout,
  so `ThreadsEnd` excepts a thread that stands there for ever behind a post that
  does not return (the phases of the httpx timeout bound a post only if the answer
  comes in one piece, section 7). By then the dispatcher has
  recorded its failure, or failed to.
- **BruceCore** (`CoreFairness`): `main` runs, and `compare_exchange_weak` does not
  fail spuriously for ever (weak fairness of `Count`). Nothing is assumed of the
  threads.
- **KnowledgeImport** (`ImportFairness`): each process runs unless it waits for a
  lock, and PostgreSQL's deadlock detector looks at every circle
  (`deadlock_timeout`).
- **StressClient** (`StressFairness`): `main` and the workers run, a call has a
  deadline (`max_poll_time`), the 90 seconds pass. Nothing is assumed of the
  pipeline, so a load test ends although nothing is ever assembled.
- **BackendBenchmark** (`BenchFairness`): `main` goes on; each of its waits has a
  deadline. Containers need not start.
- **Functions in `MCParts`**: a function that can go on goes on, as sequential code
  does.

## 6. Proofs

All theorems are checked by tlapm with Z3, Zenon and LS4, from the assumptions of
the modules only. Temporal goals are reduced to three facts about states and
steps by an inductive invariant.

| Module | Theorems |
|---|---|
| `DataLemmas` | lemmas only: recursive functions over naturals, `Filter`, `Total`, sorting by rank |
| `PipelineProofs` | `TypeCorrect`, `CompletedCorrect`, `NotifiedCorrect`, `AnswerComplete`, `OutcomeCorrect`, `PollCorrect`, `ReadyDelivered`, `StatusForward`, `AnswerFinal`, `ProgressSeen`, `PendingIsServed`, `Refinement` (`Spec => ImplementsLifecycle`) |
| `SharedProofs` | `GuardCorrect` (with `ReleaseFindsItsSlot`: no release is dropped), `GuardImplementsSlots`, `HealthRecent`, `EmbedderShared`, `NothingLeaks`, `SharedTypesCorrect` |
| `CoreProofs` | `CoreInvariant`, `CoreCounts`, `CoreImplementsSlots`, `ZonesAreCovered` |
| `ImportProofs` | `ImportCorrect`, `ImportPrefix`, `VectorStays`, `TextIsCovered` |
| `RankingProofs` | `BestRoutesSelected`, `SecondRouteMatches`, `BestChunksReturned` |
| `CalcProofs` | `MergeInvariant`, `MergeNoDuplicates`, `MergeComplete`, `MergeBalanced`, `HelpForWeakFacts`, `ResultsAreTraceable`, `AnswersRestOnPages` |
| `PartProofs` | `MappingAgrees`, `FailureIsRecordedInTime`, `AttemptsAreSent`, `QueriesAreCounted`, `DedupCorrect`, `AssemblyComplete`, `OnlyBruceDiffers`, `PartsTypesCorrect` |

With these, every invariant and every action property that a passing run checks
is a theorem.

**Assumptions.** `FaultAssumption` (a natural bound on faults), `ApiAssumption` (at
least one route may be selected), `DispatchAssumption` (`max_retries` is a
natural number), `NoJobAssumption`; `GuardAssumption` (finitely many threads, a
limit that fits 16 bits), `CoreAssumption`, `PoolAssumption` (finitely many
threads, minconn not above maxconn), `MergeAssumption`, `AssemblyAssumption`,
`ImportAssumption`; `HealthAssumption`: a check lasts no longer than the time to
live (the code passes at most 2 seconds), on a clock that is not set back;
`EmbedderAssumption`; `ZonesAssumption` (1 to 65,535 zones), `TimingAssumption`
(settings are natural numbers, the timeout is not 0), `StressAssumption`,
`SuiteAssumption`; `SelectionAssumption`, `RetrievalAssumption` (a finite library,
scores in percent, the stand-in chunk is none of its chunks), `CalcAssumption`
(overlaps in percent, at least one item), `ChunkAssumption` (words are not
empty, nor is the size 0), `RoutingAssumption` (the range of the built-in route is
the one of `Route{}`); `PartsAssumption`: what the idle parts of `MCParts` hold is
among their values. Jobs,
routes, retries and faults are unbounded in the theorems; TLC's runs use small
values of the same constants.

**The pipeline.** None of the properties is inductive alone. The invariant `IInv` of
`PipelineProofs` is the conjunction of

- `TypeInv`: types, and the listener works exactly when it has a job (it reads
  and writes tables at `cur`);
- `StoreInv`: what the columns, rows and answer of a job say of each other.
  `CompletedMatchesResults`, `NotifiedOnce` and `AnswerCoversRoutes` follow. It
  needs `completed \subseteq expected`, which holds only because of
- `OriginInv`: dispatchers and handlers exist only for routes a job expects;
- `OutcomeInv`: a fallback row is written by the route's own dispatcher, which
  has nothing to write afterwards, and a handler past its insert has left a row.
  Without it a success could be followed by its own fallback;
- `InboxInv`: notifications are for ready jobs, each once, and none for the job in
  hand. This is what makes answers final: the listener never takes a job that is
  already assembled;
- `ListenerInv`: the rows the listener holds are complete, because the job was
  ready when they were read;
- `PollInv`: a poll in progress has read "assembled" only if the job is.

`ReadyDelivered` strengthens this by `DeliveryInv`: until the first fault the
listener lives and listens; `ProgressSeen` by `ProgressInv`: a response is not
ahead of the tables, and a poll under way not behind the last response.
`Refinement` maps every step under `IInv` to a step of `JobLifecycle` or to a
stutter.

**The reach of the divergences.** Three theorems say when what a violation run
refutes does hold, and so that the run shows all there is to find:
`PendingIsServed` (finding 1: a fault or a route without an endpoint is needed;
`ServiceInv` says for every job who works on it next, down to the handler that
will record the last route), `AnswersRestOnPages` (finding 5: the stand-in chunk is
needed), `OnlyBruceDiffers` (finding 7: the answers of another backend are those
of `calc_bruce` with the one that docker-compose.yml fixes). `ReadyDelivered` does
the same for finding 2 until the first fault.

**The counters.** `SharedProofs` and `CoreProofs`: the counter equals the holders; a
stale copy that an exchange succeeds on equals the counter. `CopyIsModest` (the
copy `fire` decides on counts earlier requests only) is what bounds refusals.
**Merge**: `SeenInv` (seen is what is merged or passed), `RoomInv`, `RoundInv` (a
round without progress has exhausted the routes it visited); `Balanced` follows
from where in its round the loop stands. **Health cache**: an
entry's stamp is not younger than what it says (`EntryInv`), which is why a late
store that overwrites a newer entry does no harm. **Pool**: `CreationInv` besides
the property: the local variable of a borrower names a pool that was made.
**Embedder** (`EmbedderInv`): a thread that found an instance has the one that
stays.
**Mapping**: the zone size is positive (`ZoneSize`), and up to 65,535 zones the last
conversion of C++ changes nothing (`ZonesAgree`). **Timing** (`TimingInv`): an
attempt begins before the deadline, so the clock passes it by one attempt and one
pause; `SendInv`: the worker is at most 0.15 s behind the second attempt and 0.2 s
behind later ones, since an attempt that times out leaves it 0.25 s later at most
and the pauses grow faster (`DoublingGrows`). **Load tests** (`CountInv`): a query is either in `futures` or counted once;
`FuturesInv` bounds `futures`, and so what the sustained test leaves out.
**Import**: `RowsAreLocked` (a vector row of an uncommitted page is locked by its
transaction) and `HoldsItsRows` (an open transaction holds what it has
written): without them a rollback could take a vector from a committed page.
**Chunking** (`ChunkInv`): the chunk in work counts the characters of its words and
starts no later than one word behind the last, and a word that fits leaves the
next chunk a start before its end (`OverlapFits`). **Routing table** (`TableInv`): the
table lists the active rows without repetition, so that none is left out
(`OrderIsComplete`), and the built-in range holds every library of a zone
(`BuiltInCovers`). **Inference** (`CalcInv`): what is stored is traced to the chunks
that were sent, and the fallback is asked while the snippets still are what the
loop made of them. The loop (`Extracts`) makes a fact of each chunk and, after
some, a code block as sure as can be; so the sum of the confidences is that of
the facts and 100 for each code block, the third condition of
`_needs_hf_fallback` never decides, and code does not keep help away
(`CodeIsNoHelp`). **Benchmark** (`BenchInv`): while a suite waits or is measured, the
containers are those composed for it.

**Functions over data.** The theorems about selection, retrieval, chunking, the
table and the inference are about what loops compute for lists of any length.
Recursive operators are out of the prover's reach, so the loops of `Loops`,
`Extracted` and `Doubled` are recursive functions. A recursive function is a
`CHOOSE`; that a function with its equations exists is proved once, by induction
(`RecursionOnNat`), where induction is the least element of a set of naturals
(`SetInduction`, from `NatLessThanWellFounded`). From there `Filtering` says that
`Filter` keeps the order and exactly the elements of a set, `Totals` that sums of
lengths grow, and `SortedByRank` that taking for the k-th place the element with
k - 1 better ones sorts a list completely; `sorted` of Python is modelled that
way in `RankRoutes`, `RankChunks` and `MostSimilar`.

**Types of the composed modules.** The objects of `MCShared` do not disturb one
another (`ObjectsAreIndependent`); of the parts of `MCParts` one keeps its
invariant and the others stay at their end (`PartStep`, `PartsInv`). `SharedTypeOK`
and `PartsTypeOK` follow from the invariants of the modules.

## 7. Abstractions

- *Faults.* A statement that raises, or a crash, leaves the tables as they were
  (`get_conn` rolls back). A commit whose acknowledgement is lost is not modelled.
- *Traces.* Rows of `trace_log` are not kept; that their INSERT may raise is.
- *Pipeline data.* A result row is facts or fallback; retrieval, merge, health
  verdict and the fail-fast deadline are free choices there, and modelled in
  modules of their own. Time is absent: any attempt may time out. All routes
  share one `MaxRetries`.
- *Listener.* It listens when the first query arrives (services start before the
  API); later restarts are modelled.
- *Polls* of one client are sequential, and only queries in `Watched` are polled.
- *Atomics.* All accesses to a counter are to one object, so relaxed ordering
  leaves them in one modification order. The C++ conversion of the shifted value
  to an unsigned type is the identity because the sum is not negative.
- *Merge* compares chunks by their key `(seite_id, content[:80])` and keeps
  nothing else of them.
- *Assembly.* Confidences are hundredths. The entity ids of the code name their
  page (`chunk:X`, `code:X`), so two items of one entity have one source and the
  tie rule by source can never decide; the model has the rule nevertheless.
  The order inside a section and the averaged quality are left out.
- *Retrieval.* Scores are in 1/10,000; the cosine computed by PostgreSQL and the
  one computed by numpy are one number. Of the ANN SELECT
  see section 2; either SELECT may lose its connection. The branch
  that replaces a candidate by one with a larger trigram score never runs, as
  keys are unique in one SELECT.
- *Selection.* Words are abstracted to counts of matching tokens; scores are in
  1/1200, in which every weight is an integer. More than four matches count like
  four, as `min(..., 1.0)` makes of them.
- *Inference.* Of a payload with more chunks than an inference reads, a fact may
  name a page outside `source_seite_ids` (`calc_models/service.py:148`);
  `ResultIsTraceable` leaves that case open. Confidences are rounded to hundredths
  as the code does; a model's
  text is a text, attributed to the first chunk; prompts, snippets and their
  lengths are left out.
- *Timing.* Hundredths of a second; the code takes no time itself. A pause doubles
  up to 1.5 s. The answer to a POST is taken to come in one piece, since httpx
  restarts its read timeout with every piece; a service that trickles an answer
  could keep the worker longer.
- *Routing table.* The query is its zone. The zone of the model is an integer from
  0 to 26; `StateMapping` is about where it comes from.
- *Load tests, benchmark.* A query is a number, an answer the backend it came from;
  latencies, statistics and reports are left out.
- *Import.* Reading and embedding a file are one with its INSERTs; an empty file
  opens no transaction.

## 8. Only model-checked, and not modelled

Only model-checked:

- the liveness properties `AcceptedIsAssembled`, `ThreadsEnd` and `EveryPartEnds`
  (fairness and ENABLED are beyond the prover used).

Conversely `StatusMovesForward`, `ReleaseFindsItsSlot`, `AnswerCoversRoutes` and
`CountsRequests` are proved and not listed in a run: `ImplementsLifecycle`,
`CountsHolders` and `FireImplementsSlots` cover the same steps there.

Not modelled, with the reason:

- the whitelist's string comparison: one SELECT without state, whose verdict the
  pipeline keeps;
- texts: embedding vectors, snippets, prompts, the rendering of an answer. What
  decides on them (thresholds, slices, order) is modelled;
- `eval_retrieval.py`: six calls of the retrieval and averages of ranks; the other
  scripts set up a database or test one function. None keeps state others use;
- settings, health and debug endpoints, banners: read-only;
- the single-query and edge-case tests of `real_stress_benchmark.py` (sequential
  calls of `submit_and_poll`) and its statistics;
- rows of `trace_log` (nothing reads them), deletion of pages (no program of the
  repository does it), a repeated import of one path (no document allows or
  forbids it), a clock that is set back.

## 9. Plan

Done, in this order: pipeline and its lifecycle, guard and core, health cache and
pool, merge and assembly, import, selection, retrieval, chunking, mapping; then
inference and its fallbacks, the dispatcher's clock, the C++ routing table, the
embedder, the load tests and the backend benchmark; theorems for the pipeline,
the counters, merge, caches, pool, assembly, import, mapping, timing, load tests;
then for selection, retrieval, chunking, the routing table, inference, the
benchmark, the types of the composed modules, and for the reach of three of the
divergences.

Next:

1. Theorems on the reach of findings 3 and 4: with every calc service answering
   in time, equal routes give equal answers; a request of the core that is not
   posted belongs to a thread that ended with `main`.
2. The inference with the code's own slices (four and two) and more rows, if the
   state space allows, and its composition with `AnswerAssembly`.
3. Two processes with embedders of different kinds (`embedding/service.py:54`): the
   API against vectors that an import has made.
4. The trace log, for what `docs/DEVELOPMENT.md` says of following a query
   (`assembler/service.py:53`).

New questions replace shallower ones; the number of runs stays as it is.
