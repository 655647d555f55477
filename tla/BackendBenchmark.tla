--------------------------- MODULE BackendBenchmark ---------------------------
(***************************************************************************)
(* scripts/benchmark_backends.py: main recreates the API and the two calc  *)
(* services with one backend and then with the other, measures a suite of  *)
(* queries with each and restores the default.  What a container gets of   *)
(* the environment is decided by docker-compose.yml.                       *)
(***************************************************************************)
EXTENDS Integers, FiniteSets

CONSTANT SuiteLength  \* len(QUERIES)

ASSUME SuiteAssumption == SuiteLength \in Nat

Calcs == {"calc_bruce", "calc_docs_de"}
Containers == Calcs \union {"api"}
Suites == {"extractive", "hf_api"}
Fallback == "fallback"  \* the row a dispatcher stores for its calc service

VARIABLES
  hf_token,  \* HF_API_TOKEN is set
  suite,     \* the one being prepared or measured
  deployed,  \* the backend of each calc container
  up,        \* the containers that answer
  query_idx, \* queries of the suite that are over
  cases,     \* len(latencies)
  answerers, \* what answered the measured queries of each suite
  reported,  \* results: the cases of each suite, 0 if there are none
  bench      \* where main is, or how it ended

benchVars ==
  <<hf_token, suite, deployed, up, query_idx, cases, answerers, reported, bench>>

Environment == {"granite"} \union Suites

BenchTypeOK ==
  /\ hf_token \in BOOLEAN
  /\ suite \in Suites
  /\ deployed \in [Calcs -> Environment]
  /\ up \subseteq Containers
  /\ query_idx \in 0..SuiteLength /\ cases \in 0..query_idx
  /\ answerers \in [Suites -> SUBSET (Environment \union {Fallback})]
  /\ reported \in [Suites -> {0} \union 2..SuiteLength]
  /\ bench \in {"compose", "wait", "measure", "restore", "exit", "raised"}

(* The environment that docker-compose.yml hands on, CALC_BACKEND_DOCS     *)
(* only: the backend of calc_bruce is a literal.                           *)
Substituted(value) ==
  [service \in Calcs |-> IF service = "calc_docs_de" THEN value ELSE "granite"]

BenchInit ==
  /\ hf_token \in BOOLEAN
  /\ suite = "extractive"
  /\ deployed = Substituted("extractive") /\ up = Containers
  /\ query_idx = 0 /\ cases = 0
  /\ answerers = [s \in Suites |-> {}] /\ reported = [s \in Suites |-> 0]
  /\ bench = "compose"

-----------------------------------------------------------------------------
(* The backend in the environment of this call of _compose_up. *)
Requested == IF bench = "restore" THEN "extractive" ELSE suite

(* docker compose up -d --force-recreate *)
ComposeUp ==
  /\ bench \in {"compose", "restore"}
  /\ deployed' = Substituted(Requested)
  /\ up' = {}
  /\ bench' = IF bench = "restore" THEN "exit" ELSE "wait"
  /\ UNCHANGED <<hf_token, suite, query_idx, cases, answerers, reported>>

(* check=True: whatever compose has done by then stays. *)
ComposeFails ==
  /\ bench \in {"compose", "restore"}
  /\ deployed' \in {deployed, Substituted(Requested)}
  /\ up' \in SUBSET up
  /\ bench' = "raised"
  /\ UNCHANGED <<hf_token, suite, query_idx, cases, answerers, reported>>

ContainerStarts ==
  /\ \E c \in Containers \ up : up' = up \union {c}
  /\ UNCHANGED <<hf_token, suite, deployed, query_idx, cases, answerers, reported, bench>>

(* _wait_ready; the second time nobody waits for the API. *)
AllReady ==
  /\ bench = "wait"
  /\ (IF suite = "extractive" THEN Containers ELSE Calcs) \subseteq up
  /\ bench' = "measure" /\ query_idx' = 0 /\ cases' = 0
  /\ UNCHANGED <<hf_token, suite, deployed, up, answerers, reported>>

WaitFails ==
  /\ bench = "wait"
  /\ bench' = "raised"
  /\ UNCHANGED <<hf_token, suite, deployed, up, query_idx, cases, answerers, reported>>

(* A query is assembled, from an answer or a fallback row for every route. *)
QueryAssembled ==
  /\ bench = "measure" /\ query_idx < SuiteLength /\ "api" \in up
  /\ \E routes \in SUBSET Calcs \ {{}}, silent \in SUBSET Calcs :
       answerers' = [answerers EXCEPT ![suite] =
         @ \union {IF c \in silent THEN Fallback ELSE deployed[c] : c \in routes}]
  /\ query_idx' = query_idx + 1 /\ cases' = cases + 1
  /\ UNCHANGED <<hf_token, suite, deployed, up, reported, bench>>

(* No query_id, not assembled in time, any exception. *)
QueryFails ==
  /\ bench = "measure" /\ query_idx < SuiteLength
  /\ query_idx' = query_idx + 1
  /\ UNCHANGED <<hf_token, suite, deployed, up, cases, answerers, reported, bench>>

(* The statistics need two cases; the hf_api suite needs a token. *)
Summarise ==
  /\ bench = "measure" /\ query_idx = SuiteLength
  /\ IF cases < 2
       THEN bench' = "raised" /\ UNCHANGED <<suite, reported>>
       ELSE /\ reported' = [reported EXCEPT ![suite] = cases]
            /\ IF suite = "extractive" /\ hf_token
                 THEN suite' = "hf_api" /\ bench' = "compose"
                 ELSE UNCHANGED suite /\ bench' = "restore"
  /\ UNCHANGED <<hf_token, deployed, up, query_idx, cases, answerers>>

BenchMain ==
  \/ ComposeUp \/ ComposeFails \/ AllReady \/ WaitFails
  \/ QueryAssembled \/ QueryFails \/ Summarise

BenchNext == BenchMain \/ ContainerStarts

BenchSpec == BenchInit /\ [][BenchNext]_benchVars

(* Every wait of main has a deadline. *)
BenchFairness == WF_benchVars(BenchMain)

-----------------------------------------------------------------------------
(* docs/CLI.md, benchmark_backends.py: it starts the services in extractive *)
(* mode and measures, then it switches to hf_api; so no query of a suite is *)
(* answered by another backend than the one the suite is reported for.      *)
MeasuresItsBackend ==
  \A s \in Suites : answerers[s] \subseteq {s, Fallback}
=============================================================================
