------------------------------ MODULE QueryApi ------------------------------
(***************************************************************************)
(* The API process seen from its clients (api/main.py): submit_query,      *)
(* which writes the job and starts one dispatcher thread per route, and    *)
(* query_status, which reads job and answer in two SELECTs.                *)
(***************************************************************************)
EXTENDS FinishDb

CONSTANTS
  MaxSelected,  \* _select_routes keeps at most this many routes (2)
  Watched       \* the queries whose client polls query_status

ASSUME ApiAssumption ==
  /\ MaxSelected \in Nat \ {0}
  /\ Watched \subseteq Jobs

VARIABLES
  request,  \* where submit_query is for a query
  started,  \* the routes whose dispatcher thread it has started
  polled,   \* the status a running query_status has read; "idle" if none runs
  seen      \* the last response of query_status for a query

apiVars == <<request, started, polled, seen>>

Running == {"retrieve", "dispatch", "trace"}

ApiTypeOK ==
  /\ request \in [Jobs -> Running \union {"new", "rejected", "error", "accepted"}]
  /\ started \in [Jobs -> SUBSET Routes]
  /\ polled \in [Jobs -> Statuses \union {"idle"}]
  /\ seen \in [Jobs -> [status : Statuses, result : BOOLEAN]]

ApiInit ==
  /\ request = [j \in Jobs |-> "new"]
  /\ started = [j \in Jobs |-> {}]
  /\ polled = [j \in Jobs |-> "idle"]
  /\ seen = [j \in Jobs |-> [status |-> "none", result |-> FALSE]]

(* is_query_whitelisted is false: 403, and nothing is written. *)
RejectQuery(j) ==
  /\ request[j] = "new"
  /\ request' = [request EXCEPT ![j] = "rejected"]
  /\ UNCHANGED <<started, polled, seen, dbVars>>

(* The query is whitelisted, embedded and traced, routes are selected, and *)
(* insert_pipeline_job commits: from here on the job exists.               *)
CreateJob(j, R) ==
  /\ request[j] = "new"
  /\ R # {}
  /\ Cardinality(R) <= MaxSelected
  /\ InsertPipelineJob(j, R)
  /\ request' = [request EXCEPT ![j] = "retrieve"]
  /\ UNCHANGED <<started, polled, seen>>

(* Retrieval for every route, the merge, and the "cascade" trace. *)
RetrieveChunks(j) ==
  /\ request[j] = "retrieve"
  /\ request' = [request EXCEPT ![j] = "dispatch"]
  /\ UNCHANGED <<started, polled, seen, dbVars>>

(* threading.Thread(target=_dispatch_route).start() for the next route. *)
StartDispatcher(j, r) ==
  /\ request[j] = "dispatch"
  /\ r \in expected[j] \ started[j]
  /\ started' = [started EXCEPT ![j] = @ \union {r}]
  /\ request' = IF expected[j] \subseteq started[j] \union {r}
                  THEN [request EXCEPT ![j] = "trace"] ELSE request
  /\ UNCHANGED <<polled, seen, dbVars>>

(* The "routing" trace, and the answer "queued" with the query id. *)
AcceptQuery(j) ==
  /\ request[j] = "trace"
  /\ request' = [request EXCEPT ![j] = "accepted"]
  /\ UNCHANGED <<started, polled, seen, dbVars>>

(* Anything submit_query calls raises: the client gets a 500 and no query  *)
(* id, and what was committed or started before stays.                     *)
SubmitFails(j) ==
  /\ request[j] \in Running \union {"new"}
  /\ Fault
  /\ request' = [request EXCEPT ![j] = "error"]
  /\ UNCHANGED <<started, polled, seen, channel>>

-----------------------------------------------------------------------------
(* get_job_status, first SELECT: the job row. *)
PollJob(j) ==
  /\ j \in Watched
  /\ request[j] = "accepted"
  /\ polled[j] = "idle"
  /\ polled' = [polled EXCEPT ![j] = status[j]]
  /\ UNCHANGED <<request, started, seen, dbVars>>

(* Faulty variant: the answer is read first, the job row second. *)
ReadsAnswerFirst(j) ==
  /\ polled[j] # "idle"
  /\ seen' = [seen EXCEPT ![j] =
                [status |-> status[j], result |-> polled[j] = "assembled"]]
  /\ polled' = [polled EXCEPT ![j] = "idle"]
  /\ UNCHANGED <<request, started, dbVars>>

(* Second SELECT, of final_answers.  Under READ COMMITTED it has a         *)
(* snapshot of its own, so the answer may be newer than the status.        *)
PollAnswer(j) ==
  /\ polled[j] # "idle"
  /\ seen' = [seen EXCEPT ![j] =
                [status |-> polled[j], result |-> answer[j] # NoRows]]
  /\ polled' = [polled EXCEPT ![j] = "idle"]
  /\ UNCHANGED <<request, started, dbVars>>

(* The process dies: running submissions and polls are never answered. *)
ApiLosesRequests ==
  /\ request' = [j \in Jobs |->
                   IF request[j] \in Running THEN "error" ELSE request[j]]
  /\ polled' = [j \in Jobs |-> "idle"]
  /\ UNCHANGED <<started, seen>>

SubmitStep(j) ==
  \/ RejectQuery(j)
  \/ \E R \in SUBSET Routes : CreateJob(j, R)
  \/ RetrieveChunks(j)
  \/ AcceptQuery(j)
  \/ SubmitFails(j)

PollStep(j) == PollJob(j) \/ PollAnswer(j)
=============================================================================
