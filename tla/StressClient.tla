---------------------------- MODULE StressClient ----------------------------
(***************************************************************************)
(* The load tests of scripts/real_stress_benchmark.py: main hands calls of *)
(* submit_and_poll to an executor and collects their results.  A load test *)
(* (run_load_test) hands over all queries and waits for every one; the     *)
(* sustained test keeps a few futures going until 90 seconds are over.     *)
(***************************************************************************)
EXTENDS Integers, FiniteSets

CONSTANTS
  MaxQueries,  \* the queries of a load test; bound on those of a sustained one
  MaxWorkers,  \* max_workers
  QueueLength  \* len(futures) < 4

ASSUME StressAssumption ==
  MaxQueries \in Nat /\ MaxWorkers \in Nat \ {0} /\ QueueLength \in Nat \ {0}

VARIABLES
  test,       \* "load" or "sustained"
  window,     \* the 90 seconds are not over
  query_count,
  call,       \* where submit_and_poll is for a query, or how it returned
  job,        \* what became of the query in the pipeline
  futures,    \* the futures main still looks at
  counted,    \* how often the results list has a query
  testing

stressVars == <<test, window, query_count, call, job, futures, counted, testing>>

Asked == 1..query_count
Finished == {"success", "failure"}

StressTypeOK ==
  /\ test \in {"load", "sustained"}
  /\ window \in BOOLEAN
  /\ query_count \in 0..MaxQueries
  /\ call \in [1..MaxQueries -> {"none", "queued", "submit", "poll"} \union Finished]
  /\ job \in [1..MaxQueries -> {"none", "accepted", "assembled"}]
  /\ futures \subseteq Asked
  /\ counted \in [1..MaxQueries -> Nat]
  /\ testing \in {"fill", "collect", "exit", "done"}

StressInit ==
  /\ test \in {"load", "sustained"}
  /\ window = TRUE /\ query_count = 0
  /\ call = [q \in 1..MaxQueries |-> "none"]
  /\ job = [q \in 1..MaxQueries |-> "none"]
  /\ futures = {} /\ counted = [q \in 1..MaxQueries |-> 0]
  /\ testing = "fill"

-----------------------------------------------------------------------------
(* A worker takes the oldest call, and then makes it. *)
TakeCall ==
  /\ Cardinality({q \in Asked : call[q] \in {"submit", "poll"}}) < MaxWorkers
  /\ \E q \in Asked :
       /\ call[q] = "queued" /\ \A p \in 1..(q - 1) : call[p] # "queued"
       /\ call' = [call EXCEPT ![q] = "submit"]
  /\ UNCHANGED <<test, window, query_count, job, futures, counted, testing>>

(* POST /api/v1/queries: a query_id; or an exception or an answer without  *)
(* one, although the query may have been accepted.                         *)
PostQuery(q) ==
  /\ call[q] = "submit"
  /\ \/ call' = [call EXCEPT ![q] = "poll"] /\ job' = [job EXCEPT ![q] = "accepted"]
     \/ /\ call' = [call EXCEPT ![q] = "failure"]
        /\ job' \in {job, [job EXCEPT ![q] = "accepted"]}
  /\ UNCHANGED <<test, window, query_count, futures, counted, testing>>

(* A poll sees the job assembled.  Other polls, errors and sleeps change   *)
(* nothing.                                                                *)
PollSucceeds(q) ==
  /\ call[q] = "poll" /\ job[q] = "assembled"
  /\ call' = [call EXCEPT ![q] = "success"]
  /\ UNCHANGED <<test, window, query_count, job, futures, counted, testing>>

(* max_poll_time is over. *)
PollTimesOut(q) ==
  /\ call[q] = "poll"
  /\ call' = [call EXCEPT ![q] = "failure"]
  /\ UNCHANGED <<test, window, query_count, job, futures, counted, testing>>

(* The pipeline assembles an answer, in time or late or never. *)
JobAssembled(q) ==
  /\ job[q] = "accepted"
  /\ job' = [job EXCEPT ![q] = "assembled"]
  /\ UNCHANGED <<test, window, query_count, call, futures, counted, testing>>

-----------------------------------------------------------------------------
(* 90 seconds are over. *)
CloseWindow ==
  /\ test = "sustained" /\ window
  /\ window' = FALSE
  /\ UNCHANGED <<test, query_count, call, job, futures, counted, testing>>

MayAsk ==
  /\ query_count < MaxQueries
  /\ test = "sustained" => window /\ Cardinality(futures) < QueueLength

(* executor.submit *)
SubmitCall ==
  /\ testing = "fill" /\ MayAsk
  /\ query_count' = query_count + 1
  /\ call' = [call EXCEPT ![query_count + 1] = "queued"]
  /\ futures' = futures \union {query_count + 1}
  /\ UNCHANGED <<test, window, job, counted, testing>>

(* Every query of a load test is submitted, the queue of a sustained one   *)
(* is full, or the time is up.                                             *)
StopFilling ==
  /\ testing = "fill" /\ ~ MayAsk
  /\ testing' = "collect"
  /\ UNCHANGED <<test, window, query_count, call, job, futures, counted>>

Done == {q \in futures : call[q] \in Finished}

(* as_completed yields every future once, in the order in which they end. *)
CollectNext ==
  /\ testing = "collect" /\ test = "load"
  /\ \E q \in Done :
       counted' = [counted EXCEPT ![q] = @ + 1] /\ futures' = futures \ {q}
  /\ UNCHANGED <<test, window, query_count, call, job, testing>>

LoadCollected ==
  /\ testing = "collect" /\ test = "load" /\ futures = {}
  /\ testing' = "exit"
  /\ UNCHANGED <<test, window, query_count, call, job, futures, counted>>

(* Faulty variant: the list is emptied with the futures still in work. *)
ForgetsRest == {}

(* Those that are not done stay. *)
Remaining == futures \ Done

(* One look at all futures; the loop ends when the time is up. *)
CollectDone ==
  /\ testing = "collect" /\ test = "sustained"
  /\ counted' = [q \in 1..MaxQueries |-> counted[q] + IF q \in Done THEN 1 ELSE 0]
  /\ futures' = Remaining
  /\ testing' = IF window THEN "fill" ELSE "exit"
  /\ UNCHANGED <<test, window, query_count, call, job>>

(* The executor's block ends when all calls have returned. *)
ExitExecutor ==
  /\ testing = "exit" /\ \A q \in Asked : call[q] \in Finished
  /\ testing' = "done"
  /\ UNCHANGED <<test, window, query_count, call, job, futures, counted>>

CallStep == TakeCall \/ \E q \in Asked : PostQuery(q) \/ PollSucceeds(q) \/ PollTimesOut(q)

TestStep ==
  \/ CloseWindow \/ SubmitCall \/ StopFilling
  \/ CollectNext \/ LoadCollected \/ CollectDone \/ ExitExecutor

StressNext == CallStep \/ TestStep \/ \E q \in Asked : JobAssembled(q)

StressSpec == StressInit /\ [][StressNext]_stressVars

(* Calls have deadlines and threads run; nothing is assumed of the         *)
(* pipeline.  The clock closes the window.                                 *)
StressFairness ==
  /\ WF_stressVars(CallStep) /\ WF_stressVars(CloseWindow)
  /\ WF_stressVars(SubmitCall \/ StopFilling \/ CollectNext \/ LoadCollected \/ ExitExecutor)
  /\ WF_stressVars(CollectDone)

-----------------------------------------------------------------------------
(* The metrics of a load test count every query once, whatever the workers *)
(* do in which order; those of the sustained test leave out at most the    *)
(* last few futures, the ones that were in work when it last looked.       *)
CountsEveryQuery ==
  testing = "done" =>
    LET missed == {q \in Asked : counted[q] = 0} IN
    /\ \A q \in Asked : counted[q] <= 1
    /\ test = "load" => Asked = 1..MaxQueries /\ missed = {}
    /\ Cardinality(missed) <= QueueLength
=============================================================================
