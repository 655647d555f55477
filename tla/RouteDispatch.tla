--------------------------- MODULE RouteDispatch ---------------------------
(***************************************************************************)
(* One dispatcher thread per job and route (_dispatch_route), the single   *)
(* worker of its executor that posts the attempts, and the calc service    *)
(* handlers those posts start (calc_models/service.py, calc).  A handler   *)
(* does not notice that its client has given up: an attempt that timed out *)
(* may still commit its result later.                                      *)
(***************************************************************************)
EXTENDS FinishDb

CONSTANTS
  MaxRetries,  \* max_retries of a route: MaxRetries + 1 attempts
  NoEndpoint   \* routes configured without an endpoint

ASSUME DispatchAssumption ==
  /\ MaxRetries \in Nat
  /\ NoEndpoint \subseteq Routes

Attempts == 0..MaxRetries
IdleWorker == MaxRetries + 1

VARIABLES
  disp,    \* where the dispatcher of (job, route) is
  attempt, \* its loop variable
  worker,  \* the attempt its worker is posting, or IdleWorker
  call     \* the life of each attempt: executor queue, wire, calc handler

dispatchVars == <<disp, attempt, worker, call>>

Leaving == {"leaving", "raising"}  \* at the end of the with-block
Dispatching == {"health", "attempt", "wait", "record", "trace"} \union Leaving
Finished == {"ok", "recorded", "silent", "killed"}
InCalc == {"sent", "running", "inserted"}
Calls == InCalc \union {"none", "queued", "cancelled", "ok", "failed"}

DispatchTypeOK ==
  /\ disp \in [Jobs -> [Routes -> Dispatching \union Finished \union {"none"}]]
  /\ attempt \in [Jobs -> [Routes -> Attempts]]
  /\ worker \in [Jobs -> [Routes -> Attempts \union {IdleWorker}]]
  /\ call \in [Jobs -> [Routes -> [Attempts -> Calls]]]

DispatchInit ==
  /\ disp = [j \in Jobs |-> [r \in Routes |-> "none"]]
  /\ attempt = [j \in Jobs |-> [r \in Routes |-> 0]]
  /\ worker = [j \in Jobs |-> [r \in Routes |-> IdleWorker]]
  /\ call = [j \in Jobs |-> [r \in Routes |-> [a \in Attempts |-> "none"]]]

-----------------------------------------------------------------------------
(* The dispatcher thread. *)

Begin(j, r) ==
  /\ disp[j][r] = "none"
  /\ disp' = [disp EXCEPT ![j][r] = "health"]
  /\ UNCHANGED <<attempt, worker, call>>

(* No endpoint in the configuration: return, recording nothing. *)
SkipRoute(j, r) ==
  /\ disp[j][r] = "health"
  /\ r \in NoEndpoint
  /\ disp' = [disp EXCEPT ![j][r] = "silent"]
  /\ UNCHANGED <<attempt, worker, call, dbVars>>

(* _route_health, whichever verdict it returns. *)
CheckHealth(j, r) ==
  /\ disp[j][r] = "health"
  /\ r \notin NoEndpoint
  /\ \E next \in {"attempt", "record"} : disp' = [disp EXCEPT ![j][r] = next]
  /\ UNCHANGED <<attempt, worker, call, dbVars>>

(* Faulty variant: the deadline returns without recording the failure. *)
FailsFastSilently(j, r) ==
  /\ disp[j][r] = "attempt"
  /\ disp' = [disp EXCEPT ![j][r] = "silent"]
  /\ UNCHANGED <<attempt, worker, call, dbVars>>

(* elapsed_ms >= fail_fast_ms at the head of the loop. *)
FailFast(j, r) ==
  /\ disp[j][r] = "attempt"
  /\ disp' = [disp EXCEPT ![j][r] = "record"]
  /\ UNCHANGED <<attempt, worker, call, dbVars>>

(* executor.submit(_post), then future.result(timeout=...). *)
SubmitPost(j, r) ==
  /\ disp[j][r] = "attempt"
  /\ call' = [call EXCEPT ![j][r][attempt[j][r]] = "queued"]
  /\ disp' = [disp EXCEPT ![j][r] = "wait"]
  /\ UNCHANGED <<attempt, worker, dbVars>>

(* Faulty variant: any response counts as success. *)
IgnoresStatusCode(j, r) ==
  /\ disp[j][r] = "wait"
  /\ worker[j][r] = attempt[j][r]
  /\ call[j][r][attempt[j][r]] \in {"ok", "failed"}
  /\ disp' = [disp EXCEPT ![j][r] = "ok"]
  /\ worker' = [worker EXCEPT ![j][r] = IdleWorker]
  /\ UNCHANGED <<attempt, call, dbVars>>

(* Status 200: return.  Leaving the with-block waits for the worker. *)
PostSucceeds(j, r) ==
  /\ disp[j][r] = "wait"
  /\ worker[j][r] = attempt[j][r]
  /\ call[j][r][attempt[j][r]] = "ok"
  /\ disp' = [disp EXCEPT ![j][r] = "ok"]
  /\ worker' = [worker EXCEPT ![j][r] = IdleWorker]
  /\ UNCHANGED <<attempt, call, dbVars>>

(* Faulty variant: one attempt too many. *)
RetriesTooOften(j, r) ==
  IF attempt[j][r] <= MaxRetries
    THEN /\ attempt' = [attempt EXCEPT ![j][r] = @ + 1]
         /\ disp' = [disp EXCEPT ![j][r] = "attempt"]
    ELSE /\ disp' = [disp EXCEPT ![j][r] = "record"]
         /\ UNCHANGED attempt

(* Back off and loop while attempts are left, else record the failure. *)
NextAttempt(j, r) ==
  IF attempt[j][r] < MaxRetries
    THEN /\ attempt' = [attempt EXCEPT ![j][r] = @ + 1]
         /\ disp' = [disp EXCEPT ![j][r] = "attempt"]
    ELSE /\ disp' = [disp EXCEPT ![j][r] = "record"]
         /\ UNCHANGED attempt

(* The post returns another status, or raises: httpx gives up at its own   *)
(* connect, read and write limits, wherever the request then is.           *)
PostFails(j, r) ==
  /\ disp[j][r] = "wait"
  /\ worker[j][r] = attempt[j][r]
  /\ worker' = [worker EXCEPT ![j][r] = IdleWorker]
  /\ NextAttempt(j, r)
  /\ UNCHANGED <<call, dbVars>>

(* Faulty variant: future.result() without a timeout. *)
WaitsForever(j, r) ==
  /\ disp[j][r] = "timed_out"
  /\ NextAttempt(j, r)
  /\ UNCHANGED <<worker, call, dbVars>>

(* FuturesTimeout: cancel() removes a post that still waits for the worker *)
(* and cannot stop one that the worker has begun.                          *)
AttemptTimeout(j, r) ==
  /\ disp[j][r] = "wait"
  /\ call' = IF call[j][r][attempt[j][r]] = "queued"
               THEN [call EXCEPT ![j][r][attempt[j][r]] = "cancelled"] ELSE call
  /\ NextAttempt(j, r)
  /\ UNCHANGED <<worker, dbVars>>

(* _record_route_failure: the fallback fact, then the trace. *)
RecordFailure(j, r) ==
  /\ disp[j][r] = "record"
  /\ InsertCalcResult(j, r, "fallback")
  /\ disp' = [disp EXCEPT ![j][r] = "trace"]
  /\ UNCHANGED <<attempt, worker, call>>

TraceFailure(j, r) ==
  /\ disp[j][r] = "trace"
  /\ disp' = [disp EXCEPT ![j][r] = "leaving"]
  /\ UNCHANGED <<attempt, worker, call, dbVars>>

(* A database error in _record_route_failure: nothing catches it and       *)
(* nobody joins the thread.                                                *)
RecordingFails(j, r) ==
  /\ disp[j][r] \in {"record", "trace"}
  /\ Fault
  /\ disp' = [disp EXCEPT ![j][r] = "raising"]
  /\ UNCHANGED <<attempt, worker, call, channel>>

(* A return or an exception leaves "with ThreadPoolExecutor", whose exit   *)
(* is shutdown(wait=True): it joins the worker, which may still be at a    *)
(* post that timed out.  (Before the with-block the worker is idle.)       *)
LeaveExecutor(j, r) ==
  /\ disp[j][r] \in Leaving
  /\ worker[j][r] = IdleWorker
  /\ \A a \in Attempts : call[j][r][a] # "queued"
  /\ disp' = [disp EXCEPT ![j][r] = IF @ = "leaving" THEN "recorded" ELSE "killed"]
  /\ UNCHANGED <<attempt, worker, call, dbVars>>

DispatcherStep(j, r) ==
  \/ SkipRoute(j, r) \/ CheckHealth(j, r) \/ FailFast(j, r)
  \/ SubmitPost(j, r) \/ PostSucceeds(j, r) \/ PostFails(j, r)
  \/ AttemptTimeout(j, r) \/ RecordFailure(j, r) \/ TraceFailure(j, r)
  \/ LeaveExecutor(j, r)

-----------------------------------------------------------------------------
(* The worker thread and the calc handlers. *)

(* The worker takes the queued post and connects. *)
SendPost(j, r) ==
  \E a \in Attempts :
    /\ worker[j][r] = IdleWorker
    /\ call[j][r][a] = "queued"
    /\ worker' = [worker EXCEPT ![j][r] = a]
    /\ call' = [call EXCEPT ![j][r][a] = "sent"]
    /\ UNCHANGED <<disp, attempt, dbVars>>

(* A post whose dispatcher has stopped waiting ends, unseen. *)
WorkerDone(j, r) ==
  /\ worker[j][r] # IdleWorker
  /\ ~ (disp[j][r] = "wait" /\ worker[j][r] = attempt[j][r])
  /\ worker' = [worker EXCEPT ![j][r] = IdleWorker]
  /\ UNCHANGED <<disp, attempt, call, dbVars>>

(* The handler runs: parse the chunks, infer. *)
CalcReceives(j, r, a) ==
  /\ call[j][r][a] = "sent"
  /\ call' = [call EXCEPT ![j][r][a] = "running"]
  /\ UNCHANGED <<disp, attempt, worker, dbVars>>

(* insert_calc_result commits the inferred bausteine. *)
CalcInserts(j, r, a) ==
  /\ call[j][r][a] = "running"
  /\ InsertCalcResult(j, r, "facts")
  /\ call' = [call EXCEPT ![j][r][a] = "inserted"]
  /\ UNCHANGED <<disp, attempt, worker>>

(* insert_trace, and 200. *)
CalcReplies(j, r, a) ==
  /\ call[j][r][a] = "inserted"
  /\ call' = [call EXCEPT ![j][r][a] = "ok"]
  /\ UNCHANGED <<disp, attempt, worker, dbVars>>

(* Inference or the insert raises: 500, and nothing is committed. *)
CalcFails(j, r, a) ==
  /\ call[j][r][a] = "running"
  /\ call' = [call EXCEPT ![j][r][a] = "failed"]
  /\ UNCHANGED <<disp, attempt, worker, dbVars>>

(* insert_trace raises: 500, but the result is committed already. *)
CalcTraceFails(j, r, a) ==
  /\ call[j][r][a] = "inserted"
  /\ Fault
  /\ call' = [call EXCEPT ![j][r][a] = "failed"]
  /\ UNCHANGED <<disp, attempt, worker, channel>>

CalcStep(j, r) ==
  \/ SendPost(j, r) \/ WorkerDone(j, r)
  \/ \E a \in Attempts : \/ CalcReceives(j, r, a) \/ CalcInserts(j, r, a)
                         \/ CalcReplies(j, r, a) \/ CalcFails(j, r, a)
                         \/ CalcTraceFails(j, r, a)

-----------------------------------------------------------------------------
(* The calc service of a route dies with its handlers and connections. *)
CalcCrash(r) ==
  /\ Fault
  /\ call' = [j \in Jobs |-> [call[j] EXCEPT ![r] =
                [a \in Attempts |-> IF @[a] \in InCalc THEN "failed" ELSE @[a]]]]
  /\ UNCHANGED <<disp, attempt, worker, channel>>

(* The API process dies: its daemon dispatchers and their workers with it. *)
DispatchersDie ==
  /\ disp' = [j \in Jobs |-> [r \in Routes |->
                IF disp[j][r] \in Dispatching THEN "killed" ELSE disp[j][r]]]
  /\ worker' = [j \in Jobs |-> [r \in Routes |-> IdleWorker]]
  /\ call' = [j \in Jobs |-> [r \in Routes |-> [a \in Attempts |->
                IF call[j][r][a] = "queued" THEN "cancelled" ELSE call[j][r][a]]]]
  /\ UNCHANGED attempt
=============================================================================
