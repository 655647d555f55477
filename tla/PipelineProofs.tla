--------------------------- MODULE PipelineProofs ---------------------------
(***************************************************************************)
(* Theorems about Pipeline.tla, for every set of jobs and routes, every    *)
(* number of retries and every number of faults.                           *)
(***************************************************************************)
EXTENDS Pipeline, TLAPS

-----------------------------------------------------------------------------
(* The inductive invariant. *)

(* The listener holds a job exactly while it works on one; the types need  *)
(* it, as rows and answer are read and written at cur.                     *)
ListenerBusy == listener \in Working <=> cur # NoJob

TypeInv == TypeOK /\ ListenerBusy

(* What a job's row, its results and its answer say of each other. *)
JobStore(j) ==
  /\ completed[j] = Filled(results[j])
  /\ completed[j] \subseteq expected[j]
  /\ status[j] = "none" <=> expected[j] = {}
  /\ status[j] \in {"ready", "assembled"} <=>
       status[j] # "none" /\ expected[j] \subseteq completed[j]
  /\ Filled(answer[j]) = IF status[j] = "assembled" THEN expected[j] ELSE {}
  /\ notified[j] = IF status[j] \in {"ready", "assembled"} THEN 1 ELSE 0

StoreInv == \A j \in Jobs : JobStore(j)

(* Dispatchers exist for routes the job expects, handlers for dispatchers. *)
RequestOrigin(j) ==
  /\ request[j] = "new" => status[j] = "none"
  /\ request[j] \in Running => status[j] # "none"

DispatchOrigin(j, r) ==
  /\ disp[j][r] # "none" => r \in expected[j]
  /\ \A a \in Attempts : call[j][r][a] # "none" => r \in expected[j]

OriginInv ==
  /\ \A j \in Jobs : RequestOrigin(j)
  /\ \A j \in Jobs, r \in Routes : DispatchOrigin(j, r)

(* A fallback row was written by the route's own dispatcher, which then    *)
(* has nothing more to write; a handler past its insert has left a row.    *)
RouteOutcome(j, r) ==
  /\ results[j][r] = "fallback" => disp[j][r] \in {"trace", "recorded", "killed"} \union Leaving
  /\ disp[j][r] \in {"trace", "leaving", "recorded"} => results[j][r] # "none"
  /\ disp[j][r] = "ok" => results[j][r] = "facts"
  /\ \A a \in Attempts : call[j][r][a] \in {"inserted", "ok"} => results[j][r] # "none"

OutcomeInv == \A j \in Jobs, r \in Routes : RouteOutcome(j, r)

(* Every notification in the inbox is for a ready job of its own, which    *)
(* the listener is not already working on.                                 *)
InboxInv ==
  /\ \A i \in 1..Len(inbox) : status[inbox[i]] = "ready" /\ inbox[i] # cur
  /\ \A i, k \in 1..Len(inbox) : inbox[i] = inbox[k] => i = k

(* What the listener holds. *)
ListenerInv ==
  /\ listening <=> listener \in Working \union {"idle"}
  /\ ~ listening => inbox = <<>>
  /\ listener \in {"fetch", "write"} => status[cur] = "ready"
  /\ listener = "trace" => status[cur] = "assembled"
  /\ listener = "write" => Filled(rows) = expected[cur]

(* A poll in progress has read a status no newer than the current one. *)
PollInv ==
  \A j \in Jobs :
    /\ polled[j] = "assembled" => status[j] = "assembled"
    /\ seen[j].status = "assembled" => seen[j].result

IInv ==
  /\ TypeInv
  /\ StoreInv
  /\ OriginInv
  /\ OutcomeInv
  /\ InboxInv
  /\ ListenerInv
  /\ PollInv
-----------------------------------------------------------------------------
(* Types. *)

LEMMA FaultType ==
  ASSUME DbTypeOK, Fault, UNCHANGED channel
  PROVE  DbTypeOK'
BY FaultAssumption DEF DbTypeOK, Fault, jobRows, channel

LEMMA SameDbType ==
  ASSUME DbTypeOK, UNCHANGED dbVars
  PROVE  DbTypeOK'
BY DEF DbTypeOK, dbVars, jobRows, channel

LEMMA InsertCalcResultType ==
  ASSUME DbTypeOK, NEW j \in Jobs, NEW r \in Routes, NEW row \in Rows,
         InsertCalcResult(j, r, row)
  PROVE  DbTypeOK'
<1>1. CASE OverwriteResult(j, r, row)
  BY <1>1 DEF DbTypeOK, OverwriteResult, jobRows, channel
<1>2. CASE InsertResult(j, r, row)
  <2>1. completed' \in [Jobs -> SUBSET Routes]
    BY <1>2 DEF DbTypeOK, InsertResult, AfterCalcResult
  <2>2. status' \in [Jobs -> Statuses]
    BY <1>2 DEF DbTypeOK, InsertResult, AfterCalcResult, Statuses
  <2>3. /\ inbox' \in Seq(Jobs)
        /\ notified' \in [Jobs -> Nat]
        /\ listening' \in BOOLEAN
    <3>1. CASE PgNotify(j)
      <4>1. inbox \in Seq(Jobs) /\ Append(inbox, j) \in Seq(Jobs)
        BY DEF DbTypeOK
      <4> QED
        BY <3>1, <4>1 DEF DbTypeOK, PgNotify
    <3>2. CASE UNCHANGED channel
      BY <3>2 DEF DbTypeOK, channel
    <3> QED
      BY <1>2, <3>1, <3>2 DEF InsertResult, AfterCalcResult
  <2>4. results' \in [Jobs -> [Routes -> Rows]]
    BY <1>2 DEF DbTypeOK, InsertResult
  <2> QED
    BY <1>2, <2>1, <2>2, <2>3, <2>4 DEF DbTypeOK, InsertResult
<1> QED
  BY <1>1, <1>2 DEF InsertCalcResult

LEMMA ApiHandlesType ==
  ASSUME TypeOK, NEW j \in Jobs, ApiHandles(j)
  PROVE  TypeOK'
<1>1. CASE RejectQuery(j) \/ RetrieveChunks(j) \/ AcceptQuery(j)
  <2>1. ApiTypeOK'
    BY <1>1 DEF TypeOK, ApiTypeOK, RejectQuery, RetrieveChunks, AcceptQuery, Running
  <2> QED
    BY <1>1, <2>1, SameDbType DEF TypeOK, ApiHandles, RejectQuery, RetrieveChunks,
       AcceptQuery, DispatchTypeOK, dispatchVars, AsmTypeOK, asmVars
<1>2. ASSUME NEW R \in SUBSET Routes, CreateJob(j, R) PROVE TypeOK'
  <2>1. DbTypeOK'
    BY <1>2 DEF TypeOK, DbTypeOK, CreateJob, InsertPipelineJob, channel, Statuses
  <2>2. ApiTypeOK'
    BY <1>2 DEF TypeOK, ApiTypeOK, CreateJob, Running
  <2> QED
    BY <2>1, <2>2 DEF TypeOK, ApiHandles, DispatchTypeOK, dispatchVars, AsmTypeOK, asmVars
<1>3. CASE SubmitFails(j)
  <2>1. ApiTypeOK'
    BY <1>3 DEF TypeOK, ApiTypeOK, SubmitFails, Running
  <2> QED
    BY <1>3, <2>1, FaultType DEF TypeOK, ApiHandles, SubmitFails, DispatchTypeOK,
       dispatchVars, AsmTypeOK, asmVars
<1>4. CASE PollStep(j)
  <2>1. ApiTypeOK'
    <3>1. CASE PollJob(j)
      BY <1>4, <3>1 DEF TypeOK, ApiTypeOK, PollJob, DbTypeOK
    <3>2. CASE PollAnswer(j)
      <4>1. [status |-> polled[j], result |-> answer[j] # NoRows]
              \in [status : Statuses, result : BOOLEAN]
        BY <3>2 DEF TypeOK, ApiTypeOK, PollAnswer
      <4> QED
        BY <3>2, <4>1 DEF TypeOK, ApiTypeOK, PollAnswer
    <3> QED
      BY <1>4, <3>1, <3>2 DEF PollStep
  <2> QED
    BY <1>4, <2>1, SameDbType DEF TypeOK, ApiHandles, PollStep, PollJob, PollAnswer,
       DispatchTypeOK, dispatchVars, AsmTypeOK, asmVars
<1> QED
  BY <1>1, <1>2, <1>3, <1>4 DEF ApiHandles, SubmitStep

LEMMA ApiStartsType ==
  ASSUME TypeOK, NEW j \in Jobs, NEW r \in Routes, ApiStarts(j, r)
  PROVE  TypeOK'
<1>1. ApiTypeOK'
  BY DEF TypeOK, ApiTypeOK, ApiStarts, StartDispatcher, Running
<1>2. DispatchTypeOK'
  BY DEF TypeOK, DispatchTypeOK, ApiStarts, Begin, Dispatching, Leaving
<1> QED
  BY <1>1, <1>2, SameDbType DEF TypeOK, ApiStarts, StartDispatcher, AsmTypeOK, asmVars

LEMMA NextAttemptType ==
  ASSUME DispatchTypeOK, NEW j \in Jobs, NEW r \in Routes, NextAttempt(j, r)
  PROVE  /\ attempt' \in [Jobs -> [Routes -> Attempts]]
         /\ disp' \in [Jobs -> [Routes -> Dispatching \union Finished \union {"none"}]]
<1>1. attempt[j][r] \in 0..MaxRetries
  BY DEF DispatchTypeOK, Attempts
<1>2. CASE attempt[j][r] < MaxRetries
  <2>1. attempt[j][r] + 1 \in Attempts
    BY <1>1, <1>2, DispatchAssumption DEF Attempts
  <2>2. attempt' = [attempt EXCEPT ![j][r] = attempt[j][r] + 1]
    BY <1>2 DEF NextAttempt
  <2>3. attempt' \in [Jobs -> [Routes -> Attempts]]
    BY <2>1, <2>2 DEF DispatchTypeOK
  <2>4. disp' = [disp EXCEPT ![j][r] = "attempt"]
    BY <1>2 DEF NextAttempt
  <2>5. disp \in [Jobs -> [Routes -> Dispatching \union Finished \union {"none"}]]
    BY DEF DispatchTypeOK
  <2> QED
    BY <2>3, <2>4, <2>5 DEF Dispatching, Leaving
<1>3. CASE ~ (attempt[j][r] < MaxRetries)
  <2>1. disp' = [disp EXCEPT ![j][r] = "record"] /\ attempt' = attempt
    BY <1>3 DEF NextAttempt
  <2> QED
    BY <2>1 DEF DispatchTypeOK, Dispatching, Leaving
<1> QED
  BY <1>2, <1>3

LEMMA DispatchesType ==
  ASSUME TypeOK, NEW j \in Jobs, NEW r \in Routes, Dispatches(j, r)
  PROVE  TypeOK'
<1>1. ApiTypeOK' /\ AsmTypeOK'
  BY DEF TypeOK, Dispatches, ApiTypeOK, apiVars, AsmTypeOK, asmVars
<1>2. CASE \/ SkipRoute(j, r) \/ CheckHealth(j, r) \/ FailFast(j, r)
           \/ TraceFailure(j, r) \/ LeaveExecutor(j, r)
  <2>1. DispatchTypeOK'
    <3>1. \E next \in Dispatching \union Finished : disp' = [disp EXCEPT ![j][r] = next]
      BY <1>2 DEF SkipRoute, CheckHealth, FailFast, TraceFailure, LeaveExecutor, Dispatching, Leaving, Finished
    <3> QED
      BY <1>2, <3>1 DEF TypeOK, DispatchTypeOK, SkipRoute, CheckHealth, FailFast, TraceFailure, LeaveExecutor
  <2> QED
    BY <1>1, <1>2, <2>1, SameDbType DEF TypeOK, SkipRoute, CheckHealth, FailFast, TraceFailure, LeaveExecutor
<1>3. CASE SubmitPost(j, r)
  <2>1. DispatchTypeOK'
    BY <1>3 DEF TypeOK, DispatchTypeOK, SubmitPost, Dispatching, Leaving, Calls
  <2> QED
    BY <1>1, <1>3, <2>1, SameDbType DEF TypeOK, SubmitPost
<1>4. CASE PostSucceeds(j, r)
  <2>1. DispatchTypeOK'
    BY <1>4 DEF TypeOK, DispatchTypeOK, PostSucceeds, Finished
  <2> QED
    BY <1>1, <1>4, <2>1, SameDbType DEF TypeOK, PostSucceeds
<1>5. CASE PostFails(j, r) \/ AttemptTimeout(j, r)
  <2>1. NextAttempt(j, r)
    BY <1>5 DEF PostFails, AttemptTimeout
  <2>2. worker' \in [Jobs -> [Routes -> Attempts \union {IdleWorker}]]
    <3>1. worker' = worker \/ worker' = [worker EXCEPT ![j][r] = IdleWorker]
      BY <1>5 DEF PostFails, AttemptTimeout
    <3>2. worker \in [Jobs -> [Routes -> Attempts \union {IdleWorker}]]
      BY DEF TypeOK, DispatchTypeOK
    <3> QED
      BY <3>1, <3>2
  <2>3. call' \in [Jobs -> [Routes -> [Attempts -> Calls]]]
    <3>1. call' = call \/ call' = [call EXCEPT ![j][r][attempt[j][r]] = "cancelled"]
      BY <1>5 DEF PostFails, AttemptTimeout
    <3>2. call \in [Jobs -> [Routes -> [Attempts -> Calls]]]
      BY DEF TypeOK, DispatchTypeOK
    <3>3. attempt[j][r] \in Attempts
      BY DEF TypeOK, DispatchTypeOK
    <3>4. CASE call' = [call EXCEPT ![j][r][attempt[j][r]] = "cancelled"]
      BY <3>2, <3>3, <3>4 DEF Calls
    <3> QED
      BY <3>1, <3>2, <3>4
  <2>4. DispatchTypeOK'
    BY <2>1, <2>2, <2>3, NextAttemptType DEF TypeOK, DispatchTypeOK
  <2> QED
    BY <1>1, <1>5, <2>4, SameDbType DEF TypeOK, PostFails, AttemptTimeout
<1>6. CASE RecordFailure(j, r)
  <2>1. DispatchTypeOK'
    BY <1>6 DEF TypeOK, DispatchTypeOK, RecordFailure, Dispatching, Leaving
  <2> QED
    BY <1>1, <1>6, <2>1, InsertCalcResultType DEF TypeOK, RecordFailure, Rows
<1>7. CASE RecordingFails(j, r)
  <2>1. DispatchTypeOK'
    BY <1>7 DEF TypeOK, DispatchTypeOK, RecordingFails, Dispatching, Leaving
  <2> QED
    BY <1>1, <1>7, <2>1, FaultType DEF TypeOK, RecordingFails
<1> QED
  BY <1>2, <1>3, <1>4, <1>5, <1>6, <1>7 DEF Dispatches, DispatcherStep

LEMMA CalculatesType ==
  ASSUME TypeOK, NEW j \in Jobs, NEW r \in Routes, Calculates(j, r)
  PROVE  TypeOK'
<1>1. ApiTypeOK' /\ AsmTypeOK'
  BY DEF TypeOK, Calculates, ApiTypeOK, apiVars, AsmTypeOK, asmVars
<1>2. CASE SendPost(j, r) \/ WorkerDone(j, r)
  <2>1. DispatchTypeOK'
    <3>1. CASE SendPost(j, r)
      BY <3>1 DEF TypeOK, DispatchTypeOK, SendPost, Calls, InCalc
    <3>2. CASE WorkerDone(j, r)
      BY <3>2 DEF TypeOK, DispatchTypeOK, WorkerDone
    <3> QED
      BY <1>2, <3>1, <3>2
  <2> QED
    BY <1>1, <1>2, <2>1, SameDbType DEF TypeOK, SendPost, WorkerDone
<1>3. ASSUME NEW a \in Attempts,
             CalcReceives(j, r, a) \/ CalcReplies(j, r, a) \/ CalcFails(j, r, a)
      PROVE  TypeOK'
  <2>1. DispatchTypeOK'
    <3>1. \E c \in Calls : call' = [call EXCEPT ![j][r][a] = c]
      BY <1>3 DEF CalcReceives, CalcReplies, CalcFails, Calls, InCalc
    <3> QED
      BY <1>3, <3>1 DEF TypeOK, DispatchTypeOK, CalcReceives, CalcReplies, CalcFails
  <2> QED
    BY <1>1, <1>3, <2>1, SameDbType DEF TypeOK, CalcReceives, CalcReplies, CalcFails
<1>4. ASSUME NEW a \in Attempts, CalcInserts(j, r, a) PROVE TypeOK'
  <2>1. DispatchTypeOK'
    BY <1>4 DEF TypeOK, DispatchTypeOK, CalcInserts, Calls, InCalc
  <2> QED
    BY <1>1, <1>4, <2>1, InsertCalcResultType DEF TypeOK, CalcInserts, Rows
<1>5. ASSUME NEW a \in Attempts, CalcTraceFails(j, r, a) PROVE TypeOK'
  <2>1. DispatchTypeOK'
    BY <1>5 DEF TypeOK, DispatchTypeOK, CalcTraceFails, Calls
  <2> QED
    BY <1>1, <1>5, <2>1, FaultType DEF TypeOK, CalcTraceFails
<1> QED
  BY <1>2, <1>3, <1>4, <1>5 DEF Calculates, CalcStep

LEMMA CrashType ==
  ASSUME TypeOK, ApiCrash \/ \E r \in Routes : CalcServiceCrash(r)
  PROVE  TypeOK'
<1>1. ASSUME NEW r \in Routes, CalcServiceCrash(r) PROVE TypeOK'
  <2>1. DispatchTypeOK'
    BY <1>1 DEF TypeOK, DispatchTypeOK, CalcServiceCrash, CalcCrash, Calls
  <2> QED
    BY <1>1, <2>1, FaultType DEF TypeOK, CalcServiceCrash, CalcCrash, ApiTypeOK, apiVars,
       AsmTypeOK, asmVars
<1>2. CASE ApiCrash
  <2>1. DispatchTypeOK'
    BY <1>2 DEF TypeOK, DispatchTypeOK, ApiCrash, DispatchersDie, Calls, Finished
  <2>2. ApiTypeOK'
    BY <1>2 DEF TypeOK, ApiTypeOK, ApiCrash, ApiLosesRequests
  <2> QED
    BY <1>2, <2>1, <2>2, FaultType DEF TypeOK, ApiCrash, AsmTypeOK, asmVars
<1> QED
  BY <1>1, <1>2

LEMMA AssemblesType ==
  ASSUME TypeInv, Assembles
  PROVE  TypeOK'
<1>0. TypeOK /\ ListenerBusy
  BY DEF TypeInv
<1>1. ApiTypeOK' /\ DispatchTypeOK'
  BY <1>0 DEF TypeOK, Assembles, ApiTypeOK, apiVars, DispatchTypeOK, dispatchVars
<1>2. CASE Listen
  BY <1>0, <1>1, <1>2 DEF TypeOK, DbTypeOK, AsmTypeOK, Listen, jobRows
<1>3. CASE TakeNotification
  BY <1>0, <1>1, <1>3 DEF TypeOK, DbTypeOK, AsmTypeOK, TakeNotification, jobRows, Working
<1>4. CASE FetchResults
  <2>1. cur \in Jobs
    BY <1>0, <1>4 DEF TypeOK, AsmTypeOK, ListenerBusy, FetchResults, Working
  <2>2. AsmTypeOK'
    BY <1>0, <1>4, <2>1 DEF TypeOK, DbTypeOK, AsmTypeOK, FetchResults, Working
  <2> QED
    BY <1>0, <1>1, <1>4, <2>2, SameDbType DEF TypeOK, FetchResults
<1>5. CASE WriteAnswer
  <2>1. DbTypeOK'
    BY <1>0, <1>5 DEF TypeOK, DbTypeOK, AsmTypeOK, WriteAnswer, WriteFinalAnswer, channel, Statuses
  <2> QED
    BY <1>0, <1>1, <1>5, <2>1 DEF TypeOK, AsmTypeOK, WriteAnswer, Working
<1>6. NoRows \in [Routes -> Rows]
  BY DEF NoRows, Rows
<1>7. CASE TraceAssembly
  BY <1>0, <1>1, <1>6, <1>7, SameDbType DEF TypeOK, AsmTypeOK, TraceAssembly
<1>8. CASE ListenerFails \/ AssemblerRestart
  <2>1. DbTypeOK'
    <3>1. Fault /\ StopListening
      BY <1>8 DEF ListenerFails, AssemblerRestart
    <3>2. faults' \in 0..MaxFaults
      BY <1>0, <3>1, FaultAssumption DEF TypeOK, DbTypeOK, Fault
    <3>3. inbox' \in Seq(Jobs) /\ listening' \in BOOLEAN /\ notified' = notified
      <4>1. inbox' = <<>> /\ listening' = FALSE /\ notified' = notified
        BY <3>1 DEF StopListening
      <4>2. <<>> \in Seq(Jobs)
        OBVIOUS
      <4> QED
        BY <4>1, <4>2
    <3>4. UNCHANGED <<status, expected, completed, results, answer>>
      BY <3>1 DEF Fault, jobRows
    <3>5. DbTypeOK
      BY <1>0 DEF TypeOK
    <3> QED
      BY <3>2, <3>3, <3>4, <3>5 DEF DbTypeOK
  <2> QED
    BY <1>0, <1>1, <1>6, <1>8, <2>1 DEF TypeOK, AsmTypeOK, ListenerFails, AssemblerRestart, StopListening
<1> QED
  BY <1>2, <1>3, <1>4, <1>5, <1>7, <1>8 DEF Assembles, AsmStep

LEMMA StutterType == TypeOK /\ UNCHANGED vars => TypeOK'
BY DEF TypeOK, vars, dbVars, jobRows, channel, apiVars, dispatchVars, asmVars,
   DbTypeOK, ApiTypeOK, DispatchTypeOK, AsmTypeOK

LEMMA InitType == Init => TypeOK
BY FaultAssumption, DispatchAssumption DEF Init, DbInit, ApiInit, DispatchInit, AsmInit, TypeOK, DbTypeOK, ApiTypeOK,
   DispatchTypeOK, AsmTypeOK, NoRows, Rows, Statuses, Attempts, IdleWorker, Calls

LEMMA ListenerBusyStep ==
  ASSUME TypeInv, [Next]_vars
  PROVE  ListenerBusy'
<1>1. CASE UNCHANGED asmVars
  BY <1>1 DEF TypeInv, ListenerBusy, asmVars
<1>2. CASE Assembles
  <2>1. CASE Listen \/ WriteAnswer
    BY <2>1 DEF TypeInv, ListenerBusy, Listen, WriteAnswer, Working
  <2>2. CASE TakeNotification
    <3>1. Head(inbox) \in Jobs
      BY <2>2 DEF TypeInv, TypeOK, DbTypeOK, TakeNotification
    <3> QED
      BY <2>2, <3>1, NoJobAssumption DEF TakeNotification, ListenerBusy, Working
  <2>3. CASE FetchResults
    BY <2>3 DEF TypeInv, ListenerBusy, FetchResults, Working
  <2>4. CASE TraceAssembly \/ ListenerFails \/ AssemblerRestart
    BY <2>4 DEF ListenerBusy, TraceAssembly, ListenerFails, AssemblerRestart, StopListening, Working
  <2> QED
    BY <1>2, <2>1, <2>2, <2>3, <2>4 DEF Assembles, AsmStep
<1> QED
  BY <1>1, <1>2 DEF Next, vars, ApiHandles, ApiStarts, Dispatches, Calculates,
     CalcServiceCrash, ApiCrash

LEMMA TypeInvStep == TypeInv /\ [Next]_vars => TypeInv'
BY ApiHandlesType, ApiStartsType, DispatchesType, CalculatesType, CrashType,
   AssemblesType, StutterType, ListenerBusyStep DEF Next, TypeInv

LEMMA TypeInvInit == Init => TypeInv
BY InitType DEF TypeInv, ListenerBusy, Init, AsmInit, Working

(* Every variable keeps its type, for any number of jobs, routes, retries  *)
(* and faults; in particular no dispatcher makes more than MaxRetries + 1  *)
(* attempts.                                                               *)
THEOREM TypeCorrect == Spec => []TypeOK
<1>1. TypeInv => TypeOK
  BY DEF TypeInv
<1> QED
  BY <1>1, TypeInvInit, TypeInvStep, PTL DEF Spec

-----------------------------------------------------------------------------
(* What a step can do to the tables. *)

DbEffect ==
  \/ UNCHANGED <<status, expected, completed, results, answer, notified>>
  \/ \E j \in Jobs, R \in SUBSET Routes :
       /\ status[j] = "none" /\ R # {} /\ request'[j] = "retrieve"
       /\ InsertPipelineJob(j, R)
  \/ \E j \in Jobs, r \in Routes, row \in {"facts", "fallback"} :
       r \in expected[j] /\ InsertCalcResult(j, r, row)
  \/ \E j \in Jobs :
       /\ status[j] = "ready" /\ Filled(rows) = expected[j]
       /\ j = cur /\ listener = "write" /\ listener' = "trace"
       /\ WriteFinalAnswer(j, rows)

LEMMA StepHasDbEffect ==
  ASSUME IInv, [Next]_vars
  PROVE  DbEffect
<1> DEFINE Quiet == UNCHANGED <<status, expected, completed, results, answer, notified>>
<1>0. TypeOK /\ ListenerBusy /\ OriginInv /\ ListenerInv
  BY DEF IInv, TypeInv
<1>1. ASSUME NEW j \in Jobs, ApiHandles(j) PROVE DbEffect
  <2>1. ASSUME NEW R \in SUBSET Routes, CreateJob(j, R) PROVE DbEffect
    BY <1>0, <2>1 DEF CreateJob, OriginInv, RequestOrigin, DbEffect, TypeOK, ApiTypeOK
  <2>2. CASE SubmitFails(j)
    BY <2>2 DEF SubmitFails, Fault, jobRows, channel, DbEffect
  <2>3. CASE RejectQuery(j) \/ RetrieveChunks(j) \/ AcceptQuery(j) \/ PollStep(j)
    BY <2>3 DEF RejectQuery, RetrieveChunks, AcceptQuery, PollStep, PollJob, PollAnswer,
       dbVars, jobRows, channel, DbEffect
  <2> QED
    BY <1>1, <2>1, <2>2, <2>3 DEF ApiHandles, SubmitStep
<1>2. ASSUME NEW j \in Jobs, NEW r \in Routes, ApiStarts(j, r) PROVE DbEffect
  BY <1>2 DEF ApiStarts, StartDispatcher, dbVars, jobRows, channel, DbEffect
<1>3. ASSUME NEW j \in Jobs, NEW r \in Routes, Dispatches(j, r) PROVE DbEffect
  <2>1. CASE RecordFailure(j, r)
    BY <1>0, <2>1 DEF RecordFailure, OriginInv, DispatchOrigin, DbEffect
  <2>2. CASE RecordingFails(j, r)
    BY <2>2 DEF RecordingFails, Fault, jobRows, channel, DbEffect
  <2>3. CASE DispatcherStep(j, r) /\ ~ RecordFailure(j, r)
    BY <2>3 DEF DispatcherStep, SkipRoute, CheckHealth, FailFast, SubmitPost, PostSucceeds,
       PostFails, AttemptTimeout, TraceFailure, LeaveExecutor, dbVars, jobRows, channel, DbEffect
  <2> QED
    BY <1>3, <2>1, <2>2, <2>3 DEF Dispatches
<1>4. ASSUME NEW j \in Jobs, NEW r \in Routes, Calculates(j, r) PROVE DbEffect
  <2>1. ASSUME NEW a \in Attempts, CalcInserts(j, r, a) PROVE DbEffect
    BY <1>0, <2>1 DEF CalcInserts, OriginInv, DispatchOrigin, DbEffect
  <2>2. ASSUME NEW a \in Attempts, CalcTraceFails(j, r, a) PROVE DbEffect
    BY <2>2 DEF CalcTraceFails, Fault, jobRows, channel, DbEffect
  <2>3. ASSUME NEW a \in Attempts,
               CalcReceives(j, r, a) \/ CalcReplies(j, r, a) \/ CalcFails(j, r, a)
        PROVE  DbEffect
    BY <2>3 DEF CalcReceives, CalcReplies, CalcFails, dbVars, jobRows, channel, DbEffect
  <2>4. CASE SendPost(j, r) \/ WorkerDone(j, r)
    BY <2>4 DEF SendPost, WorkerDone, dbVars, jobRows, channel, DbEffect
  <2> QED
    BY <1>4, <2>1, <2>2, <2>3, <2>4 DEF Calculates, CalcStep
<1>5. ASSUME NEW r \in Routes, CalcServiceCrash(r) PROVE DbEffect
  BY <1>5 DEF CalcServiceCrash, CalcCrash, Fault, jobRows, channel, DbEffect
<1>6. CASE ApiCrash
  BY <1>6 DEF ApiCrash, Fault, jobRows, channel, DbEffect
<1>7. CASE Assembles
  <2>1. CASE WriteAnswer
    <3>1. cur \in Jobs
      BY <1>0, <2>1 DEF WriteAnswer, TypeOK, AsmTypeOK, ListenerBusy, Working
    <3> QED
      BY <1>0, <2>1, <3>1 DEF WriteAnswer, ListenerInv, DbEffect
  <2>2. CASE Listen \/ TakeNotification \/ FetchResults \/ TraceAssembly
    BY <2>2 DEF Listen, TakeNotification, FetchResults, TraceAssembly, dbVars, jobRows,
       channel, DbEffect
  <2>3. CASE ListenerFails \/ AssemblerRestart
    BY <2>3 DEF ListenerFails, AssemblerRestart, Fault, StopListening, jobRows, DbEffect
  <2> QED
    BY <1>7, <2>1, <2>2, <2>3 DEF Assembles, AsmStep
<1>8. CASE UNCHANGED vars
  BY <1>8 DEF vars, dbVars, jobRows, channel, DbEffect
<1> QED
  BY <1>1, <1>2, <1>3, <1>4, <1>5, <1>6, <1>7, <1>8 DEF Next

(* The effect of insert_calc_result on the row of its job. *)
LEMMA InsertCalcResultEffect ==
  ASSUME TypeOK, StoreInv, NEW j \in Jobs, NEW r \in expected[j],
         NEW row \in {"facts", "fallback"}, InsertCalcResult(j, r, row)
  PROVE  /\ results' = [results EXCEPT ![j][r] = row]
         /\ UNCHANGED <<expected, answer>>
         /\ JobStore(j)'
         /\ \A k \in Jobs \ {j} : UNCHANGED <<status[k], completed[k], notified[k]>>
<1>0. /\ j \in Jobs /\ r \in Routes /\ JobStore(j)
      /\ results \in [Jobs -> [Routes -> Rows]]
      /\ completed \in [Jobs -> SUBSET Routes]
      /\ status \in [Jobs -> Statuses]
      /\ notified \in [Jobs -> Nat]
      /\ expected \in [Jobs -> SUBSET Routes]
  BY DEF TypeOK, DbTypeOK, StoreInv
<1>1. results' = [results EXCEPT ![j][r] = row] /\ UNCHANGED <<expected, answer>>
  BY DEF InsertCalcResult, InsertResult, OverwriteResult, jobRows
<1>2. Filled(results'[j]) = Filled(results[j]) \union {r}
  BY <1>0, <1>1 DEF Filled
<1>3. CASE OverwriteResult(j, r, row)
  <2>1. UNCHANGED <<status, completed, notified>>
    BY <1>3 DEF OverwriteResult, jobRows, channel
  <2>2. r \in Filled(results[j])
    BY <1>0, <1>3 DEF OverwriteResult, Filled
  <2> QED
    BY <1>0, <1>1, <1>2, <2>1, <2>2 DEF JobStore
<1>4. CASE InsertResult(j, r, row)
  <2>1. r \notin completed[j]
    BY <1>0, <1>4 DEF InsertResult, JobStore, Filled
  <2>2. status[j] = "pending"
    BY <1>0, <2>1 DEF JobStore, Statuses
  <2>3. completed' = [completed EXCEPT ![j] = completed[j] \union {r}]
    BY <1>4 DEF InsertResult, AfterCalcResult
  <2>4. CASE expected[j] \subseteq completed[j] \union {r}
    <3>1. /\ status' = [status EXCEPT ![j] = "ready"]
          /\ notified' = [notified EXCEPT ![j] = notified[j] + 1]
      BY <1>4, <2>2, <2>4 DEF InsertResult, AfterCalcResult, PgNotify
    <3>2. /\ status'[j] = "ready" /\ notified[j] = 0 /\ notified'[j] = 1
          /\ completed'[j] = completed[j] \union {r}
          /\ expected'[j] = expected[j] /\ answer'[j] = answer[j]
      BY <1>0, <1>1, <2>2, <2>3, <3>1 DEF JobStore
    <3>3. JobStore(j)'
      BY <1>0, <1>2, <2>2, <2>4, <3>2 DEF JobStore
    <3> QED
      BY <1>0, <1>1, <2>3, <3>1, <3>3
  <2>5. CASE ~ (expected[j] \subseteq completed[j] \union {r})
    <3>1. UNCHANGED <<status, notified>>
      BY <1>4, <2>5 DEF InsertResult, AfterCalcResult, channel
    <3> QED
      BY <1>0, <1>1, <1>2, <2>2, <2>3, <2>5, <3>1 DEF JobStore
  <2> QED
    BY <2>4, <2>5
<1> QED
  BY <1>3, <1>4 DEF InsertCalcResult

LEMMA StoreStep ==
  ASSUME IInv, [Next]_vars
  PROVE  StoreInv'
<1>0. TypeOK /\ StoreInv /\ DbEffect
  BY StepHasDbEffect DEF IInv, TypeInv
<1>1. CASE UNCHANGED <<status, expected, completed, results, answer, notified>>
  BY <1>0, <1>1 DEF StoreInv, JobStore
<1>2. ASSUME NEW j \in Jobs, NEW R \in SUBSET Routes,
             status[j] = "none", R # {}, InsertPipelineJob(j, R)
      PROVE  StoreInv'
  <2>1. /\ status' = [status EXCEPT ![j] = "pending"]
        /\ expected' = [expected EXCEPT ![j] = R]
        /\ UNCHANGED <<completed, results, answer, notified>>
    BY <1>2 DEF InsertPipelineJob, channel
  <2>2. JobStore(j) /\ completed[j] = {}
    BY <1>0, <1>2 DEF StoreInv, JobStore
  <2>3. JobStore(j)'
    BY <1>0, <1>2, <2>1, <2>2 DEF JobStore, TypeOK, DbTypeOK
  <2>4. \A k \in Jobs \ {j} : JobStore(k)'
    BY <1>0, <2>1 DEF StoreInv, JobStore, TypeOK, DbTypeOK
  <2> QED
    BY <2>3, <2>4 DEF StoreInv
<1>3. ASSUME NEW j \in Jobs, NEW r \in Routes, NEW row \in {"facts", "fallback"},
             r \in expected[j], InsertCalcResult(j, r, row)
      PROVE  StoreInv'
  <2>1. /\ results' = [results EXCEPT ![j][r] = row]
        /\ UNCHANGED <<expected, answer>>
        /\ JobStore(j)'
        /\ \A k \in Jobs \ {j} : UNCHANGED <<status[k], completed[k], notified[k]>>
    BY <1>0, <1>3, InsertCalcResultEffect
  <2>2. \A k \in Jobs \ {j} : results'[k] = results[k]
    BY <1>0, <2>1 DEF TypeOK, DbTypeOK
  <2>3. \A k \in Jobs \ {j} : JobStore(k)'
    BY <1>0, <2>1, <2>2 DEF StoreInv, JobStore
  <2> QED
    BY <2>1, <2>3 DEF StoreInv
<1>4. ASSUME NEW j \in Jobs, status[j] = "ready", Filled(rows) = expected[j],
             WriteFinalAnswer(j, rows)
      PROVE  StoreInv'
  <2>1. /\ answer' = [answer EXCEPT ![j] = rows]
        /\ status' = [status EXCEPT ![j] = "assembled"]
        /\ UNCHANGED <<expected, completed, results, notified>>
    BY <1>4 DEF WriteFinalAnswer, channel
  <2>2. JobStore(j)'
    BY <1>0, <1>4, <2>1 DEF StoreInv, JobStore, TypeOK, DbTypeOK
  <2>3. \A k \in Jobs \ {j} : JobStore(k)'
    BY <1>0, <2>1 DEF StoreInv, JobStore, TypeOK, DbTypeOK
  <2> QED
    BY <2>2, <2>3 DEF StoreInv
<1> QED
  BY <1>0, <1>1, <1>2, <1>3, <1>4 DEF DbEffect

(* Rows are never removed and nothing becomes less complete. *)
LEMMA TablesGrow ==
  ASSUME IInv, [Next]_vars, NEW j \in Jobs
  PROVE  /\ expected[j] \subseteq expected'[j]
         /\ status[j] # "none" => status'[j] # "none" /\ expected'[j] = expected[j]
         /\ \A r \in Routes : results[j][r] # "none" => results'[j][r] # "none"
<1>0. TypeOK /\ StoreInv /\ DbEffect
  BY StepHasDbEffect DEF IInv, TypeInv
<1>1. CASE UNCHANGED <<status, expected, completed, results, answer, notified>>
  BY <1>1
<1>2. ASSUME NEW i \in Jobs, NEW R \in SUBSET Routes,
             status[i] = "none", R # {}, InsertPipelineJob(i, R)
      PROVE  /\ expected[j] \subseteq expected'[j]
             /\ status[j] # "none" => status'[j] # "none" /\ expected'[j] = expected[j]
             /\ \A r \in Routes : results[j][r] # "none" => results'[j][r] # "none"
  BY <1>0, <1>2 DEF InsertPipelineJob, StoreInv, JobStore, TypeOK, DbTypeOK
<1>3. ASSUME NEW i \in Jobs, NEW q \in Routes, NEW row \in {"facts", "fallback"},
             q \in expected[i], InsertCalcResult(i, q, row)
      PROVE  /\ expected[j] \subseteq expected'[j]
             /\ status[j] # "none" => status'[j] # "none" /\ expected'[j] = expected[j]
             /\ \A r \in Routes : results[j][r] # "none" => results'[j][r] # "none"
  <2>1. /\ results' = [results EXCEPT ![i][q] = row]
        /\ UNCHANGED expected
        /\ JobStore(i)'
        /\ \A k \in Jobs \ {i} : status'[k] = status[k]
    BY <1>0, <1>3, InsertCalcResultEffect
  <2> QED
    BY <1>0, <1>3, <2>1 DEF JobStore, TypeOK, DbTypeOK
<1>4. ASSUME NEW i \in Jobs, status[i] = "ready", Filled(rows) = expected[i],
             WriteFinalAnswer(i, rows)
      PROVE  /\ expected[j] \subseteq expected'[j]
             /\ status[j] # "none" => status'[j] # "none" /\ expected'[j] = expected[j]
             /\ \A r \in Routes : results[j][r] # "none" => results'[j][r] # "none"
  BY <1>0, <1>4 DEF WriteFinalAnswer, TypeOK, DbTypeOK
<1> QED
  BY <1>0, <1>1, <1>2, <1>3, <1>4 DEF DbEffect

-----------------------------------------------------------------------------
(* Submissions, dispatchers and handlers exist for jobs that expect them. *)

LEMMA RequestSteps ==
  ASSUME IInv, [Next]_vars, NEW j \in Jobs
  PROVE  /\ request'[j] = "new" => request[j] = "new"
         /\ request'[j] \in Running => request[j] \in Running \/ status'[j] # "none"
<1> DEFINE Goal == /\ request'[j] = "new" => request[j] = "new"
                   /\ request'[j] \in Running => request[j] \in Running \/ status'[j] # "none"
<1>0. TypeOK
  BY DEF IInv, TypeInv
<1>1. ASSUME NEW i \in Jobs, ApiHandles(i) PROVE Goal
  <2>1. ASSUME NEW R \in SUBSET Routes, CreateJob(i, R) PROVE Goal
    BY <1>0, <2>1 DEF CreateJob, InsertPipelineJob, TypeOK, ApiTypeOK, DbTypeOK
  <2>2. CASE RejectQuery(i) \/ RetrieveChunks(i) \/ AcceptQuery(i) \/ SubmitFails(i)
    BY <1>0, <2>2 DEF RejectQuery, RetrieveChunks, AcceptQuery, SubmitFails, Running,
       TypeOK, ApiTypeOK
  <2>3. CASE PollStep(i)
    BY <2>3 DEF PollStep, PollJob, PollAnswer
  <2> QED
    BY <1>1, <2>1, <2>2, <2>3 DEF ApiHandles, SubmitStep
<1>2. ASSUME NEW i \in Jobs, NEW r \in Routes, ApiStarts(i, r) PROVE Goal
  BY <1>0, <1>2 DEF ApiStarts, StartDispatcher, Running, TypeOK, ApiTypeOK
<1>3. CASE ApiCrash
  BY <1>3 DEF ApiCrash, ApiLosesRequests, Running
<1>4. CASE UNCHANGED apiVars
  BY <1>4 DEF apiVars
<1> QED
  BY <1>1, <1>2, <1>3, <1>4 DEF Next, vars, Dispatches, Calculates, CalcServiceCrash, Assembles

LEMMA RequestOriginStep ==
  ASSUME IInv, [Next]_vars, NEW j \in Jobs
  PROVE  /\ request'[j] = "new" => status'[j] = "none"
         /\ request'[j] \in Running => status'[j] # "none"
<1>0. TypeOK /\ StoreInv /\ OriginInv /\ DbEffect
  BY StepHasDbEffect DEF IInv, TypeInv
<1>1. request'[j] \in Running => status'[j] # "none"
  BY <1>0, RequestSteps, TablesGrow DEF OriginInv, RequestOrigin
<1>2. ASSUME request'[j] = "new" PROVE status'[j] = "none"
  <2>1. status[j] = "none" /\ expected[j] = {}
    BY <1>0, <1>2, RequestSteps DEF OriginInv, RequestOrigin, StoreInv, JobStore
  <2>2. ASSUME NEW i \in Jobs, NEW R \in SUBSET Routes,
               request'[i] = "retrieve", InsertPipelineJob(i, R)
        PROVE  status'[j] = "none"
    BY <1>0, <1>2, <2>1, <2>2 DEF InsertPipelineJob, TypeOK, DbTypeOK
  <2>3. ASSUME NEW i \in Jobs, NEW r \in Routes, NEW row \in {"facts", "fallback"},
               r \in expected[i], InsertCalcResult(i, r, row)
        PROVE  status'[j] = "none"
    BY <1>0, <2>1, <2>3, InsertCalcResultEffect
  <2>4. ASSUME NEW i \in Jobs, status[i] = "ready", WriteFinalAnswer(i, rows)
        PROVE  status'[j] = "none"
    BY <1>0, <2>1, <2>4 DEF WriteFinalAnswer, TypeOK, DbTypeOK
  <2> QED
    BY <1>0, <2>1, <2>2, <2>3, <2>4 DEF DbEffect
<1> QED
  BY <1>1, <1>2

(* Dispatchers start for expected routes only, calls with a dispatcher. *)
LEMMA DispatchSteps ==
  ASSUME IInv, [Next]_vars, NEW j \in Jobs, NEW r \in Routes
  PROVE  /\ disp'[j][r] # "none" => r \in expected[j]
         /\ \A a \in Attempts : call'[j][r][a] # "none" => r \in expected[j]
<1> DEFINE Goal == /\ disp'[j][r] # "none" => r \in expected[j]
                   /\ \A a \in Attempts : call'[j][r][a] # "none" => r \in expected[j]
<1>0. /\ disp \in [Jobs -> [Routes -> Dispatching \union Finished \union {"none"}]]
      /\ attempt \in [Jobs -> [Routes -> Attempts]]
      /\ call \in [Jobs -> [Routes -> [Attempts -> Calls]]]
  BY DEF IInv, TypeInv, TypeOK, DispatchTypeOK
<1>1. \A i \in Jobs, q \in Routes :
        /\ disp[i][q] # "none" => q \in expected[i]
        /\ \A a \in Attempts : call[i][q][a] # "none" => q \in expected[i]
  BY DEF IInv, OriginInv, DispatchOrigin
<1>2. ASSUME NEW i \in Jobs, NEW q \in Routes, ApiStarts(i, q) PROVE Goal
  BY <1>0, <1>1, <1>2 DEF ApiStarts, StartDispatcher, Begin
<1>3. ASSUME NEW i \in Jobs, NEW q \in Routes, Dispatches(i, q) PROVE Goal
  <2>1. /\ disp[i][q] # "none"
        /\ \E next : disp' = [disp EXCEPT ![i][q] = next]
        /\ \/ call' = call
           \/ \E a \in Attempts, c \in {"queued", "cancelled"} : call' = [call EXCEPT ![i][q][a] = c]
    <3>1. CASE SkipRoute(i, q) \/ CheckHealth(i, q) \/ FailFast(i, q) \/ PostSucceeds(i, q)
               \/ RecordFailure(i, q) \/ TraceFailure(i, q) \/ RecordingFails(i, q)
      BY <3>1 DEF SkipRoute, CheckHealth, FailFast, PostSucceeds, RecordFailure,
         TraceFailure, RecordingFails
    <3>0. CASE LeaveExecutor(i, q)
      <4>1. /\ disp[i][q] # "none" /\ UNCHANGED call
            /\ disp' = [disp EXCEPT ![i][q] = IF @ = "leaving" THEN "recorded" ELSE "killed"]
        BY <3>0 DEF LeaveExecutor, Leaving
      <4>2. \E next : disp' = [disp EXCEPT ![i][q] = next]
        BY <4>1
      <4> QED
        BY <4>1, <4>2
    <3>a. attempt[i][q] \in Attempts
      BY <1>0
    <3>2. CASE SubmitPost(i, q)
      BY <3>a, <3>2 DEF SubmitPost
    <3>3. CASE PostFails(i, q)
      BY <3>3 DEF PostFails, NextAttempt
    <3>4. CASE AttemptTimeout(i, q)
      BY <3>a, <3>4 DEF AttemptTimeout, NextAttempt
    <3> QED
      BY <1>3, <3>0, <3>1, <3>2, <3>3, <3>4 DEF Dispatches, DispatcherStep
  <2> QED
    BY <1>0, <1>1, <2>1
<1>4. ASSUME NEW i \in Jobs, NEW q \in Routes, Calculates(i, q) PROVE Goal
  <2>1. /\ disp' = disp
        /\ \/ call' = call
           \/ \E a \in Attempts, c \in Calls : /\ call[i][q][a] # "none"
                                                  /\ call' = [call EXCEPT ![i][q][a] = c]
    BY <1>4 DEF Calculates, CalcStep, SendPost, WorkerDone, CalcReceives, CalcInserts,
       CalcReplies, CalcFails, CalcTraceFails, Calls, InCalc
  <2>2. ASSUME NEW a \in Attempts, NEW c \in Calls, disp' = disp,
               call[i][q][a] # "none", call' = [call EXCEPT ![i][q][a] = c]
        PROVE  Goal
    <3>1. \A b \in Attempts : call'[j][r][b] = call[j][r][b] \/ (i = j /\ q = r)
      BY <1>0, <2>2
    <3> QED
      BY <1>1, <2>2, <3>1
  <2> QED
    BY <1>1, <2>1, <2>2
<1>5. ASSUME NEW q \in Routes, CalcServiceCrash(q) PROVE Goal
  <2>1. disp' = disp
    BY <1>5 DEF CalcServiceCrash, CalcCrash
  <2>2. \A a \in Attempts : call[j][r][a] = "none" => call'[j][r][a] = "none"
    BY <1>0, <1>5 DEF CalcServiceCrash, CalcCrash, InCalc
  <2> QED
    BY <1>1, <2>1, <2>2
<1>6. CASE ApiCrash
  BY <1>1, <1>6 DEF ApiCrash, DispatchersDie, Dispatching, Leaving
<1>7. CASE UNCHANGED dispatchVars
  BY <1>1, <1>7 DEF dispatchVars
<1> QED
  BY <1>2, <1>3, <1>4, <1>5, <1>6, <1>7 DEF Next, vars, ApiHandles, Assembles

LEMMA OriginStep ==
  ASSUME IInv, [Next]_vars
  PROVE  OriginInv'
<1>1. ASSUME NEW j \in Jobs PROVE RequestOrigin(j)'
  BY RequestOriginStep DEF RequestOrigin
<1>2. ASSUME NEW j \in Jobs, NEW r \in Routes PROVE DispatchOrigin(j, r)'
  BY DispatchSteps, TablesGrow DEF DispatchOrigin
<1> QED
  BY <1>1, <1>2 DEF OriginInv

-----------------------------------------------------------------------------
(* What dispatchers and handlers leave in calc_results. *)

LEMMA DispatchesOutcome ==
  ASSUME IInv, NEW j \in Jobs, NEW r \in Routes, NEW i \in Jobs, NEW q \in Routes,
         Dispatches(i, q)
  PROVE  RouteOutcome(j, r)'
<1>0. /\ disp \in [Jobs -> [Routes -> Dispatching \union Finished \union {"none"}]]
      /\ attempt \in [Jobs -> [Routes -> Attempts]]
      /\ call \in [Jobs -> [Routes -> [Attempts -> Calls]]]
      /\ results \in [Jobs -> [Routes -> Rows]]
      /\ RouteOutcome(j, r) /\ RouteOutcome(i, q)
  BY DEF IInv, TypeInv, TypeOK, DispatchTypeOK, DbTypeOK, OutcomeInv
<1>1. CASE \/ SkipRoute(i, q) \/ CheckHealth(i, q) \/ FailFast(i, q)
           \/ TraceFailure(i, q) \/ LeaveExecutor(i, q)
  <2>1. \/ /\ disp[i][q] \in {"health", "attempt"}
           /\ \E next \in {"silent", "attempt", "record"} :
                disp' = [disp EXCEPT ![i][q] = next]
        \/ disp[i][q] = "trace" /\ disp' = [disp EXCEPT ![i][q] = "leaving"]
        \/ disp[i][q] = "leaving" /\ disp' = [disp EXCEPT ![i][q] = "recorded"]
        \/ disp[i][q] = "raising" /\ disp' = [disp EXCEPT ![i][q] = "killed"]
    BY <1>1 DEF SkipRoute, CheckHealth, FailFast, TraceFailure, LeaveExecutor, Leaving
  <2>2. UNCHANGED <<call, results>>
    BY <1>1 DEF SkipRoute, CheckHealth, FailFast, TraceFailure, LeaveExecutor, dbVars
  <2>3. ASSUME disp[i][q] \in {"health", "attempt"}, NEW next \in {"silent", "attempt", "record"},
               disp' = [disp EXCEPT ![i][q] = next]
        PROVE  RouteOutcome(j, r)'
    BY <1>0, <2>2, <2>3 DEF RouteOutcome, Leaving
  <2>4. CASE disp[i][q] = "trace" /\ disp' = [disp EXCEPT ![i][q] = "leaving"]
    BY <1>0, <2>2, <2>4 DEF RouteOutcome, Leaving
  <2>5. CASE disp[i][q] = "leaving" /\ disp' = [disp EXCEPT ![i][q] = "recorded"]
    BY <1>0, <2>2, <2>5 DEF RouteOutcome, Leaving
  <2>6. CASE disp[i][q] = "raising" /\ disp' = [disp EXCEPT ![i][q] = "killed"]
    BY <1>0, <2>2, <2>6 DEF RouteOutcome, Leaving
  <2> QED
    BY <2>1, <2>3, <2>4, <2>5, <2>6
<1>2. CASE SubmitPost(i, q)
  <2>1. /\ disp[i][q] = "attempt" /\ disp' = [disp EXCEPT ![i][q] = "wait"]
        /\ call' = [call EXCEPT ![i][q][attempt[i][q]] = "queued"]
        /\ attempt[i][q] \in Attempts
        /\ UNCHANGED results
    BY <1>0, <1>2 DEF SubmitPost, dbVars
  <2>2. \A a \in Attempts : call'[j][r][a] \in {"inserted", "ok"} => call'[j][r][a] = call[j][r][a]
    BY <1>0, <2>1
  <2> QED
    BY <1>0, <2>1, <2>2 DEF RouteOutcome, Leaving
<1>3. CASE PostSucceeds(i, q)
  <2>1. results[i][q] = "facts"
    BY <1>0, <1>3 DEF PostSucceeds, RouteOutcome, Leaving, Rows
  <2>2. disp' = [disp EXCEPT ![i][q] = "ok"] /\ UNCHANGED <<call, results>>
    BY <1>3 DEF PostSucceeds, dbVars
  <2> QED
    BY <1>0, <2>1, <2>2 DEF RouteOutcome, Leaving
<1>4. CASE PostFails(i, q) \/ AttemptTimeout(i, q)
  <2>1. /\ disp[i][q] = "wait"
        /\ \E next \in {"attempt", "record"} : disp' = [disp EXCEPT ![i][q] = next]
        /\ UNCHANGED results
        /\ call' = call \/ call' = [call EXCEPT ![i][q][attempt[i][q]] = "cancelled"]
    BY <1>4 DEF PostFails, AttemptTimeout, NextAttempt, dbVars
  <2>2. \A a \in Attempts : call'[j][r][a] \in {"inserted", "ok"} => call'[j][r][a] = call[j][r][a]
    <3>1. CASE call' = call
      BY <3>1
    <3>2. CASE call' = [call EXCEPT ![i][q][attempt[i][q]] = "cancelled"]
      BY <1>0, <3>2
    <3> QED
      BY <2>1, <3>1, <3>2
  <2> QED
    BY <1>0, <2>1, <2>2 DEF RouteOutcome, Leaving
<1>5. CASE RecordFailure(i, q)
  <2>1. /\ results' = [results EXCEPT ![i][q] = "fallback"]
        /\ disp[i][q] = "record" /\ disp' = [disp EXCEPT ![i][q] = "trace"]
        /\ call' = call
    BY <1>5 DEF RecordFailure, InsertCalcResult, InsertResult, OverwriteResult
  <2> QED
    BY <1>0, <2>1 DEF RouteOutcome, Leaving
<1>6. CASE RecordingFails(i, q)
  <2>1. /\ disp[i][q] \in {"record", "trace"} /\ disp' = [disp EXCEPT ![i][q] = "raising"]
        /\ UNCHANGED <<call, results>>
    BY <1>6 DEF RecordingFails, Fault
  <2> QED
    BY <1>0, <2>1 DEF RouteOutcome, Leaving
<1> QED
  BY <1>1, <1>2, <1>3, <1>4, <1>5, <1>6 DEF Dispatches, DispatcherStep

LEMMA CalculatesOutcome ==
  ASSUME IInv, NEW j \in Jobs, NEW r \in Routes, NEW i \in Jobs, NEW q \in Routes,
         Calculates(i, q)
  PROVE  RouteOutcome(j, r)'
<1>0. /\ call \in [Jobs -> [Routes -> [Attempts -> Calls]]]
      /\ results \in [Jobs -> [Routes -> Rows]]
      /\ RouteOutcome(j, r) /\ RouteOutcome(i, q)
      /\ disp' = disp
  BY DEF IInv, TypeInv, TypeOK, DispatchTypeOK, DbTypeOK, OutcomeInv, Calculates, CalcStep,
     SendPost, WorkerDone, CalcReceives, CalcInserts, CalcReplies, CalcFails, CalcTraceFails
<1>1. CASE WorkerDone(i, q)
  BY <1>0, <1>1 DEF WorkerDone, dbVars, RouteOutcome, Leaving
<1>2. ASSUME NEW a \in Attempts, NEW c \in {"sent", "running", "failed"},
             call' = [call EXCEPT ![i][q][a] = c], UNCHANGED results
      PROVE  RouteOutcome(j, r)'
  <2>1. \A b \in Attempts : call'[j][r][b] \in {"inserted", "ok"} => call'[j][r][b] = call[j][r][b]
    BY <1>0, <1>2
  <2> QED
    BY <1>0, <1>2, <2>1 DEF RouteOutcome, Leaving
<1>3. ASSUME NEW a \in Attempts, CalcInserts(i, q, a) PROVE RouteOutcome(j, r)'
  <2>1. results' = [results EXCEPT ![i][q] = "facts"]
    BY <1>3 DEF CalcInserts, InsertCalcResult, InsertResult, OverwriteResult
  <2>2. call' = [call EXCEPT ![i][q][a] = "inserted"]
    BY <1>3 DEF CalcInserts
  <2>3. CASE j = i /\ r = q
    BY <1>0, <2>1, <2>3 DEF RouteOutcome, Leaving
  <2>4. CASE ~ (j = i /\ r = q)
    <3>1. results'[j][r] = results[j][r] /\ call'[j][r] = call[j][r]
      BY <1>0, <2>1, <2>2, <2>4
    <3> QED
      BY <1>0, <3>1 DEF RouteOutcome, Leaving
  <2> QED
    BY <2>3, <2>4
<1>4. ASSUME NEW a \in Attempts, CalcReplies(i, q, a) PROVE RouteOutcome(j, r)'
  <2>1. /\ call[i][q][a] = "inserted" /\ call' = [call EXCEPT ![i][q][a] = "ok"]
        /\ results' = results
    BY <1>4 DEF CalcReplies, dbVars
  <2>2. \A b \in Attempts : call'[j][r][b] \in {"inserted", "ok"} => call[j][r][b] \in {"inserted", "ok"}
    BY <1>0, <2>1
  <2> QED
    BY <1>0, <2>1, <2>2 DEF RouteOutcome, Leaving
<1>5. \/ WorkerDone(i, q)
      \/ \E a \in Attempts : CalcInserts(i, q, a) \/ CalcReplies(i, q, a)
      \/ \E a \in Attempts, c \in {"sent", "running", "failed"} :
           call' = [call EXCEPT ![i][q][a] = c] /\ UNCHANGED results
  BY DEF Calculates, CalcStep, SendPost, CalcReceives, CalcFails, CalcTraceFails, Fault, dbVars
<1> QED
  BY <1>1, <1>2, <1>3, <1>4, <1>5

LEMMA OutcomeStep ==
  ASSUME IInv, [Next]_vars, NEW j \in Jobs, NEW r \in Routes
  PROVE  RouteOutcome(j, r)'
<1>0. /\ call \in [Jobs -> [Routes -> [Attempts -> Calls]]]
      /\ disp \in [Jobs -> [Routes -> Dispatching \union Finished \union {"none"}]]
      /\ RouteOutcome(j, r)
  BY DEF IInv, TypeInv, TypeOK, DispatchTypeOK, OutcomeInv
<1>1. ASSUME NEW i \in Jobs, ApiHandles(i) PROVE RouteOutcome(j, r)'
  <2>1. results' = results
    BY <1>1 DEF ApiHandles, SubmitStep, RejectQuery, CreateJob, InsertPipelineJob, RetrieveChunks,
       AcceptQuery, SubmitFails, Fault, PollStep, PollJob, PollAnswer, dbVars
  <2> QED
    BY <1>0, <1>1, <2>1 DEF ApiHandles, dispatchVars, RouteOutcome, Leaving
<1>2. ASSUME NEW i \in Jobs, NEW q \in Routes, ApiStarts(i, q) PROVE RouteOutcome(j, r)'
  BY <1>0, <1>2 DEF ApiStarts, StartDispatcher, Begin, dbVars, RouteOutcome, Leaving
<1>3. ASSUME NEW q \in Routes, CalcServiceCrash(q) PROVE RouteOutcome(j, r)'
  <2>1. UNCHANGED <<disp, results>>
    BY <1>3 DEF CalcServiceCrash, CalcCrash, Fault
  <2>2. \A a \in Attempts : call'[j][r][a] \in {"inserted", "ok"} => call'[j][r][a] = call[j][r][a]
    BY <1>0, <1>3 DEF CalcServiceCrash, CalcCrash, InCalc
  <2> QED
    BY <1>0, <2>1, <2>2 DEF RouteOutcome, Leaving
<1>4. CASE ApiCrash
  <2>1. results' = results
    BY <1>4 DEF ApiCrash, Fault
  <2>2. \A a \in Attempts : call'[j][r][a] \in {"inserted", "ok"} => call'[j][r][a] = call[j][r][a]
    BY <1>4 DEF ApiCrash, DispatchersDie
  <2>3. disp'[j][r] = disp[j][r] \/ (disp[j][r] \in Dispatching /\ disp'[j][r] = "killed")
    BY <1>4 DEF ApiCrash, DispatchersDie
  <2> QED
    BY <1>0, <2>1, <2>2, <2>3 DEF RouteOutcome, Leaving
<1>5. CASE Assembles
  <2>1. results' = results
    BY <1>5 DEF Assembles, AsmStep, Listen, TakeNotification, FetchResults, WriteAnswer,
       WriteFinalAnswer, TraceAssembly, ListenerFails, AssemblerRestart, Fault, dbVars
  <2> QED
    BY <1>0, <1>5, <2>1 DEF Assembles, dispatchVars, RouteOutcome, Leaving
<1>6. CASE UNCHANGED vars
  BY <1>0, <1>6 DEF vars, dbVars, dispatchVars, RouteOutcome, Leaving
<1> QED
  BY <1>1, <1>2, <1>3, <1>4, <1>5, <1>6, DispatchesOutcome, CalculatesOutcome DEF Next

-----------------------------------------------------------------------------
(* How a status, an answer and the channel can change in one step. *)

LEMMA StatusSteps ==
  ASSUME IInv, [Next]_vars, NEW j \in Jobs
  PROVE  \/ status'[j] = status[j] /\ answer'[j] = answer[j]
         \/ status[j] = "none" /\ status'[j] = "pending" /\ answer'[j] = answer[j]
         \/ status[j] = "pending" /\ status'[j] = "ready" /\ answer'[j] = answer[j]
         \/ /\ status[j] = "ready" /\ status'[j] = "assembled"
            /\ j = cur /\ listener = "write" /\ listener' = "trace"
<1> DEFINE Goal ==
         \/ status'[j] = status[j] /\ answer'[j] = answer[j]
         \/ status[j] = "none" /\ status'[j] = "pending" /\ answer'[j] = answer[j]
         \/ status[j] = "pending" /\ status'[j] = "ready" /\ answer'[j] = answer[j]
         \/ /\ status[j] = "ready" /\ status'[j] = "assembled"
            /\ j = cur /\ listener = "write" /\ listener' = "trace"
<1>0. TypeOK /\ StoreInv /\ DbEffect
  BY StepHasDbEffect DEF IInv, TypeInv
<1>1. CASE UNCHANGED <<status, answer>>
  BY <1>1
<1>2. ASSUME NEW i \in Jobs, NEW R \in SUBSET Routes,
             status[i] = "none", InsertPipelineJob(i, R)
      PROVE  Goal
  BY <1>0, <1>2 DEF InsertPipelineJob, TypeOK, DbTypeOK
<1>3. ASSUME NEW i \in Jobs, NEW q \in Routes, NEW row \in {"facts", "fallback"},
             InsertCalcResult(i, q, row)
      PROVE  Goal
  BY <1>0, <1>3 DEF InsertCalcResult, InsertResult, OverwriteResult, AfterCalcResult, jobRows,
     TypeOK, DbTypeOK
<1>4. ASSUME NEW i \in Jobs, status[i] = "ready", i = cur, listener = "write",
             listener' = "trace", WriteFinalAnswer(i, rows)
      PROVE  Goal
  BY <1>0, <1>4 DEF WriteFinalAnswer, TypeOK, DbTypeOK
<1> QED
  BY <1>0, <1>1, <1>2, <1>3, <1>4 DEF DbEffect

(* Outside the assembler the channel is only ever appended to, when a job  *)
(* becomes ready.                                                          *)
LEMMA ChannelSteps ==
  ASSUME IInv, [Next]_vars, ~ Assembles
  PROVE  /\ UNCHANGED asmVars
         /\ UNCHANGED listening
         /\ \/ UNCHANGED inbox
            \/ \E j \in Jobs : /\ status[j] = "pending" /\ status'[j] = "ready"
                               /\ listening /\ inbox' = Append(inbox, j)
<1> DEFINE Goal ==
         /\ UNCHANGED asmVars
         /\ UNCHANGED listening
         /\ \/ UNCHANGED inbox
            \/ \E j \in Jobs : /\ status[j] = "pending" /\ status'[j] = "ready"
                               /\ listening /\ inbox' = Append(inbox, j)
<1>0. TypeOK /\ StoreInv /\ OriginInv
  BY DEF IInv, TypeInv
<1>1. ASSUME NEW j \in Jobs, NEW r \in Routes, NEW row \in Rows, r \in expected[j],
             InsertCalcResult(j, r, row), UNCHANGED asmVars
      PROVE  Goal
  <2>1. CASE OverwriteResult(j, r, row)
    BY <1>1, <2>1 DEF OverwriteResult, channel
  <2>2. CASE InsertResult(j, r, row)
    <3>1. status[j] = "pending"
      BY <1>0, <1>1, <2>2 DEF InsertResult, StoreInv, JobStore, Filled, TypeOK, DbTypeOK, Statuses
    <3>2. CASE UNCHANGED channel
      BY <1>1, <3>2 DEF channel
    <3>3. CASE PgNotify(j) /\ status' = [status EXCEPT ![j] = "ready"]
      <4>1. status'[j] = "ready"
        BY <1>0, <3>3 DEF TypeOK, DbTypeOK
      <4> QED
        BY <1>1, <3>1, <3>3, <4>1 DEF PgNotify
    <3> QED
      BY <2>2, <3>1, <3>2, <3>3 DEF InsertResult, AfterCalcResult
  <2> QED
    BY <1>1, <2>1, <2>2 DEF InsertCalcResult
<1>2. ASSUME NEW j \in Jobs, ApiHandles(j) PROVE Goal
  BY <1>2 DEF ApiHandles, SubmitStep, RejectQuery, CreateJob, InsertPipelineJob, RetrieveChunks,
     AcceptQuery, SubmitFails, PollStep, PollJob, PollAnswer, dbVars, channel
<1>3. ASSUME NEW j \in Jobs, NEW r \in Routes, ApiStarts(j, r) PROVE Goal
  BY <1>3 DEF ApiStarts, StartDispatcher, dbVars, channel
<1>4. ASSUME NEW j \in Jobs, NEW r \in Routes, Dispatches(j, r) PROVE Goal
  <2>1. CASE RecordFailure(j, r)
    <3>1. r \in expected[j]
      BY <1>0, <2>1 DEF RecordFailure, OriginInv, DispatchOrigin
    <3> QED
      BY <1>1, <1>4, <2>1, <3>1 DEF RecordFailure, Dispatches, Rows
  <2>2. CASE ~ RecordFailure(j, r)
    BY <1>4, <2>2 DEF Dispatches, DispatcherStep, SkipRoute, CheckHealth, FailFast, SubmitPost,
       PostSucceeds, PostFails, AttemptTimeout, TraceFailure, LeaveExecutor, RecordingFails, dbVars, channel
  <2> QED
    BY <2>1, <2>2
<1>5. ASSUME NEW j \in Jobs, NEW r \in Routes, Calculates(j, r) PROVE Goal
  <2>1. ASSUME NEW a \in Attempts, CalcInserts(j, r, a) PROVE Goal
    <3>1. r \in expected[j]
      BY <1>0, <2>1 DEF CalcInserts, OriginInv, DispatchOrigin
    <3> QED
      BY <1>1, <1>5, <2>1, <3>1 DEF CalcInserts, Calculates, Rows
  <2>2. CASE ~ \E a \in Attempts : CalcInserts(j, r, a)
    BY <1>5, <2>2 DEF Calculates, CalcStep, SendPost, WorkerDone, CalcReceives, CalcReplies,
       CalcFails, CalcTraceFails, dbVars, channel
  <2> QED
    BY <2>1, <2>2
<1>6. ASSUME NEW r \in Routes, CalcServiceCrash(r) PROVE Goal
  BY <1>6 DEF CalcServiceCrash, CalcCrash, channel
<1>7. CASE ApiCrash
  BY <1>7 DEF ApiCrash, channel
<1>8. CASE UNCHANGED vars
  BY <1>8 DEF vars, dbVars, channel
<1> QED
  BY <1>2, <1>3, <1>4, <1>5, <1>6, <1>7, <1>8 DEF Next

-----------------------------------------------------------------------------
(* The inbox and the listener. *)

LEMMA ListenerStep ==
  ASSUME IInv, [Next]_vars
  PROVE  ListenerInv'
<1>0. /\ TypeOK /\ ListenerBusy /\ StoreInv /\ InboxInv /\ ListenerInv
      /\ listener \in Working \union {"connect", "idle", "dead"}
      /\ cur \in Jobs \union {NoJob}
  BY DEF IInv, TypeInv, TypeOK, AsmTypeOK
<1>1. CASE ~ Assembles
  <2>1. UNCHANGED <<listener, cur, rows, listening>>
    BY <1>1, ChannelSteps DEF asmVars
  <2>2. ~ listening' => inbox' = <<>>
    BY <1>0, <1>1, <2>1, ChannelSteps DEF ListenerInv
  <2>3. ASSUME listener \in Working
        PROVE  /\ cur \in Jobs
               /\ status'[cur] = status[cur]
               /\ expected'[cur] = expected[cur]
    <3>1. cur \in Jobs
      BY <1>0, <2>3 DEF ListenerBusy
    <3>2. status[cur] \in {"ready", "assembled"}
      BY <1>0, <2>3 DEF ListenerInv, Working
    <3> QED
      BY <2>1, <3>1, <3>2, StatusSteps, TablesGrow
  <2> QED
    BY <1>0, <2>1, <2>2, <2>3 DEF ListenerInv, Working
<1>2. CASE Listen
  BY <1>0, <1>2 DEF Listen, ListenerInv, Working
<1>3. CASE TakeNotification
  <2>1. /\ listening' = listening /\ listening
        /\ cur' = Head(inbox) /\ listener' = "fetch" /\ status' = status
        /\ 1 \in 1..Len(inbox) /\ Head(inbox) = inbox[1]
    BY <1>0, <1>3 DEF TakeNotification, ListenerInv, TypeOK, DbTypeOK, jobRows
  <2>2. status[inbox[1]] = "ready"
    BY <1>0, <2>1 DEF InboxInv
  <2> QED
    BY <2>1, <2>2 DEF ListenerInv, Working
<1>4. CASE FetchResults
  <2>1. cur \in Jobs /\ status[cur] = "ready" /\ JobStore(cur)
    BY <1>0, <1>4 DEF FetchResults, ListenerBusy, ListenerInv, StoreInv, Working
  <2>2. /\ rows' = results[cur]
        /\ UNCHANGED <<status, expected, listening, inbox>>
        /\ listener' \in {"idle", "write"}
        /\ listener' = "write" => cur' = cur
    BY <1>4 DEF FetchResults, dbVars, jobRows, channel
  <2>3. Filled(results[cur]) = expected[cur]
    BY <2>1 DEF JobStore
  <2>4. listener = "fetch"
    BY <1>4 DEF FetchResults
  <2>5. listener' = "write" => Filled(rows') = expected'[cur'] /\ status'[cur'] = "ready"
    BY <2>1, <2>2, <2>3
  <2>6. (listening' <=> listener' \in Working \union {"idle"}) /\ (~ listening' => inbox' = <<>>)
    BY <1>0, <2>2, <2>4 DEF ListenerInv, Working
  <2>7. (listener = "write" => Filled(rows) = expected[cur])'
    BY <2>5 DEF Filled
  <2> QED
    BY <2>2, <2>5, <2>6, <2>7 DEF ListenerInv
<1>5. CASE WriteAnswer
  <2>1. cur \in Jobs
    BY <1>0, <1>5 DEF WriteAnswer, ListenerBusy, Working
  <2>2. /\ listener = "write" /\ listener' = "trace" /\ cur' = cur
        /\ status' = [status EXCEPT ![cur] = "assembled"]
        /\ UNCHANGED <<listening, inbox>>
    BY <1>5 DEF WriteAnswer, WriteFinalAnswer, channel
  <2> QED
    BY <1>0, <2>1, <2>2 DEF ListenerInv, Working, TypeOK, DbTypeOK
<1>6. CASE TraceAssembly
  BY <1>0, <1>6 DEF TraceAssembly, ListenerInv, Working, dbVars, channel
<1>7. CASE ListenerFails \/ AssemblerRestart
  BY <1>7 DEF ListenerFails, AssemblerRestart, StopListening, ListenerInv, Working
<1> QED
  BY <1>1, <1>2, <1>3, <1>4, <1>5, <1>6, <1>7 DEF Assembles, AsmStep

LEMMA InboxStep ==
  ASSUME IInv, [Next]_vars
  PROVE  InboxInv'
<1>0. /\ TypeOK /\ ListenerBusy /\ InboxInv /\ ListenerInv
      /\ inbox \in Seq(Jobs)
      /\ \A i \in 1..Len(inbox) : inbox[i] \in Jobs
  BY DEF IInv, TypeInv, TypeOK, DbTypeOK
<1>1. CASE ~ Assembles
  <2>1. cur' = cur
    BY <1>1, ChannelSteps DEF asmVars
  <2>2. \A i \in 1..Len(inbox) : status'[inbox[i]] = "ready"
    <3>1. SUFFICES ASSUME NEW i \in 1..Len(inbox) PROVE status'[inbox[i]] = "ready"
      OBVIOUS
    <3>2. inbox[i] \in Jobs /\ status[inbox[i]] = "ready" /\ inbox[i] # cur
      BY <1>0 DEF InboxInv
    <3> QED
      BY <3>2, StatusSteps
  <2>3. CASE UNCHANGED inbox
    BY <1>0, <2>1, <2>2, <2>3 DEF InboxInv
  <2>4. ASSUME NEW j \in Jobs, status[j] = "pending", status'[j] = "ready",
               inbox' = Append(inbox, j)
        PROVE  InboxInv'
    <3>1. cur # j
      <4>1. CASE listener \in Working
        BY <1>0, <2>4, <4>1 DEF ListenerInv, Working
      <4>2. CASE listener \notin Working
        BY <2>4, <1>0, <4>2, NoJobAssumption DEF ListenerBusy
      <4> QED
        BY <4>1, <4>2
    <3>2. /\ Len(inbox') = Len(inbox) + 1
          /\ \A i \in 1..Len(inbox) : inbox'[i] = inbox[i]
          /\ inbox'[Len(inbox) + 1] = j
          /\ Len(inbox) \in Nat
      BY <1>0, <2>4
    <3>3. \A i \in 1..Len(inbox) : inbox[i] # j
      BY <1>0, <2>4 DEF InboxInv
    <3>4. \A i \in 1..Len(inbox') : i \in 1..Len(inbox) \/ i = Len(inbox) + 1
      BY <3>2
    <3>5. \A i \in 1..Len(inbox') : status'[inbox'[i]] = "ready" /\ inbox'[i] # cur'
      BY <1>0, <2>1, <2>2, <2>4, <3>1, <3>2, <3>4 DEF InboxInv
    <3>6. \A i, k \in 1..Len(inbox') : inbox'[i] = inbox'[k] => i = k
      BY <1>0, <3>2, <3>3, <3>4 DEF InboxInv
    <3> QED
      BY <3>5, <3>6 DEF InboxInv
  <2> QED
    BY <1>1, <2>3, <2>4, ChannelSteps
<1>2. CASE TakeNotification
  <2>1. /\ inbox # <<>> /\ inbox' = Tail(inbox) /\ cur' = Head(inbox) /\ status' = status
    BY <1>2 DEF TakeNotification, jobRows
  <2>2. /\ cur' = inbox[1]
        /\ Len(inbox) \in Nat \ {0}
        /\ Len(inbox') = Len(inbox) - 1
        /\ \A i \in 1..Len(inbox') : inbox'[i] = inbox[i + 1] /\ i + 1 \in 1..Len(inbox)
    BY <1>0, <2>1
  <2>3. \A i \in 1..Len(inbox') : status'[inbox'[i]] = "ready" /\ inbox'[i] # cur'
    BY <1>0, <2>1, <2>2 DEF InboxInv
  <2>4. \A i, k \in 1..Len(inbox') : inbox'[i] = inbox'[k] => i = k
    <3>1. SUFFICES ASSUME NEW i \in 1..Len(inbox'), NEW k \in 1..Len(inbox'),
                          inbox'[i] = inbox'[k]
                   PROVE  i = k
      OBVIOUS
    <3>2. i + 1 = k + 1
      BY <1>0, <2>2, <3>1 DEF InboxInv
    <3> QED
      BY <2>2, <3>2
  <2> QED
    BY <2>3, <2>4 DEF InboxInv
<1>3. CASE Listen
  BY <1>0, <1>3 DEF Listen, InboxInv, jobRows
<1>4. CASE FetchResults \/ TraceAssembly
  <2>1. UNCHANGED <<inbox, status>> /\ cur' \in {cur, NoJob}
    BY <1>4 DEF FetchResults, TraceAssembly, dbVars, jobRows, channel
  <2>2. \A i \in 1..Len(inbox) : inbox[i] # NoJob
    BY <1>0, NoJobAssumption
  <2> QED
    BY <1>0, <2>1, <2>2 DEF InboxInv
<1>5. CASE WriteAnswer
  <2>1. UNCHANGED <<inbox, cur>> /\ status' = [status EXCEPT ![cur] = "assembled"]
    BY <1>5 DEF WriteAnswer, WriteFinalAnswer, channel
  <2> QED
    BY <1>0, <2>1 DEF InboxInv, TypeOK, DbTypeOK
<1>6. CASE ListenerFails \/ AssemblerRestart
  <2>1. inbox' = <<>>
    BY <1>6 DEF ListenerFails, AssemblerRestart, StopListening
  <2> QED
    BY <2>1 DEF InboxInv
<1> QED
  BY <1>1, <1>2, <1>3, <1>4, <1>5, <1>6 DEF Assembles, AsmStep

-----------------------------------------------------------------------------
(* Polls. *)

(* Only polls and a crash of the API change what a poll has read. *)
LEMMA PollSteps ==
  ASSUME [Next]_vars
  PROVE  \/ ApiCrash
         \/ \E j \in Jobs : PollJob(j) \/ PollAnswer(j)
         \/ UNCHANGED <<polled, seen>>
<1>1. ASSUME NEW j \in Jobs, SubmitStep(j) PROVE UNCHANGED <<polled, seen>>
  BY <1>1 DEF SubmitStep, RejectQuery, CreateJob, RetrieveChunks, AcceptQuery, SubmitFails
<1>2. ASSUME NEW j \in Jobs, NEW r \in Routes, ApiStarts(j, r) PROVE UNCHANGED <<polled, seen>>
  BY <1>2 DEF ApiStarts, StartDispatcher
<1>3. CASE UNCHANGED apiVars
  BY <1>3 DEF apiVars
<1> QED
  BY <1>1, <1>2, <1>3 DEF Next, vars, ApiHandles, PollStep, Dispatches, Calculates,
     CalcServiceCrash, Assembles

LEMMA PollInvStep ==
  ASSUME IInv, [Next]_vars
  PROVE  PollInv'
<1>0. /\ TypeOK /\ StoreInv /\ PollInv
      /\ polled \in [Jobs -> Statuses \union {"idle"}]
      /\ seen \in [Jobs -> [status : Statuses, result : BOOLEAN]]
  BY DEF IInv, TypeInv, TypeOK, ApiTypeOK
<1>1. \A j \in Jobs : status[j] = "assembled" => status'[j] = "assembled"
  BY StatusSteps
<1>2. CASE UNCHANGED <<polled, seen>>
  BY <1>0, <1>1, <1>2 DEF PollInv
<1>3. ASSUME NEW j \in Jobs, PollJob(j) PROVE PollInv'
  <2>1. polled' = [polled EXCEPT ![j] = status[j]] /\ UNCHANGED <<seen, status>>
    BY <1>3 DEF PollJob, dbVars, jobRows
  <2> QED
    BY <1>0, <2>1 DEF PollInv
<1>4. ASSUME NEW j \in Jobs, PollAnswer(j) PROVE PollInv'
  <2>1. /\ polled' = [polled EXCEPT ![j] = "idle"]
        /\ seen' = [seen EXCEPT ![j] = [status |-> polled[j], result |-> answer[j] # NoRows]]
        /\ UNCHANGED status
    BY <1>4 DEF PollAnswer, dbVars, jobRows
  <2>2. polled[j] = "assembled" => answer[j] # NoRows
    <3>1. SUFFICES ASSUME polled[j] = "assembled" PROVE answer[j] # NoRows
      OBVIOUS
    <3>2. status[j] = "assembled" /\ JobStore(j)
      BY <1>0, <3>1 DEF PollInv, StoreInv
    <3>3. Filled(answer[j]) # {}
      BY <3>2 DEF JobStore
    <3>4. Filled(NoRows) = {}
      BY DEF Filled, NoRows
    <3> QED
      BY <3>3, <3>4
  <2>3. \A k \in Jobs : seen'[k].status = "assembled" => seen'[k].result
    <3>1. seen'[j].status = polled[j] /\ seen'[j].result = (answer[j] # NoRows)
      BY <1>0, <2>1
    <3>2. \A k \in Jobs \ {j} : seen'[k] = seen[k]
      BY <1>0, <2>1
    <3> QED
      BY <1>0, <2>2, <3>1, <3>2 DEF PollInv
  <2>4. \A k \in Jobs : polled'[k] = "assembled" => status'[k] = "assembled"
    BY <1>0, <2>1 DEF PollInv
  <2> QED
    BY <2>3, <2>4 DEF PollInv
<1>5. CASE ApiCrash
  BY <1>0, <1>1, <1>5 DEF ApiCrash, ApiLosesRequests, PollInv
<1> QED
  BY <1>2, <1>3, <1>4, <1>5, PollSteps

-----------------------------------------------------------------------------
(* The invariant holds. *)

LEMMA InvInit == Init => IInv
<1> SUFFICES ASSUME Init PROVE IInv
  OBVIOUS
<1>1. TypeInv
  BY TypeInvInit
<1>2. Filled(NoRows) = {}
  BY DEF Filled, NoRows
<1>3. StoreInv
  BY <1>2 DEF Init, DbInit, StoreInv, JobStore
<1>4. OriginInv
  BY DEF Init, DbInit, ApiInit, DispatchInit, OriginInv, RequestOrigin, DispatchOrigin, Running
<1>5. OutcomeInv
  BY DEF Init, DbInit, DispatchInit, OutcomeInv, RouteOutcome, Leaving, NoRows
<1>6. InboxInv
  BY DEF Init, DbInit, InboxInv
<1>7. ListenerInv
  BY DEF Init, DbInit, AsmInit, ListenerInv, Working
<1>8. PollInv
  BY DEF Init, ApiInit, PollInv
<1> QED
  BY <1>1, <1>3, <1>4, <1>5, <1>6, <1>7, <1>8 DEF IInv

LEMMA InvStep == IInv /\ [Next]_vars => IInv'
<1> SUFFICES ASSUME IInv, [Next]_vars PROVE IInv'
  OBVIOUS
<1>1. TypeInv'
  BY TypeInvStep DEF IInv
<1>2. OutcomeInv'
  BY OutcomeStep DEF OutcomeInv
<1> QED
  BY <1>1, <1>2, StoreStep, OriginStep, InboxStep, ListenerStep, PollInvStep DEF IInv

(* The inductive invariant holds in every reachable state. *)
THEOREM Invariance == Spec => []IInv
BY InvInit, InvStep, PTL DEF Spec

-----------------------------------------------------------------------------
(* The safety properties of Pipeline.tla. *)

(* completed_routes and the status agree with the stored results. *)
THEOREM CompletedCorrect == Spec => []CompletedMatchesResults
<1>1. IInv => CompletedMatchesResults
  BY DEF IInv, StoreInv, JobStore, CompletedMatchesResults
<1> QED
  BY <1>1, Invariance, PTL

(* No job is announced twice, and none is ready or assembled unannounced. *)
THEOREM NotifiedCorrect == Spec => []NotifiedOnce
<1>1. IInv => NotifiedOnce
  BY DEF IInv, StoreInv, JobStore, NotifiedOnce
<1> QED
  BY <1>1, Invariance, PTL

(* No answer is assembled from a part of the expected routes. *)
THEOREM AnswerComplete == Spec => []AnswerCoversRoutes
<1>1. IInv => AnswerCoversRoutes
  BY DEF IInv, StoreInv, JobStore, AnswerCoversRoutes
<1> QED
  BY <1>1, Invariance, PTL

(* What a dispatcher concluded agrees with what its route has stored. *)
THEOREM OutcomeCorrect == Spec => []OutcomeIsStored
<1>1. IInv => OutcomeIsStored
  BY DEF IInv, OutcomeInv, RouteOutcome, Leaving, OutcomeIsStored
<1> QED
  BY <1>1, Invariance, PTL

(* No response of query_status says "assembled" without a result. *)
THEOREM PollCorrect == Spec => []AssembledHasResult
<1>1. IInv => AssembledHasResult
  BY DEF IInv, PollInv, AssembledHasResult
<1> QED
  BY <1>1, Invariance, PTL

(* A status never goes back and never skips a stage. *)
THEOREM StatusForward == Spec => StatusMovesForward
<1>1. ASSUME IInv, [Next]_vars
      PROVE  [\A j \in Jobs : Rank(status'[j]) \in {Rank(status[j]), Rank(status[j]) + 1}]_status
  <2>1. ASSUME NEW j \in Jobs
        PROVE  Rank(status'[j]) \in {Rank(status[j]), Rank(status[j]) + 1}
    <3>1. /\ Rank("none") = 0 /\ Rank("pending") = 1
          /\ Rank("ready") = 2 /\ Rank("assembled") = 3
      BY DEF Rank
    <3> QED
      BY <1>1, <3>1, StatusSteps
  <2> QED
    BY <2>1
<1> QED
  BY <1>1, Invariance, PTL DEF Spec, StatusMovesForward

(* Only an assembled job has an answer. *)
LEMMA AnsweredIsAssembled ==
  ASSUME IInv, NEW j \in Jobs, answer[j] # NoRows
  PROVE  status[j] = "assembled"
<1>1. answer[j] \in [Routes -> Rows] /\ JobStore(j)
  BY DEF IInv, TypeInv, TypeOK, DbTypeOK, StoreInv
<1>2. Filled(answer[j]) # {}
  <2>1. PICK r \in Routes : answer[j][r] # "none"
    BY <1>1 DEF NoRows
  <2> QED
    BY <2>1 DEF Filled
<1> QED
  BY <1>1, <1>2 DEF JobStore

(* A stored answer is final. *)
THEOREM AnswerFinal == Spec => AnswerWrittenOnce
<1>1. ASSUME IInv, [Next]_vars
      PROVE  [\A j \in Jobs : answer[j] # NoRows => answer'[j] = answer[j]]_answer
  BY <1>1, AnsweredIsAssembled, StatusSteps
<1> QED
  BY <1>1, Invariance, PTL DEF Spec, AnswerWrittenOnce

-----------------------------------------------------------------------------
(* What a client is told comes no earlier than the tables say it, and a    *)
(* poll under way comes no earlier than the last response.                 *)

ProgressInv ==
  \A j \in Jobs :
    /\ Rank(seen[j].status) <= Rank(status[j])
    /\ polled[j] # "idle" => /\ Rank(seen[j].status) <= Rank(polled[j])
                             /\ Rank(polled[j]) <= Rank(status[j])
    /\ seen[j].result => answer[j] # NoRows

ClientStep ==
  \A j \in Jobs : /\ Rank(seen'[j].status) >= Rank(seen[j].status)
                  /\ seen[j].result => seen'[j].result

LEMMA RankValues ==
  /\ Rank("none") = 0 /\ Rank("pending") = 1 /\ Rank("ready") = 2 /\ Rank("assembled") = 3
  /\ \A s \in Statuses : Rank(s) \in Nat
<1>1. /\ Rank("none") = 0 /\ Rank("pending") = 1
      /\ Rank("ready") = 2 /\ Rank("assembled") = 3
  BY DEF Rank
<1> QED
  BY <1>1 DEF Statuses

LEMMA ProgressStep ==
  ASSUME IInv, ProgressInv, [Next]_vars
  PROVE  /\ ProgressInv'
         /\ \A j \in Jobs : /\ Rank(seen'[j].status) >= Rank(seen[j].status)
                            /\ seen[j].result => seen'[j].result
<1> DEFINE Goes(j) == /\ Rank(seen'[j].status) >= Rank(seen[j].status)
                      /\ seen[j].result => seen'[j].result
<1>0. /\ polled \in [Jobs -> Statuses \union {"idle"}]
      /\ seen \in [Jobs -> [status : Statuses, result : BOOLEAN]]
      /\ status \in [Jobs -> Statuses] /\ status' \in [Jobs -> Statuses]
  <2>1. TypeInv'
    BY TypeInvStep DEF IInv
  <2> QED
    BY <2>1 DEF IInv, TypeInv, TypeOK, ApiTypeOK, DbTypeOK
<1>r. /\ \A j \in Jobs : Rank(status[j]) \in Nat /\ Rank(status'[j]) \in Nat
      /\ \A j \in Jobs : Rank(seen[j].status) \in Nat
      /\ \A j \in Jobs : polled[j] # "idle" => Rank(polled[j]) \in Nat
  BY <1>0, RankValues
<1>1. \A j \in Jobs : Rank(status[j]) <= Rank(status'[j])
  <2> SUFFICES ASSUME NEW j \in Jobs PROVE Rank(status[j]) <= Rank(status'[j])
    OBVIOUS
  <2>1. \/ status'[j] = status[j]
        \/ status[j] = "none" /\ status'[j] = "pending"
        \/ status[j] = "pending" /\ status'[j] = "ready"
        \/ status[j] = "ready" /\ status'[j] = "assembled"
    BY StatusSteps
  <2>2. CASE status'[j] = status[j]
    BY <2>2, <1>r
  <2> QED
    BY <2>1, <2>2, RankValues
<1>2. \A j \in Jobs : answer[j] # NoRows => answer'[j] # NoRows
  BY AnsweredIsAssembled, StatusSteps
<1>3. ASSUME UNCHANGED seen, \A j \in Jobs : polled'[j] \in {polled[j], "idle"}
      PROVE  ProgressInv' /\ \A j \in Jobs : Goes(j)
  <2>1. ASSUME NEW j \in Jobs
        PROVE  /\ Rank(seen'[j].status) <= Rank(status'[j])
               /\ seen'[j].result => answer'[j] # NoRows
               /\ Goes(j)
    BY <1>3, <1>1, <1>2, <1>r DEF ProgressInv
  <2>2. ASSUME NEW j \in Jobs, polled'[j] # "idle"
        PROVE  /\ Rank(seen'[j].status) <= Rank(polled'[j])
               /\ Rank(polled'[j]) <= Rank(status'[j])
    <3>1. polled'[j] = polled[j] /\ seen'[j] = seen[j]
      BY <1>3, <2>2
    <3> QED
      BY <3>1, <2>2, <1>1, <1>r DEF ProgressInv
  <2> QED
    BY <2>1, <2>2 DEF ProgressInv
<1>4. ASSUME NEW i \in Jobs, PollJob(i) PROVE ProgressInv' /\ \A j \in Jobs : Goes(j)
  <2>1. polled' = [polled EXCEPT ![i] = status[i]] /\ UNCHANGED <<seen, status, answer>>
    BY <1>4 DEF PollJob, dbVars, jobRows
  <2> QED
    <3>1. \A j \in Jobs : Goes(j)
      BY <2>1, <1>r
    <3>2. ASSUME NEW j \in Jobs, polled'[j] # "idle"
          PROVE  /\ Rank(seen'[j].status) <= Rank(polled'[j])
                 /\ Rank(polled'[j]) <= Rank(status'[j])
      <4>1. CASE j = i
        <5>1. polled'[i] = status[i]
          BY <2>1, <1>0
        <5> QED
          BY <5>1, <4>1, <2>1, <1>r DEF ProgressInv
      <4>2. CASE j # i
        <5>1. polled'[j] = polled[j]
          BY <2>1, <4>2, <1>0
        <5> QED
          BY <5>1, <3>2, <2>1 DEF ProgressInv
      <4> QED
        BY <4>1, <4>2
    <3>3. ASSUME NEW j \in Jobs
          PROVE  /\ Rank(seen'[j].status) <= Rank(status'[j])
                 /\ seen'[j].result => answer'[j] # NoRows
      BY <2>1 DEF ProgressInv
    <3>4. ProgressInv'
      <4>1. ASSUME NEW j \in Jobs
            PROVE  /\ Rank(seen'[j].status) <= Rank(status'[j])
                   /\ polled'[j] # "idle" => /\ Rank(seen'[j].status) <= Rank(polled'[j])
                                             /\ Rank(polled'[j]) <= Rank(status'[j])
                   /\ seen'[j].result => answer'[j] # NoRows
        <5>1. /\ Rank(seen'[j].status) <= Rank(status'[j])
              /\ seen'[j].result => answer'[j] # NoRows
          BY <3>3
        <5>2. ASSUME polled'[j] # "idle"
              PROVE  /\ Rank(seen'[j].status) <= Rank(polled'[j])
                     /\ Rank(polled'[j]) <= Rank(status'[j])
          BY <3>2, <5>2
        <5> QED
          BY <5>1, <5>2, Zenon
      <4> QED
        BY <4>1, Zenon DEF ProgressInv
    <3> QED
      BY <3>1, <3>4
<1>5. ASSUME NEW i \in Jobs, PollAnswer(i) PROVE ProgressInv' /\ \A j \in Jobs : Goes(j)
  <2>1. /\ polled' = [polled EXCEPT ![i] = "idle"] /\ polled[i] # "idle"
        /\ seen' = [seen EXCEPT ![i] = [status |-> polled[i], result |-> answer[i] # NoRows]]
        /\ UNCHANGED <<status, answer>>
    BY <1>5 DEF PollAnswer, dbVars, jobRows
  <2>2. ASSUME NEW j \in Jobs, j # i PROVE seen'[j] = seen[j] /\ polled'[j] = polled[j]
    BY <2>1, <2>2, <1>0
  <2>3. /\ seen'[i].status = polled[i] /\ seen'[i].result = (answer[i] # NoRows)
        /\ polled'[i] = "idle"
    BY <2>1, <1>0
  <2>4. Goes(i) /\ Rank(seen'[i].status) <= Rank(status[i])
    BY <2>1, <2>3, <1>r DEF ProgressInv
  <2>5. ProgressInv'
    BY <2>1, <2>2, <2>3, <2>4, Zenon DEF ProgressInv
  <2> QED
    <3>1. ASSUME NEW j \in Jobs, j # i PROVE Goes(j)
      BY <2>2, <3>1, <1>r
    <3> QED
      BY <2>4, <2>5, <3>1
<1>6. CASE ApiCrash
  BY <1>3, <1>6 DEF ApiCrash, ApiLosesRequests
<1> QED
  BY <1>3, <1>4, <1>5, <1>6, PollSteps

(* query_status: a client that polls never sees a job go back, nor a       *)
(* result disappear, whatever commits between the two SELECTs of a poll.   *)
THEOREM ProgressSeen == Spec => ClientSeesProgress
<1>1. Init => ProgressInv
  BY RankValues DEF Init, DbInit, ApiInit, ProgressInv
<1>2. IInv /\ ProgressInv /\ [Next]_vars => ProgressInv'
  BY ProgressStep
<1>3. IInv /\ ProgressInv /\ [Next]_vars => [ClientStep]_seen
  BY ProgressStep DEF ClientStep
<1>4. Spec => []ProgressInv
  BY <1>1, <1>2, Invariance, PTL DEF Spec
<1> QED
  <2>1. Spec => [][ClientStep]_seen
    BY <1>3, <1>4, Invariance, PTL DEF Spec
  <2> QED
    BY <2>1 DEF ClientStep, ClientSeesProgress

-----------------------------------------------------------------------------
(* The pipeline implements the job lifecycle: every step is a creation, a  *)
(* completion or an assembly of one job, or changes nothing of it.         *)

LEMMA LifecycleInit == Init => Lifecycle!Init
<1> SUFFICES ASSUME Init PROVE Lifecycle!Init
  OBVIOUS
<1>1. \A j \in Jobs : Filled(answer[j]) = {}
  BY DEF Init, DbInit, Filled, NoRows
<1> QED
  BY <1>1 DEF Init, DbInit, Lifecycle!Init

LEMMA LifecycleStep ==
  ASSUME IInv, [Next]_vars
  PROVE  [Lifecycle!Next]_Lifecycle!vars
<1> DEFINE Covered == [j \in Jobs |-> Filled(answer[j])]
<1>0. TypeOK /\ StoreInv /\ DbEffect
  BY StepHasDbEffect DEF IInv, TypeInv
<1>1. CASE UNCHANGED <<status, expected, completed, results, answer, notified>>
  <2>1. Covered' = Covered
    BY <1>1
  <2> QED
    BY <1>1, <2>1 DEF Lifecycle!vars
<1>2. ASSUME NEW j \in Jobs, NEW R \in SUBSET Routes,
             status[j] = "none", R # {}, InsertPipelineJob(j, R)
      PROVE  Lifecycle!Next
  <2>1. Covered' = Covered
    BY <1>2 DEF InsertPipelineJob
  <2>2. Lifecycle!Create(j, R)
    BY <1>2, <2>1 DEF InsertPipelineJob, Lifecycle!Create
  <2> QED
    BY <2>2 DEF Lifecycle!Next
<1>3. ASSUME NEW j \in Jobs, NEW r \in Routes, NEW row \in {"facts", "fallback"},
             r \in expected[j], InsertCalcResult(j, r, row)
      PROVE  [Lifecycle!Next]_Lifecycle!vars
  <2>1. Covered' = Covered
    BY <1>3 DEF InsertCalcResult, InsertResult, OverwriteResult
  <2>2. CASE OverwriteResult(j, r, row)
    BY <2>1, <2>2 DEF OverwriteResult, jobRows, Lifecycle!vars
  <2>3. CASE InsertResult(j, r, row)
    <3>1. r \notin completed[j] /\ status[j] = "pending"
      BY <1>0, <1>3, <2>3 DEF InsertResult, StoreInv, JobStore, Filled, TypeOK, DbTypeOK, Statuses
    <3>2. Lifecycle!Complete(j, r)
      BY <1>3, <2>1, <2>3, <3>1 DEF InsertResult, AfterCalcResult, Lifecycle!Complete
    <3> QED
      BY <3>2 DEF Lifecycle!Next
  <2> QED
    BY <1>3, <2>2, <2>3 DEF InsertCalcResult
<1>4. ASSUME NEW j \in Jobs, status[j] = "ready", Filled(rows) = expected[j],
             WriteFinalAnswer(j, rows)
      PROVE  Lifecycle!Next
  <2>1. answer' = [answer EXCEPT ![j] = rows]
    BY <1>4 DEF WriteFinalAnswer
  <2>2. \A k \in Jobs : Filled(answer'[k]) = IF k = j THEN expected[j] ELSE Filled(answer[k])
    BY <1>0, <1>4, <2>1 DEF TypeOK, DbTypeOK
  <2>3. Covered' = [Covered EXCEPT ![j] = expected[j]]
    BY <2>2
  <2>4. Lifecycle!Assemble(j)
    BY <1>4, <2>3 DEF WriteFinalAnswer, Lifecycle!Assemble
  <2> QED
    BY <2>4 DEF Lifecycle!Next
<1> QED
  BY <1>0, <1>1, <1>2, <1>3, <1>4 DEF DbEffect

(* Each pipeline behaviour is, job by job, a behaviour of JobLifecycle. *)
THEOREM Refinement == Spec => ImplementsLifecycle
<1> QED
  BY LifecycleInit, LifecycleStep, Invariance, PTL DEF Spec, ImplementsLifecycle, Lifecycle!Spec

-----------------------------------------------------------------------------
(* No notification is lost while nothing fails. *)

DeliveryInv ==
  faults = 0 =>
    /\ listener \in Working \union {"idle"}
    /\ \A j \in Jobs : status[j] = "ready" =>
         (\E i \in 1..Len(inbox) : inbox[i] = j) \/ cur = j

(* A job that becomes ready is announced to a listening session. *)
LEMMA ReadyIsAnnounced ==
  ASSUME IInv, [Next]_vars, NEW j \in Jobs,
         status[j] # "ready", status'[j] = "ready", listening
  PROVE  inbox' = Append(inbox, j)
<1>0. TypeOK /\ StoreInv /\ DbEffect
  BY StepHasDbEffect DEF IInv, TypeInv
<1>1. ASSUME NEW i \in Jobs, NEW R \in SUBSET Routes, InsertPipelineJob(i, R) PROVE FALSE
  BY <1>0, <1>1 DEF InsertPipelineJob, TypeOK, DbTypeOK
<1>2. ASSUME NEW i \in Jobs, NEW q \in Routes, NEW row \in {"facts", "fallback"},
             InsertCalcResult(i, q, row)
      PROVE  inbox' = Append(inbox, j)
  BY <1>0, <1>2 DEF InsertCalcResult, InsertResult, OverwriteResult, AfterCalcResult, PgNotify,
     jobRows, TypeOK, DbTypeOK
<1>3. ASSUME NEW i \in Jobs, WriteFinalAnswer(i, rows) PROVE FALSE
  BY <1>0, <1>3 DEF WriteFinalAnswer, TypeOK, DbTypeOK
<1> QED
  BY <1>0, <1>1, <1>2, <1>3 DEF DbEffect

LEMMA FaultCounts ==
  ASSUME TypeOK, [Next]_vars, faults' = 0
  PROVE  /\ faults = 0
         /\ Assembles => AsmStep
<1>0. faults \in Nat
  BY FaultAssumption DEF TypeOK, DbTypeOK
<1>1. ASSUME Fault PROVE FALSE
  BY <1>0, <1>1 DEF Fault
<1>2. ASSUME NEW j \in Jobs, ApiHandles(j) PROVE faults' = faults
  BY <1>1, <1>2 DEF ApiHandles, SubmitStep, RejectQuery, CreateJob, InsertPipelineJob,
     RetrieveChunks, AcceptQuery, SubmitFails, PollStep, PollJob, PollAnswer, dbVars
<1>3. ASSUME NEW j \in Jobs, NEW r \in Routes, NEW row \in Rows, InsertCalcResult(j, r, row)
      PROVE  faults' = faults
  BY <1>3 DEF InsertCalcResult, InsertResult, OverwriteResult
<1>4. ASSUME NEW j \in Jobs, NEW r \in Routes, ApiStarts(j, r) PROVE faults' = faults
  BY <1>4 DEF ApiStarts, StartDispatcher, dbVars
<1>5. ASSUME NEW j \in Jobs, NEW r \in Routes, Dispatches(j, r) PROVE faults' = faults
  BY <1>1, <1>3, <1>5 DEF Dispatches, DispatcherStep, SkipRoute, CheckHealth, FailFast, SubmitPost,
     PostSucceeds, PostFails, AttemptTimeout, RecordFailure, TraceFailure, LeaveExecutor, RecordingFails, dbVars, Rows
<1>6. ASSUME NEW j \in Jobs, NEW r \in Routes, Calculates(j, r) PROVE faults' = faults
  BY <1>1, <1>3, <1>6 DEF Calculates, CalcStep, SendPost, WorkerDone, CalcReceives, CalcInserts,
     CalcReplies, CalcFails, CalcTraceFails, dbVars, Rows
<1>7. Assembles => AsmStep /\ faults' = faults
  BY <1>1 DEF Assembles, ListenerFails, AssemblerRestart, AsmStep, Listen, TakeNotification,
     FetchResults, WriteAnswer, WriteFinalAnswer, TraceAssembly, dbVars
<1>8. UNCHANGED vars => faults' = faults
  BY DEF vars, dbVars
<1> QED
  BY <1>1, <1>2, <1>4, <1>5, <1>6, <1>7, <1>8 DEF Next, CalcServiceCrash, CalcCrash, ApiCrash

LEMMA DeliveryStep ==
  ASSUME IInv, [Next]_vars, DeliveryInv
  PROVE  DeliveryInv'
<1> SUFFICES ASSUME faults' = 0
             PROVE  /\ listener' \in Working \union {"idle"}
                    /\ \A j \in Jobs : status'[j] = "ready" =>
                         (\E i \in 1..Len(inbox') : inbox'[i] = j) \/ cur' = j
  BY DEF DeliveryInv
<1>0. /\ TypeOK /\ ListenerBusy /\ StoreInv /\ ListenerInv
      /\ inbox \in Seq(Jobs)
      /\ Assembles => AsmStep
      /\ listener \in Working \union {"idle"}
      /\ cur \in Jobs \union {NoJob}
      /\ listening
      /\ \A j \in Jobs : status[j] = "ready" =>
           (\E i \in 1..Len(inbox) : inbox[i] = j) \/ cur = j
  BY FaultCounts DEF IInv, TypeInv, TypeOK, DbTypeOK, AsmTypeOK, DeliveryInv, ListenerInv
<1>1. CASE ~ Assembles
  <2>1. UNCHANGED <<listener, cur>>
    BY <1>1, ChannelSteps DEF asmVars
  <2>2. ASSUME NEW j \in Jobs, status'[j] = "ready"
        PROVE  (\E i \in 1..Len(inbox') : inbox'[i] = j) \/ cur' = j
    <3>1. CASE status[j] # "ready"
      <4>1. inbox' = Append(inbox, j)
        BY <1>0, <2>2, <3>1, ReadyIsAnnounced
      <4>2. Len(inbox') \in 1..Len(inbox') /\ inbox'[Len(inbox')] = j
        BY <1>0, <4>1
      <4> QED
        BY <4>2
    <3>2. CASE status[j] = "ready"
      <4>1. \A i \in 1..Len(inbox) : i \in 1..Len(inbox') /\ inbox'[i] = inbox[i]
        <5>1. ASSUME NEW k \in Jobs, inbox' = Append(inbox, k)
              PROVE  \A i \in 1..Len(inbox) : i \in 1..Len(inbox') /\ inbox'[i] = inbox[i]
          BY <1>0, <5>1
        <5> QED
          BY <1>1, <5>1, ChannelSteps
      <4> QED
        BY <1>0, <2>1, <3>2, <4>1
    <3> QED
      BY <3>1, <3>2
  <2> QED
    BY <1>0, <2>1, <2>2
<1>2. CASE Listen
  BY <1>0, <1>2 DEF Listen, Working
<1>3. CASE TakeNotification
  <2>1. /\ listener = "idle" /\ cur = NoJob /\ inbox # <<>> /\ status' = status
        /\ inbox' = Tail(inbox) /\ cur' = Head(inbox) /\ listener' = "fetch"
    BY <1>0, <1>3 DEF TakeNotification, jobRows, ListenerBusy, Working
  <2>2. ASSUME NEW j \in Jobs, NEW i \in 1..Len(inbox), inbox[i] = j
        PROVE  (\E k \in 1..Len(inbox') : inbox'[k] = j) \/ cur' = j
    <3>1. CASE i = 1
      BY <1>0, <2>1, <2>2, <3>1
    <3>2. CASE i # 1
      <4>1. Len(inbox') = Len(inbox) - 1 /\ Len(inbox) \in Nat
        BY <1>0, <2>1
      <4>2. \A k \in 1..Len(inbox') : inbox'[k] = inbox[k + 1]
        BY <1>0, <2>1
      <4>3. i - 1 \in 1..Len(inbox') /\ (i - 1) + 1 = i
        BY <3>2, <4>1
      <4>4. inbox'[i - 1] = j
        BY <2>2, <4>2, <4>3
      <4> QED
        BY <4>3, <4>4
    <3> QED
      BY <3>1, <3>2
  <2> QED
    BY <1>0, <2>1, <2>2, NoJobAssumption DEF Working
<1>4. CASE FetchResults
  <2>1. listener = "fetch" /\ cur \in Jobs /\ status[cur] = "ready" /\ JobStore(cur)
    BY <1>0, <1>4 DEF FetchResults, ListenerBusy, ListenerInv, StoreInv, Working
  <2>2. Filled(results[cur]) # {}
    BY <2>1 DEF JobStore
  <2>3. results[cur] # NoRows
    BY <2>2 DEF Filled, NoRows
  <2> QED
    BY <1>0, <1>4, <2>3 DEF FetchResults, dbVars, jobRows, channel, Working
<1>5. CASE WriteAnswer
  <2>1. UNCHANGED <<inbox, cur>> /\ listener' = "trace"
    BY <1>5 DEF WriteAnswer, WriteFinalAnswer, channel
  <2>2. \A j \in Jobs : status'[j] = "ready" => status[j] = "ready"
    BY <1>0, <1>5 DEF WriteAnswer, WriteFinalAnswer, TypeOK, DbTypeOK
  <2> QED
    BY <1>0, <2>1, <2>2 DEF Working
<1>6. CASE TraceAssembly
  <2>1. status[cur] = "assembled"
    BY <1>0, <1>6 DEF TraceAssembly, ListenerInv
  <2>2. UNCHANGED <<inbox, status>> /\ listener' = "idle"
    BY <1>6 DEF TraceAssembly, dbVars, jobRows, channel
  <2>3. \A j \in Jobs : status'[j] = "ready" => \E i \in 1..Len(inbox') : inbox'[i] = j
    BY <1>0, <2>1, <2>2
  <2> QED
    BY <2>2, <2>3
<1> QED
  BY <1>0, <1>1, <1>2, <1>3, <1>4, <1>5, <1>6 DEF AsmStep

(* While nothing has failed, every ready job waits in the inbox or is in   *)
(* the listener's hand.                                                    *)
THEOREM ReadyDelivered == Spec => []ReadyIsInHand
<1>1. Init => DeliveryInv
  BY DEF Init, DbInit, AsmInit, DeliveryInv
<1>2. DeliveryInv => ReadyIsInHand
  BY DEF DeliveryInv, ReadyIsInHand, InHand
<1>3. IInv /\ IInv' /\ DeliveryInv /\ [Next]_vars => DeliveryInv'
  BY DeliveryStep
<1> QED
  BY <1>1, <1>2, <1>3, Invariance, PTL DEF Spec
-----------------------------------------------------------------------------
(* A job that waits is worked on while nothing fails. *)

(* The submission comes to its end, and it has started every dispatcher    *)
(* then; a dispatcher ends without a record only for want of an endpoint.  *)
Served(j) ==
  /\ status[j] # "none" => request[j] \in Running \union {"accepted"}
  /\ request[j] \in {"trace", "accepted"} => expected[j] \subseteq started[j]
  /\ \A r \in started[j] : disp[j][r] # "none"
  /\ \A r \in Routes : /\ disp[j][r] \notin {"raising", "killed"}
                       /\ disp[j][r] = "silent" => r \in NoEndpoint

ServiceInv == faults = 0 => \A j \in Jobs : Served(j)
(* A step that leaves the count of faults at 0 is none of the faults. *)
LEMMA NoFaultStep ==
  ASSUME TypeOK, [Next]_vars, faults' = 0
  PROVE  /\ ~ Fault
         /\ \A j \in Jobs : ApiHandles(j) =>
              \/ RejectQuery(j) \/ RetrieveChunks(j) \/ AcceptQuery(j) \/ PollStep(j)
              \/ \E R \in SUBSET Routes : CreateJob(j, R)
         /\ \A j \in Jobs, r \in Routes : Dispatches(j, r) => DispatcherStep(j, r)
         /\ ~ ApiCrash
<1>1. ~ Fault
  BY FaultAssumption DEF Fault, TypeOK, DbTypeOK
<1>2. ASSUME NEW j \in Jobs, ApiHandles(j)
      PROVE  \/ RejectQuery(j) \/ RetrieveChunks(j) \/ AcceptQuery(j) \/ PollStep(j)
             \/ \E R \in SUBSET Routes : CreateJob(j, R)
  BY <1>1, <1>2 DEF ApiHandles, SubmitStep, SubmitFails
<1>3. ASSUME NEW j \in Jobs, NEW r \in Routes, Dispatches(j, r) PROVE DispatcherStep(j, r)
  BY <1>1, <1>3 DEF Dispatches, RecordingFails
<1>4. ~ ApiCrash
  BY <1>1 DEF ApiCrash
<1> QED
  BY <1>1, <1>2, <1>3, <1>4

(* Where a dispatcher can be after a step of its own. *)
LEMMA DispatcherGoesOn ==
  ASSUME TypeOK, NEW j \in Jobs, NEW r \in Routes, DispatcherStep(j, r),
         disp[j][r] # "raising"
  PROVE  \E next \in (Dispatching \ {"raising"}) \union {"ok", "recorded", "silent"} :
           /\ disp' = [disp EXCEPT ![j][r] = next]
           /\ next = "silent" => r \in NoEndpoint
<1>1. CASE SkipRoute(j, r)
  BY <1>1 DEF SkipRoute
<1>2. CASE CheckHealth(j, r) \/ FailFast(j, r) \/ SubmitPost(j, r)
  BY <1>2 DEF CheckHealth, FailFast, SubmitPost, Dispatching, Leaving
<1>3. CASE PostSucceeds(j, r) \/ RecordFailure(j, r) \/ TraceFailure(j, r) \/ LeaveExecutor(j, r)
  BY <1>3 DEF PostSucceeds, RecordFailure, TraceFailure, LeaveExecutor, Dispatching, Leaving
<1>4. CASE PostFails(j, r) \/ AttemptTimeout(j, r)
  BY <1>4 DEF PostFails, AttemptTimeout, NextAttempt, Dispatching, Leaving
<1> QED
  BY <1>1, <1>2, <1>3, <1>4 DEF DispatcherStep

LEMMA ServiceStep ==
  ASSUME IInv, IInv', [Next]_vars, ServiceInv
  PROVE  ServiceInv'
<1> SUFFICES ASSUME faults' = 0, NEW j \in Jobs PROVE Served(j)'
  BY DEF ServiceInv
<1>0. /\ TypeOK /\ faults = 0 /\ Served(j)
      /\ request \in [Jobs -> Running \union {"new", "rejected", "error", "accepted"}]
      /\ started \in [Jobs -> SUBSET Routes]
      /\ status \in [Jobs -> Statuses]
      /\ expected \in [Jobs -> SUBSET Routes]
      /\ disp \in [Jobs -> [Routes -> Dispatching \union Finished \union {"none"}]]
      /\ request[j] = "new" => status[j] = "none"
      /\ request'[j] \in Running => status'[j] # "none"
  BY FaultCounts DEF ServiceInv, IInv, TypeInv, TypeOK, DbTypeOK, ApiTypeOK, DispatchTypeOK,
     OriginInv, RequestOrigin
<1>1. ASSUME NEW i \in Jobs, ApiHandles(i) PROVE Served(j)'
  <2>1. disp' = disp
    BY <1>1 DEF ApiHandles, dispatchVars
  <2>2. ASSUME NEW R \in SUBSET Routes, CreateJob(i, R) PROVE Served(j)'
    BY <1>0, <2>1, <2>2 DEF CreateJob, InsertPipelineJob, Served, Running
  <2>3. CASE RejectQuery(i)
    BY <1>0, <2>1, <2>3 DEF RejectQuery, dbVars, jobRows, Served, Running
  <2>4. CASE RetrieveChunks(i)
    BY <1>0, <2>1, <2>4 DEF RetrieveChunks, dbVars, jobRows, Served, Running
  <2>5. CASE AcceptQuery(i)
    BY <1>0, <2>1, <2>5 DEF AcceptQuery, dbVars, jobRows, Served, Running
  <2>6. CASE PollStep(i)
    BY <1>0, <2>1, <2>6 DEF PollStep, PollJob, PollAnswer, dbVars, jobRows, Served
  <2> QED
    BY <1>0, <1>1, <2>2, <2>3, <2>4, <2>5, <2>6, NoFaultStep
<1>2. ASSUME NEW i \in Jobs, NEW r \in Routes, ApiStarts(i, r) PROVE Served(j)'
  <2>1. /\ UNCHANGED <<status, expected>>
        /\ request[i] = "dispatch"
        /\ started' = [started EXCEPT ![i] = started[i] \union {r}]
        /\ request' = IF expected[i] \subseteq started[i] \union {r}
                        THEN [request EXCEPT ![i] = "trace"] ELSE request
        /\ disp' = [disp EXCEPT ![i][r] = "health"]
    BY <1>2 DEF ApiStarts, StartDispatcher, Begin, dbVars, jobRows
  <2>2. /\ request'[j] = request[j] \/ (i = j /\ request'[j] = "trace")
        /\ request'[j] = "trace" =>
             expected[j] \subseteq started'[j]
    BY <1>0, <2>1 DEF Served, Running
  <2>3. started[j] \subseteq started'[j]
    BY <1>0, <2>1
  <2>4. \A q \in started'[j] : disp'[j][q] # "none"
    BY <1>0, <2>1 DEF Served
  <2>5. \A q \in Routes : /\ disp'[j][q] \notin {"raising", "killed"}
                          /\ disp'[j][q] = "silent" => q \in NoEndpoint
    BY <1>0, <2>1 DEF Served
  <2> QED
    BY <1>0, <2>1, <2>2, <2>3, <2>4, <2>5 DEF Served, Running
<1>3. ASSUME UNCHANGED apiVars,
             \A r \in Routes : /\ disp[j][r] # "none" => disp'[j][r] # "none"
                               /\ disp'[j][r] \notin {"raising", "killed"}
                               /\ disp'[j][r] = "silent" => r \in NoEndpoint
      PROVE  Served(j)'
  <2>1. UNCHANGED <<request, started>>
    BY <1>3 DEF apiVars
  <2>2. \A i \in Jobs, R \in SUBSET Routes :
          status[i] = "none" /\ request'[i] = "retrieve" => FALSE
    BY <2>1 DEF IInv, OriginInv, RequestOrigin, Running
  <2>3. /\ expected'[j] = expected[j]
        /\ status'[j] # "none" => status[j] # "none"
    <3>1. DbEffect
      BY StepHasDbEffect
    <3>2. ASSUME NEW i \in Jobs, NEW r \in Routes, NEW row \in {"facts", "fallback"},
                 r \in expected[i], InsertCalcResult(i, r, row)
          PROVE  expected'[j] = expected[j] /\ (status'[j] # "none" => status[j] # "none")
      BY <1>0, <3>2 DEF InsertCalcResult, InsertResult, OverwriteResult, AfterCalcResult, jobRows
    <3>3. ASSUME NEW i \in Jobs, status[i] = "ready", WriteFinalAnswer(i, rows)
          PROVE  expected'[j] = expected[j] /\ (status'[j] # "none" => status[j] # "none")
      BY <1>0, <3>3 DEF WriteFinalAnswer
    <3> QED
      BY <2>2, <3>1, <3>2, <3>3 DEF DbEffect
  <2> QED
    BY <1>0, <1>3, <2>1, <2>3 DEF Served
<1>4. ASSUME NEW i \in Jobs, NEW q \in Routes, Dispatches(i, q) PROVE Served(j)'
  <2>1. /\ DispatcherStep(i, q) /\ UNCHANGED apiVars
        /\ Served(i)
    BY <1>0, <1>4, NoFaultStep DEF Dispatches, ServiceInv
  <2>2. PICK next \in (Dispatching \ {"raising"}) \union {"ok", "recorded", "silent"} :
          /\ disp' = [disp EXCEPT ![i][q] = next]
          /\ next = "silent" => q \in NoEndpoint
    BY <1>0, <2>1, DispatcherGoesOn DEF Served
  <2>3. next \notin {"none", "raising", "killed"}
    BY DEF Dispatching, Leaving
  <2>4. \A r \in Routes : /\ disp[j][r] # "none" => disp'[j][r] # "none"
                          /\ disp'[j][r] \notin {"raising", "killed"}
                          /\ disp'[j][r] = "silent" => r \in NoEndpoint
    BY <1>0, <2>2, <2>3 DEF Served
  <2> QED
    BY <1>3, <2>1, <2>4
<1>5. ASSUME UNCHANGED apiVars, disp' = disp PROVE Served(j)'
  BY <1>0, <1>3, <1>5 DEF Served
<1>6. ASSUME NEW i \in Jobs, NEW q \in Routes, Calculates(i, q) PROVE Served(j)'
  BY <1>5, <1>6 DEF Calculates, CalcStep, SendPost, WorkerDone, CalcReceives, CalcInserts,
     CalcReplies, CalcFails, CalcTraceFails
<1>7. ASSUME NEW q \in Routes, CalcServiceCrash(q) PROVE Served(j)'
  BY <1>5, <1>7 DEF CalcServiceCrash, CalcCrash
<1>8. CASE Assembles \/ UNCHANGED vars
  BY <1>5, <1>8 DEF Assembles, dispatchVars, vars
<1> QED
  BY <1>0, <1>1, <1>2, <1>4, <1>6, <1>7, <1>8, NoFaultStep DEF Next

(* While nothing has failed, a pending job whose routes have endpoints is  *)
(* worked on by its submission or by one of its own dispatchers: what      *)
(* docs/API.md says of "pending" goes wrong only by a fault or by a route  *)
(* without an endpoint, whose dispatcher returns without a record.         *)
THEOREM PendingIsServed ==
  Spec => [](faults = 0 =>
    \A j \in Jobs : status[j] = "pending" /\ expected[j] \cap NoEndpoint = {} => IsWorkedOn(j))
<1>1. Init => ServiceInv
  BY DEF Init, DbInit, ApiInit, DispatchInit, ServiceInv, Served
<1> DEFINE Goal ==
      faults = 0 =>
        \A j \in Jobs : status[j] = "pending" /\ expected[j] \cap NoEndpoint = {} => IsWorkedOn(j)
<1>2. IInv /\ ServiceInv => Goal
  <2> SUFFICES ASSUME IInv, ServiceInv, faults = 0, NEW j \in Jobs,
                      status[j] = "pending", expected[j] \cap NoEndpoint = {},
                      request[j] \notin Running
               PROVE  \E r \in Routes : disp[j][r] \in Dispatching \ Leaving
    BY DEF IsWorkedOn
  <2>1. /\ Served(j) /\ JobStore(j)
        /\ expected[j] \subseteq Routes
        /\ disp \in [Jobs -> [Routes -> Dispatching \union Finished \union {"none"}]]
        /\ \A r \in Routes : RouteOutcome(j, r)
    BY DEF ServiceInv, IInv, StoreInv, OutcomeInv, TypeInv, TypeOK, DbTypeOK, DispatchTypeOK
  <2>2. PICK r \in expected[j] : r \notin completed[j]
    BY <2>1 DEF JobStore
  <2>3. results[j][r] = "none" /\ r \in Routes
    BY <2>1, <2>2 DEF JobStore, Filled
  <2>4. disp[j][r] \notin {"none", "killed", "silent", "ok", "recorded"} \union Leaving
    BY <2>1, <2>2, <2>3 DEF Served, RouteOutcome, Leaving
  <2> QED
    BY <2>1, <2>3, <2>4 DEF Finished
<1>3. IInv /\ IInv' /\ ServiceInv /\ [Next]_vars => ServiceInv'
  BY ServiceStep
<1> QED
  BY <1>1, <1>2, <1>3, Invariance, PTL DEF Spec
=============================================================================
