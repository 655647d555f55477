------------------------------ MODULE Pipeline ------------------------------
(***************************************************************************)
(* The query pipeline: the API, its dispatchers, the calc services and the *)
(* assembler, which share nothing but the finish database and the channel  *)
(* assembly_ready.                                                         *)
(***************************************************************************)
EXTENDS QueryApi, RouteDispatch, Assembler

vars == <<dbVars, apiVars, dispatchVars, asmVars>>

Init == DbInit /\ ApiInit /\ DispatchInit /\ AsmInit

-----------------------------------------------------------------------------
ApiHandles(j) ==
  (SubmitStep(j) \/ PollStep(j)) /\ UNCHANGED <<dispatchVars, asmVars>>

ApiStarts(j, r) ==
  StartDispatcher(j, r) /\ Begin(j, r) /\ UNCHANGED asmVars

Dispatches(j, r) ==
  /\ DispatcherStep(j, r) \/ RecordingFails(j, r)
  /\ UNCHANGED <<apiVars, asmVars>>

Calculates(j, r) == CalcStep(j, r) /\ UNCHANGED <<apiVars, asmVars>>

CalcServiceCrash(r) == CalcCrash(r) /\ UNCHANGED <<apiVars, asmVars>>

ApiCrash ==
  /\ Fault
  /\ ApiLosesRequests
  /\ DispatchersDie
  /\ UNCHANGED <<channel, asmVars>>

Assembles ==
  /\ AsmStep \/ ListenerFails \/ AssemblerRestart
  /\ UNCHANGED <<apiVars, dispatchVars>>

Next ==
  \/ \E j \in Jobs : ApiHandles(j)
  \/ \E j \in Jobs, r \in Routes :
       ApiStarts(j, r) \/ Dispatches(j, r) \/ Calculates(j, r)
  \/ \E r \in Routes : CalcServiceCrash(r)
  \/ ApiCrash
  \/ Assembles

Spec == Init /\ [][Next]_vars

(* Every thread that can run does run: a submission moves on, a dispatcher *)
(* moves on (its waits for an answer have timeouts; the exit of its        *)
(* executor waits for the worker, and can go on when that is idle), the    *)
(* listener moves on.                                                      *)
(* Nothing is assumed of the calc services, of the worker threads, or of   *)
(* the operator who restarts what died.                                    *)
Fairness ==
  /\ \A j \in Jobs :
       WF_vars(SubmitStep(j) /\ UNCHANGED <<dispatchVars, asmVars>>)
  /\ \A j \in Jobs, r \in Routes :
       /\ WF_vars(ApiStarts(j, r))
       /\ WF_vars(DispatcherStep(j, r) /\ UNCHANGED <<apiVars, asmVars>>)
  /\ WF_vars(AsmStep /\ UNCHANGED <<apiVars, dispatchVars>>)

FairSpec == Spec /\ Fairness

-----------------------------------------------------------------------------
TypeOK == DbTypeOK /\ ApiTypeOK /\ DispatchTypeOK /\ AsmTypeOK

Filled(row) == {r \in Routes : row[r] # "none"}

(* completed_routes, which the trigger maintains, names exactly the routes *)
(* that have a row, and the job has left "pending" exactly when they are   *)
(* all the routes it expects, whatever the order of the inserts.           *)
CompletedMatchesResults ==
  \A j \in Jobs :
    /\ completed[j] = Filled(results[j])
    /\ status[j] # "none" =>
         (status[j] \in {"ready", "assembled"} <=> expected[j] \subseteq completed[j])

(* assembly_ready is notified once for a job, when it becomes ready: late  *)
(* and repeated results never announce it again.                           *)
NotifiedOnce ==
  \A j \in Jobs :
    notified[j] = IF status[j] \in {"ready", "assembled"} THEN 1 ELSE 0

(* An answer is assembled from the results of all routes the job expects,  *)
(* and only the jobs marked assembled have one.                            *)
AnswerCoversRoutes ==
  \A j \in Jobs :
    Filled(answer[j]) = IF status[j] = "assembled" THEN expected[j] ELSE {}

InHand(j) == cur = j \/ \E i \in 1..Len(inbox) : inbox[i] = j

(* While nothing has failed or crashed, a ready job is in somebody's hand: *)
(* its notification waits for the listener or the listener works on it.    *)
ReadyIsInHand ==
  faults = 0 => \A j \in Jobs : status[j] = "ready" => InHand(j)

(* A dispatcher that saw status 200 leaves its route with the facts of the *)
(* calc service: no fallback of its own overwrites them, late handlers     *)
(* included; one that recorded a failure leaves the route with some row.   *)
OutcomeIsStored ==
  \A j \in Jobs, r \in Routes :
    /\ disp[j][r] = "ok" => results[j][r] = "facts"
    /\ disp[j][r] \in {"leaving", "recorded"} => results[j][r] # "none"

(* The two SELECTs of query_status never show a job as assembled without   *)
(* its result (docs/API.md: "assembled": the result is available).         *)
AssembledHasResult ==
  \A j \in Jobs : seen[j].status = "assembled" => seen[j].result

-----------------------------------------------------------------------------
Rank(s) == CASE s = "none" -> 0 [] s = "pending" -> 1
             [] s = "ready" -> 2 [] s = "assembled" -> 3

(* A job's status moves forward one stage at a time, in whatever order     *)
(* results, notifications and crashes come.                                *)
StatusMovesForward ==
  [][\A j \in Jobs : Rank(status'[j]) \in {Rank(status[j]), Rank(status[j]) + 1}]_status

(* Once an answer is stored it is not assembled again, not even after a    *)
(* result changes or the assembler restarts.                               *)
AnswerWrittenOnce ==
  [][\A j \in Jobs : answer[j] # NoRows => answer'[j] = answer[j]]_answer

(* A client that polls never sees a job go back, nor a result disappear. *)
ClientSeesProgress ==
  [][\A j \in Jobs : /\ Rank(seen'[j].status) >= Rank(seen[j].status)
                     /\ seen[j].result => seen'[j].result]_seen

-----------------------------------------------------------------------------
(* Every query that was accepted is assembled, whatever the calc services  *)
(* do, unless a process dies or a statement fails, or one of its routes is *)
(* configured without an endpoint.                                         *)
AcceptedIsAssembled ==
  \A j \in Jobs : (request[j] = "accepted" /\ expected[j] \cap NoEndpoint = {})
                    ~> (status[j] = "assembled" \/ faults > 0)

(* Every submission ends, with whatever is failing or crashing around it,  *)
(* and so does every dispatcher thread, unless it has done all it had to   *)
(* do and stands at the exit of its executor, whose worker never comes     *)
(* back from a post: nothing else it waits for can hold it.                *)
ThreadsEnd ==
  /\ \A j \in Jobs : (request[j] \in Running) ~> (request[j] \in {"accepted", "error"})
  /\ \A j \in Jobs, r \in Routes :
       (disp[j][r] \in Dispatching) ~>
         \/ disp[j][r] \in Finished
         \/ [](disp[j][r] \in Leaving /\ worker[j][r] # IdleWorker)

-----------------------------------------------------------------------------
(* The pipeline implements the lifecycle of JobLifecycle.tla. *)
Lifecycle == INSTANCE JobLifecycle
  WITH phase <- status, covered <- [j \in Jobs |-> Filled(answer[j])]

ImplementsLifecycle == Lifecycle!Spec

-----------------------------------------------------------------------------
(* What the documentation says of the stages. *)

IsWorkedOn(j) ==
  \/ request[j] \in Running
  \/ \E r \in Routes : disp[j][r] \in Dispatching \ Leaving
  \/ \E r \in Routes, a \in Attempts : call[j][r][a] \in InCalc

(* docs/API.md: "pending" means the query is being worked on and the calc  *)
(* services are still working.                                             *)
PendingIsWorkedOn == \A j \in Jobs : status[j] = "pending" => IsWorkedOn(j)

(* docs/API.md: "ready" means the assembly is imminent; so a ready job     *)
(* whose notification has reached the assembler is assembled, unless there *)
(* is no assembler any more.                                               *)
ReadyIsAssembled ==
  \A j \in Jobs :
    (status[j] = "ready" /\ InHand(j)) ~> (status[j] = "assembled" \/ []~ listening)

(* README.md: equal input always gives equal output. *)
SameRoutesSameAnswer ==
  \A i, j \in Jobs :
    status[i] = "assembled" /\ status[j] = "assembled" /\ expected[i] = expected[j]
      => answer[i] = answer[j]
=============================================================================
