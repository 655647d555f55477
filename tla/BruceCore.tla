----------------------------- MODULE BruceCore -----------------------------
(***************************************************************************)
(* One run of bruce_core (cpp/bruce_core.cpp, main): the whitelist, the    *)
(* routes that match, and IPCClient::fire for each of them in turn         *)
(* (cpp/ipc_client.cpp).  fire counts the request, starts a detached       *)
(* thread that writes the payload to a file and runs curl, and returns.    *)
(* Nothing waits for the threads: when main returns they end wherever they *)
(* are, except that a curl process already started goes on by itself.      *)
(***************************************************************************)
EXTENDS Integers, FiniteSets

CONSTANTS
  MaxMatches,  \* bound on the routes resolve() returns
  MaxPending  \* MAX_PENDING_JOBS

ASSUME CoreAssumption == MaxMatches \in Nat \ {0} /\ MaxPending \in Nat

Requests == 1 .. MaxMatches

VARIABLES
  core_main,     \* where main is, or how the process ended
  matched,       \* how many routes resolve() returned
  route_no,      \* the route the loop of main is at
  current,       \* fire's local copy of the counter
  pending_jobs,  \* IPCClient::pending_jobs_
  thread,        \* the thread of a request
  request,       \* what became of its POST
  file           \* whether its payload file is in /tmp

mainVars == <<core_main, matched, route_no, current>>
coreVars == <<mainVars, pending_jobs, thread, request, file>>

Firing == {"load", "exchange", "spawn"}
Ended == {"ok", "blocked", "backpressure", "aborted"}
Counted == {"counted", "started", "written", "curl", "ended", "removed"}

CoreTypeOK ==
  /\ core_main \in Firing \union Ended \union {"start"}
  /\ matched \in 0 .. MaxMatches
  /\ route_no \in 1 .. MaxMatches + 1
  /\ current \in Nat
  /\ pending_jobs \in Nat
  /\ thread \in [Requests -> Counted \union {"none", "done", "orphan", "killed"}]
  /\ request \in [Requests -> {"unsent", "sent", "failed"}]
  /\ file \in [Requests -> BOOLEAN]

CoreInit ==
  /\ core_main = "start"
  /\ matched = 0
  /\ route_no = 1
  /\ current = 0
  /\ pending_jobs = 0
  /\ thread = [k \in Requests |-> "none"]
  /\ request = [k \in Requests |-> "unsent"]
  /\ file = [k \in Requests |-> FALSE]

(* The process ends: its threads end, a running curl does not. *)
Exit(code) ==
  /\ core_main' = code
  /\ thread' = [k \in Requests |->
                  CASE thread[k] = "curl" -> "orphan"
                    [] thread[k] \in Counted \ {"curl"} -> "killed"
                    [] OTHER -> thread[k]]
  /\ UNCHANGED <<matched, route_no, current, pending_jobs, request, file>>

-----------------------------------------------------------------------------
(* main *)

(* is_whitelisted is false: exit code 2. *)
Block == core_main = "start" /\ Exit("blocked")

(* reload_from_database and resolve: at least the built-in route. *)
ResolveRoutes ==
  /\ core_main = "start"
  /\ core_main' = "load"
  /\ matched' \in Requests
  /\ UNCHANGED <<route_no, current, pending_jobs, thread, request, file>>

(* fire: pending_jobs_.load. *)
LoadPending ==
  /\ core_main = "load"
  /\ route_no <= matched
  /\ core_main' = "exchange"
  /\ current' = pending_jobs
  /\ UNCHANGED <<matched, route_no, pending_jobs, thread, request, file>>

(* compare_exchange_weak fails, spuriously or not, and reloads. *)
ReloadPending ==
  /\ core_main = "exchange"
  /\ current < MaxPending
  /\ current' = pending_jobs
  /\ UNCHANGED <<core_main, matched, route_no, pending_jobs, thread, request, file>>

(* Faulty variant: the counter is stored without comparing. *)
StoresPending ==
  /\ core_main = "exchange"
  /\ current < MaxPending
  /\ pending_jobs' = current + 1
  /\ core_main' = "spawn"
  /\ thread' = [thread EXCEPT ![route_no] = "counted"]
  /\ UNCHANGED <<matched, route_no, current, request, file>>

(* compare_exchange_weak succeeds. *)
Count ==
  /\ core_main = "exchange"
  /\ current < MaxPending
  /\ pending_jobs = current
  /\ pending_jobs' = current + 1
  /\ core_main' = "spawn"
  /\ thread' = [thread EXCEPT ![route_no] = "counted"]
  /\ UNCHANGED <<matched, route_no, current, request, file>>

(* Faulty variant: the last slot is never given out. *)
RefusesTooEarly ==
  /\ core_main = "exchange"
  /\ current + 1 >= MaxPending
  /\ Exit("backpressure")

(* BACKPRESSURE: exit code 3. *)
Refuse ==
  /\ core_main = "exchange"
  /\ current >= MaxPending
  /\ Exit("backpressure")

(* std::thread(...).detach(), and ACCEPTED. *)
Spawn ==
  /\ core_main = "spawn"
  /\ core_main' = "load"
  /\ route_no' = route_no + 1
  /\ thread' = [thread EXCEPT ![route_no] = "started"]
  /\ UNCHANGED <<matched, current, pending_jobs, request, file>>

(* std::thread cannot start: nothing catches system_error. *)
SpawnFails == core_main = "spawn" /\ Exit("aborted")

(* "Dispatched query to n route(s).", exit code 0. *)
FinishCore ==
  /\ core_main = "load"
  /\ route_no > matched
  /\ Exit("ok")

MainStep ==
  \/ Block \/ ResolveRoutes \/ LoadPending \/ ReloadPending \/ Count \/ Refuse
  \/ Spawn \/ SpawnFails \/ FinishCore

-----------------------------------------------------------------------------
(* The thread of request k *)

(* mkstemps, and the payload is written. *)
WritePayload(k) ==
  /\ thread[k] = "started"
  /\ thread' = [thread EXCEPT ![k] = "written"]
  /\ file' = [file EXCEPT ![k] = TRUE]
  /\ UNCHANGED <<mainVars, pending_jobs, request>>

(* mkstemps fails: nothing is sent. *)
NoPayload(k) ==
  /\ thread[k] = "started"
  /\ thread' = [thread EXCEPT ![k] = "removed"]
  /\ UNCHANGED <<mainVars, pending_jobs, request, file>>

(* std::system starts curl. *)
RunCurl(k) ==
  /\ thread[k] = "written"
  /\ thread' = [thread EXCEPT ![k] = "curl"]
  /\ UNCHANGED <<mainVars, pending_jobs, request, file>>

(* curl ends, within 5 seconds; its exit status is ignored. *)
CurlEnds(k) ==
  /\ thread[k] \in {"curl", "orphan"}
  /\ \E outcome \in {"sent", "failed"} :
       request' = [request EXCEPT ![k] = outcome]
  /\ thread' = [thread EXCEPT ![k] = IF @ = "curl" THEN "ended" ELSE "killed"]
  /\ UNCHANGED <<mainVars, pending_jobs, file>>

(* std::remove *)
RemovePayload(k) ==
  /\ thread[k] = "ended"
  /\ thread' = [thread EXCEPT ![k] = "removed"]
  /\ file' = [file EXCEPT ![k] = FALSE]
  /\ UNCHANGED <<mainVars, pending_jobs, request>>

(* fetch_sub *)
Uncount(k) ==
  /\ thread[k] = "removed"
  /\ thread' = [thread EXCEPT ![k] = "done"]
  /\ pending_jobs' = pending_jobs - 1
  /\ UNCHANGED <<mainVars, request, file>>

ThreadStep(k) ==
  \/ WritePayload(k) \/ NoPayload(k) \/ RunCurl(k) \/ CurlEnds(k)
  \/ RemovePayload(k) \/ Uncount(k)

CoreNext == MainStep \/ \E k \in Requests : ThreadStep(k)

CoreSpec == CoreInit /\ [][CoreNext]_coreVars

(* main runs, and an exchange that could succeed does not fail for ever.   *)
(* Nothing is assumed of the threads: the process may end before they run. *)
CoreFairness == WF_coreVars(MainStep) /\ WF_coreVars(Count)

-----------------------------------------------------------------------------
Unfinished == {k \in Requests : thread[k] \in Counted \union {"orphan", "killed"}}

(* The counter is the number of requests accepted and not finished, and    *)
(* within the limit, while main's exchanges race the threads' decrements.  *)
CountsRequests == pending_jobs = Cardinality(Unfinished) /\ pending_jobs <= MaxPending

(* A run with no more routes than the limit is never refused, however      *)
(* stale the copy of the counter is that fire decides on.                  *)
RefusedOnlyAboveLimit == core_main = "backpressure" => matched > MaxPending

(* fire implements the slots of SlotPool.tla. *)
CoreSlots == INSTANCE SlotPool
  WITH Takers <- Requests, holders <- Unfinished, free <- MaxPending - pending_jobs

FireImplementsSlots == CoreSlots!Spec

(* docs/CLI.md, query mode: the binary dispatches the request with curl to *)
(* the endpoints of the matching routes, and prints to how many.           *)
DispatchedIsPosted ==
  core_main = "ok" => \A k \in 1 .. matched : request[k] # "unsent" \/ thread[k] = "orphan"
=============================================================================
