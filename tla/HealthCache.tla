---------------------------- MODULE HealthCache ----------------------------
(***************************************************************************)
(* _route_health (api/main.py): the verdict on an endpoint that all        *)
(* dispatcher threads share in _HEALTH_CACHE, without a lock.  One         *)
(* endpoint is modelled; entries of different endpoints are independent.   *)
(*                                                                         *)
(* Time is counted in units of which the time to live has Ttl.  The code   *)
(* of a thread takes no time; it waits only for the check, and for that at *)
(* most Timeout.  The clock is not set back.                               *)
(***************************************************************************)
EXTENDS Integers

CONSTANTS
  Dispatchers,  \* dispatcher threads
  Ttl,      \* _HEALTH_TTL_SECONDS
  Timeout,  \* the largest timeout_s a dispatcher passes: min(2.0, timeout_ms / 1000)
  MaxTime   \* bound on the clock

ASSUME HealthAssumption ==
  /\ Ttl \in Nat \ {0}
  /\ Timeout \in Nat
  /\ Timeout <= Ttl
  /\ MaxTime \in Nat

VARIABLES
  now,    \* time.time()
  up,     \* the endpoint answers 200
  cache,  \* _HEALTH_CACHE[endpoint]
  checking,  \* where a thread is in _route_health
  start,  \* its local variable now
  found   \* what it knows of the endpoint

healthVars == <<now, up, cache, checking, start, found>>

(* A verdict, and the moment the endpoint showed it (not in the code). *)
Verdicts == [healthy : BOOLEAN, shown : Nat]

HealthTypeOK ==
  /\ now \in Nat
  /\ up \in BOOLEAN
  /\ cache.stored \in BOOLEAN
  /\ cache.stamp \in Nat
  /\ cache.verdict \in Verdicts
  /\ checking \in [Dispatchers -> {"idle", "lookup", "check", "reply", "store", "done"}]
  /\ start \in [Dispatchers -> Nat]
  /\ found \in [Dispatchers -> Verdicts]

NoVerdict == [healthy |-> FALSE, shown |-> 0]

HealthInit ==
  /\ now = 0
  /\ up \in BOOLEAN
  /\ cache = [stored |-> FALSE, stamp |-> 0, verdict |-> NoVerdict]
  /\ checking = [t \in Dispatchers |-> "idle"]
  /\ start = [t \in Dispatchers |-> 0]
  /\ found = [t \in Dispatchers |-> NoVerdict]

-----------------------------------------------------------------------------
(* A dispatcher calls _route_health, and reads the clock. *)
Call(t) ==
  /\ checking[t] \in {"idle", "done"}
  /\ checking' = [checking EXCEPT ![t] = "lookup"]
  /\ start' = [start EXCEPT ![t] = now]
  /\ UNCHANGED <<now, up, cache, found>>

(* A young entry is the verdict. *)
Hit(t) ==
  /\ checking[t] = "lookup"
  /\ cache.stored
  /\ start[t] - cache.stamp < Ttl
  /\ found' = [found EXCEPT ![t] = cache.verdict]
  /\ checking' = [checking EXCEPT ![t] = "done"]
  /\ UNCHANGED <<now, up, cache, start>>

(* No entry, or an old one: GET /health in an executor of its own. *)
Miss(t) ==
  /\ checking[t] = "lookup"
  /\ ~ (cache.stored /\ start[t] - cache.stamp < Ttl)
  /\ checking' = [checking EXCEPT ![t] = "check"]
  /\ UNCHANGED <<now, up, cache, start, found>>

(* The service handles the request: what it answers is true of now. *)
Probe(t) ==
  /\ checking[t] = "check"
  /\ found' = [found EXCEPT ![t] = [healthy |-> up, shown |-> now]]
  /\ checking' = [checking EXCEPT ![t] = "reply"]
  /\ UNCHANGED <<now, up, cache, start>>

(* Its answer arrives, 200 or not. *)
Answered(t) ==
  /\ checking[t] = "reply"
  /\ checking' = [checking EXCEPT ![t] = "store"]
  /\ UNCHANGED <<now, up, cache, start, found>>

(* The check raises, or result(timeout=...) does: an endpoint that is down *)
(* or merely slow.                                                         *)
NoAnswer(t) ==
  /\ checking[t] \in {"check", "reply"}
  /\ found' = [found EXCEPT ![t] = [healthy |-> FALSE, shown |-> now]]
  /\ checking' = [checking EXCEPT ![t] = "store"]
  /\ UNCHANGED <<now, up, cache, start>>

(* Faulty variant: the entry is stamped when the check ends. *)
StampsAtEnd(t) ==
  /\ checking[t] = "store"
  /\ cache' = [stored |-> TRUE, stamp |-> now, verdict |-> found[t]]
  /\ checking' = [checking EXCEPT ![t] = "done"]
  /\ UNCHANGED <<now, up, start, found>>

(* _HEALTH_CACHE[endpoint] = (now, healthy), over whatever is there by now. *)
Store(t) ==
  /\ checking[t] = "store"
  /\ cache' = [stored |-> TRUE, stamp |-> start[t], verdict |-> found[t]]
  /\ checking' = [checking EXCEPT ![t] = "done"]
  /\ UNCHANGED <<now, up, start, found>>

-----------------------------------------------------------------------------
(* The calc service comes up or goes down. *)
Flip == up' = ~ up /\ UNCHANGED <<now, cache, checking, start, found>>

(* Time passes while threads wait for their checks or have returned. *)
Tick ==
  /\ now < MaxTime
  /\ \A t \in Dispatchers :
       \/ checking[t] \in {"idle", "done"}
       \/ checking[t] \in {"check", "reply"} /\ now < start[t] + Timeout
  /\ now' = now + 1
  /\ checking' = [t \in Dispatchers |-> IF checking[t] = "done" THEN "idle" ELSE checking[t]]
  /\ UNCHANGED <<up, cache, start, found>>

HealthNext ==
  \/ \E t \in Dispatchers :
       \/ Call(t) \/ Hit(t) \/ Miss(t)
       \/ Probe(t) \/ Answered(t) \/ NoAnswer(t) \/ Store(t)
  \/ Flip
  \/ Tick

HealthSpec == HealthInit /\ [][HealthNext]_healthVars

-----------------------------------------------------------------------------
(* A dispatcher that acts on a verdict acts on something the endpoint      *)
(* showed less than the time to live before the call, or during it: checks *)
(* of other threads that end late and overwrite newer entries included.    *)
VerdictIsRecent ==
  \A t \in Dispatchers : checking[t] = "done" =>
    /\ found[t].shown > start[t] - Ttl
    /\ found[t].shown >= now - Ttl
=============================================================================
