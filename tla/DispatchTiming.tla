---------------------------- MODULE DispatchTiming ----------------------------
(***************************************************************************)
(* The clock of one dispatcher (_dispatch_route in api/main.py): when it   *)
(* calls its calc service and when it gives up.  The POST of an attempt    *)
(* runs in the only worker of an executor; an attempt that has waited long *)
(* enough goes on without it, so the next POST may find the worker busy.   *)
(* Time is counted in hundredths of a second; the code itself takes none.  *)
(***************************************************************************)
EXTENDS Integers

CONSTANTS
  Settings,  \* of routes: [timeout, retries, backoff, fail_fast]
  Durations  \* how long a health check or a POST takes

ASSUME TimingAssumption ==
  /\ Settings \subseteq [timeout : Nat \ {0}, retries : Nat, backoff : Nat, fail_fast : Nat]
  /\ Durations \subseteq Nat

VARIABLES
  setting,  \* the route's
  elapsed,  \* perf_counter() - started
  busy,     \* when the worker is free, by the same clock
  attempt,
  unsent,   \* attempts that were cancelled before the worker took them up
  timing    \* where the dispatcher is

timingVars == <<setting, elapsed, busy, attempt, unsent, timing>>

TimingTypeOK ==
  /\ setting \in Settings
  /\ elapsed \in Nat /\ busy \in Nat
  /\ attempt \in 0..setting.retries
  /\ unsent \in Nat
  /\ timing \in {"health", "loop", "failed", "ok", "recorded"}

TimingInit ==
  /\ setting \in Settings
  /\ elapsed = 0 /\ busy = 0 /\ attempt = 0 /\ unsent = 0
  /\ timing = "health"

-----------------------------------------------------------------------------
Smaller(m, n) == IF m < n THEN m ELSE n
Later(m, n) == IF m > n THEN m ELSE n

HealthTimeout == Smaller(200, setting.timeout)
AttemptTimeout == Smaller(90, setting.timeout)  \* per_attempt_timeout

(* Faulty variant: the timeout for the answer is the one granite has for a *)
(* generation, 45 seconds.                                                 *)
WaitsForModel == 4570

(* httpx.Timeout: connecting, sending and the wait for the answer, which   *)
(* is taken to come in one piece (httpx restarts its clock at every read). *)
PostTimeout ==
  2 * Smaller(35, AttemptTimeout) + Smaller(45, AttemptTimeout)

(* 2 to the n *)
Doubled[n \in Nat] == IF n = 0 THEN 1 ELSE 2 * Doubled[n - 1]

(* The pause doubles, up to 1.5 seconds. *)
Pause == Smaller(setting.backoff * Doubled[attempt], 150)

(* A health check that is answered, or cut off, or whose verdict is cached *)
(* and takes no time; not healthy: the failure is recorded.                *)
CheckHealth ==
  /\ timing = "health"
  /\ \E d \in Durations : elapsed' = Smaller(d, HealthTimeout)
  /\ timing' \in {"loop", "recorded"}
  /\ UNCHANGED <<setting, busy, attempt, unsent>>

FailFast ==
  /\ timing = "loop" /\ elapsed >= setting.fail_fast
  /\ timing' = "recorded"
  /\ UNCHANGED <<setting, elapsed, busy, attempt, unsent>>

(* Faulty variant: the deadline is not looked at. *)
InTimeAlways == timing = "loop"

InTime == timing = "loop" /\ elapsed < setting.fail_fast

(* The worker takes the POST up and it ends, by its timeouts if need be,   *)
(* before the attempt does: status 200, another one, or an exception.      *)
Answered ==
  /\ InTime
  /\ \E d \in Durations :
       LET ends == Later(busy, elapsed) + Smaller(d, PostTimeout) IN
       /\ ends <= elapsed + AttemptTimeout
       /\ elapsed' = ends /\ busy' = ends
  /\ timing' \in {"ok", "failed"}
  /\ UNCHANGED <<setting, attempt, unsent>>

(* result(timeout=...) raises; cancel() does not stop a POST under way. *)
AttemptTimesOut ==
  /\ InTime
  /\ busy < elapsed + AttemptTimeout
  /\ \E d \in Durations :
       LET ends == Later(busy, elapsed) + Smaller(d, PostTimeout) IN
       /\ ends >= elapsed + AttemptTimeout
       /\ busy' = ends
  /\ elapsed' = elapsed + AttemptTimeout
  /\ timing' = "failed"
  /\ UNCHANGED <<setting, attempt, unsent>>

(* The worker was busy all the while: cancel() takes the POST back. *)
Cancelled ==
  /\ InTime
  /\ busy >= elapsed + AttemptTimeout
  /\ unsent' = unsent + 1
  /\ elapsed' = elapsed + AttemptTimeout
  /\ timing' = "failed"
  /\ UNCHANGED <<setting, busy, attempt>>

TryAgain ==
  /\ timing = "failed" /\ attempt < setting.retries
  /\ elapsed' = elapsed + Pause
  /\ attempt' = attempt + 1
  /\ timing' = "loop"
  /\ UNCHANGED <<setting, busy, unsent>>

LastAttempt ==
  /\ timing = "failed" /\ attempt = setting.retries
  /\ timing' = "recorded"
  /\ UNCHANGED <<setting, elapsed, busy, attempt, unsent>>

TimingNext ==
  \/ CheckHealth \/ FailFast \/ Answered \/ AttemptTimesOut \/ Cancelled
  \/ TryAgain \/ LastAttempt

TimingSpec == TimingInit /\ [][TimingNext]_timingVars

-----------------------------------------------------------------------------
(* docs/ARCHITECTURE.md, phase 6: the retries are bounded by the fail-fast *)
(* timeout.  It is looked at before an attempt only, so what is recorded   *)
(* is recorded one attempt and one pause later at worst, or right after    *)
(* the health check; then the route's row no longer keeps its job back.    *)
RecordedInTime ==
  timing = "recorded" =>
    elapsed <= Later(HealthTimeout, setting.fail_fast + AttemptTimeout + 150)

(* Every attempt that is counted reaches the worker: a POST that outlives  *)
(* its attempt has ended before the next one would have to be taken back.  *)
(* This rests on the timeouts of httpx and, for a route with a timeout of  *)
(* at least 0.9 s, on a pause of at least 0.1 s.                           *)
EveryAttemptIsSent ==
  setting.timeout >= 90 /\ setting.backoff >= 10 => unsent = 0
=============================================================================
