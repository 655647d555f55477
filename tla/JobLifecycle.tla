---------------------------- MODULE JobLifecycle ----------------------------
(***************************************************************************)
(* What the pipeline promises about one row of pipeline_jobs, with no      *)
(* dispatcher, calc service, notification or listener in sight: a job is   *)
(* created with the routes it waits for, its routes complete one by one,   *)
(* the last of them makes it ready, and one answer is assembled, from the  *)
(* results of all of them.  Pipeline.tla implements this.                  *)
(***************************************************************************)
CONSTANTS
  Jobs,      \* query submissions that get a row in pipeline_jobs
  Routes     \* route ids of the active routing configuration

VARIABLES
  phase,     \* the status column; "none" before the row exists
  expected,  \* expected_routes
  completed, \* completed_routes
  covered    \* the routes whose results the final answer was built from

vars == <<phase, expected, completed, covered>>

TypeOK ==
  /\ phase \in [Jobs -> {"none", "pending", "ready", "assembled"}]
  /\ expected \in [Jobs -> SUBSET Routes]
  /\ completed \in [Jobs -> SUBSET Routes]
  /\ covered \in [Jobs -> SUBSET Routes]

Init ==
  /\ phase = [j \in Jobs |-> "none"]
  /\ expected = [j \in Jobs |-> {}]
  /\ completed = [j \in Jobs |-> {}]
  /\ covered = [j \in Jobs |-> {}]

Create(j, R) ==
  /\ phase[j] = "none"
  /\ R # {}
  /\ phase' = [phase EXCEPT ![j] = "pending"]
  /\ expected' = [expected EXCEPT ![j] = R]
  /\ UNCHANGED <<completed, covered>>

Complete(j, r) ==
  /\ phase[j] = "pending"
  /\ r \in expected[j] \ completed[j]
  /\ completed' = [completed EXCEPT ![j] = @ \union {r}]
  /\ phase' = IF expected[j] \subseteq completed[j] \union {r}
                THEN [phase EXCEPT ![j] = "ready"]
                ELSE phase
  /\ UNCHANGED <<expected, covered>>

Assemble(j) ==
  /\ phase[j] = "ready"
  /\ phase' = [phase EXCEPT ![j] = "assembled"]
  /\ covered' = [covered EXCEPT ![j] = expected[j]]
  /\ UNCHANGED <<expected, completed>>

Next ==
  \E j \in Jobs :
    \/ \E R \in SUBSET Routes : Create(j, R)
    \/ \E r \in Routes : Complete(j, r)
    \/ Assemble(j)

Spec == Init /\ [][Next]_vars
=============================================================================
