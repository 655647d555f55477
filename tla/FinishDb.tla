------------------------------ MODULE FinishDb ------------------------------
(***************************************************************************)
(* The finish database (schema/01_finish_db.sql) and the statements that   *)
(* common/db.py runs on it.  Each operator below is one transaction: the   *)
(* code opens one get_conn() block per call, and PostgreSQL makes it       *)
(* atomic, the trigger and the NOTIFY it queues included.                  *)
(***************************************************************************)
EXTENDS Naturals, Sequences, FiniteSets

CONSTANTS
  Jobs,      \* query submissions
  Routes,    \* route ids of the active routing configuration
  MaxFaults  \* bound on database errors and process crashes together

ASSUME FaultAssumption == MaxFaults \in Nat

VARIABLES
  status,    \* pipeline_jobs.status; "none" while the row does not exist
  expected,  \* pipeline_jobs.expected_routes
  completed, \* pipeline_jobs.completed_routes
  results,   \* calc_results: what the row (job, route) holds
  answer,    \* final_answers: the calc_results rows the answer was built from
  listening, \* a session has executed LISTEN assembly_ready
  inbox,     \* payloads delivered to that session and not yet consumed
  notified,  \* how often pg_notify was performed for a job
  faults     \* errors and crashes so far

jobRows == <<status, expected, completed>>
channel == <<listening, inbox, notified>>
dbVars == <<jobRows, results, answer, channel, faults>>

Statuses == {"none", "pending", "ready", "assembled"}
Rows == {"none", "facts", "fallback"}
NoRows == [r \in Routes |-> "none"]

DbTypeOK ==
  /\ status \in [Jobs -> Statuses]
  /\ expected \in [Jobs -> SUBSET Routes]
  /\ completed \in [Jobs -> SUBSET Routes]
  /\ results \in [Jobs -> [Routes -> Rows]]
  /\ answer \in [Jobs -> [Routes -> Rows]]
  /\ listening \in BOOLEAN
  /\ inbox \in Seq(Jobs)
  /\ notified \in [Jobs -> Nat]
  /\ faults \in 0..MaxFaults

DbInit ==
  /\ status = [j \in Jobs |-> "none"]
  /\ expected = [j \in Jobs |-> {}]
  /\ completed = [j \in Jobs |-> {}]
  /\ results = [j \in Jobs |-> NoRows]
  /\ answer = [j \in Jobs |-> NoRows]
  /\ inbox = <<>>
  /\ notified = [j \in Jobs |-> 0]
  /\ faults = 0

-----------------------------------------------------------------------------
(* insert_pipeline_job: status and completed_routes take their defaults.   *)
InsertPipelineJob(j, R) ==
  /\ status' = [status EXCEPT ![j] = "pending"]
  /\ expected' = [expected EXCEPT ![j] = R]
  /\ UNCHANGED <<completed, results, answer, channel, faults>>

(* NOTIFY reaches the sessions that listen when the transaction commits,   *)
(* and no other: the server keeps nothing for a session that comes later.  *)
PgNotify(j) ==
  /\ inbox' = IF listening THEN Append(inbox, j) ELSE inbox
  /\ notified' = [notified EXCEPT ![j] = @ + 1]
  /\ UNCHANGED listening

(* Faulty variant: the route list is replaced, not merged. *)
ForgetsMerge(j, r) ==
  /\ completed' = [completed EXCEPT ![j] = {r}]
  /\ IF expected[j] \subseteq {r}
       THEN status' = [status EXCEPT ![j] = "ready"] /\ PgNotify(j)
       ELSE UNCHANGED <<status, channel>>

(* bruce_after_calc_result, the AFTER INSERT trigger.  The UPDATE of the   *)
(* job row takes its lock, so two inserts for one job are serialised and   *)
(* the second sees the routes the first one merged.                        *)
AfterCalcResult(j, r) ==
  LET merged == completed[j] \union {r} IN
  /\ completed' = [completed EXCEPT ![j] = merged]
  /\ IF expected[j] \subseteq merged
       THEN /\ status' = IF status[j] = "pending"
                           THEN [status EXCEPT ![j] = "ready"] ELSE status
            /\ PgNotify(j)
       ELSE UNCHANGED <<status, channel>>

(* insert_calc_result: INSERT ... ON CONFLICT (job_id, route_id) DO UPDATE. *)
(* Only the insertion fires the trigger.                                   *)
InsertResult(j, r, row) ==
  /\ results[j][r] = "none"
  /\ results' = [results EXCEPT ![j][r] = row]
  /\ AfterCalcResult(j, r)
  /\ UNCHANGED <<expected, answer, faults>>

(* Faulty variant: the trigger is AFTER INSERT OR UPDATE. *)
UpdateNotifies(j, r, row) ==
  /\ results[j][r] # "none"
  /\ results' = [results EXCEPT ![j][r] = row]
  /\ AfterCalcResult(j, r)
  /\ UNCHANGED <<expected, answer, faults>>

(* Faulty variant: and it lacks the condition on the old status. *)
UpdateReopens(j, r, row) ==
  /\ results[j][r] # "none"
  /\ results' = [results EXCEPT ![j][r] = row]
  /\ status' = IF expected[j] \subseteq completed[j]
                 THEN [status EXCEPT ![j] = "ready"] ELSE status
  /\ UNCHANGED <<expected, completed, answer, channel, faults>>

OverwriteResult(j, r, row) ==
  /\ results[j][r] # "none"
  /\ results' = [results EXCEPT ![j][r] = row]
  /\ UNCHANGED <<jobRows, answer, channel, faults>>

InsertCalcResult(j, r, row) ==
  InsertResult(j, r, row) \/ OverwriteResult(j, r, row)

(* Faulty variant: the answer is stored, the job not marked. *)
ForgetsStatus(j, rows) ==
  /\ answer' = [answer EXCEPT ![j] = rows]
  /\ UNCHANGED <<jobRows, results, channel, faults>>

(* write_final_answer: the upsert and the status change in one transaction. *)
WriteFinalAnswer(j, rows) ==
  /\ answer' = [answer EXCEPT ![j] = rows]
  /\ status' = [status EXCEPT ![j] = "assembled"]
  /\ UNCHANGED <<expected, completed, results, channel, faults>>

(* A statement that raises is rolled back by get_conn; a crash loses the   *)
(* open transaction.  Either way the tables stay as they are.              *)
Fault ==
  /\ faults < MaxFaults
  /\ faults' = faults + 1
  /\ UNCHANGED <<jobRows, results, answer>>
=============================================================================
