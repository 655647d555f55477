----------------------------- MODULE Assembler -----------------------------
(***************************************************************************)
(* The assembler service (assembler/service.py): one listener thread that  *)
(* takes notifications one at a time and runs _assemble_job for each.  An  *)
(* exception anywhere ends the thread for good; only a restart of the      *)
(* process starts another.                                                 *)
(***************************************************************************)
EXTENDS FinishDb

CONSTANT NoJob

ASSUME NoJobAssumption == NoJob \notin Jobs

VARIABLES
  listener,  \* where the listener thread is
  cur,       \* the job _assemble_job was called for
  rows       \* what fetch_calc_results returned

asmVars == <<listener, cur, rows>>

Working == {"fetch", "write", "trace"}

AsmTypeOK ==
  /\ listener \in Working \union {"connect", "idle", "dead"}
  /\ cur \in Jobs \union {NoJob}
  /\ rows \in [Routes -> Rows]

(* The services start before the API serves queries. *)
AsmInit ==
  /\ listener = "idle"
  /\ cur = NoJob
  /\ rows = NoRows
  /\ listening = TRUE

(* psycopg2.connect and LISTEN, in a new process. *)
Listen ==
  /\ listener = "connect"
  /\ listener' = "idle"
  /\ listening' = TRUE
  /\ UNCHANGED <<cur, rows, jobRows, results, answer, inbox, notified, faults>>

(* Faulty variant: the list is emptied when its head is taken. *)
DropsTheRest ==
  /\ listener = "idle"
  /\ inbox # <<>>
  /\ cur' = Head(inbox)
  /\ inbox' = <<>>
  /\ listener' = "fetch"
  /\ UNCHANGED <<rows, jobRows, results, answer, listening, notified, faults>>

(* conn.notifies.pop(0). *)
TakeNotification ==
  /\ listener = "idle"
  /\ inbox # <<>>
  /\ cur' = Head(inbox)
  /\ inbox' = Tail(inbox)
  /\ listener' = "fetch"
  /\ UNCHANGED <<rows, jobRows, results, answer, listening, notified, faults>>

(* fetch_calc_results; without rows _assemble_job returns at once. *)
FetchResults ==
  /\ listener = "fetch"
  /\ rows' = results[cur]
  /\ listener' = IF results[cur] = NoRows THEN "idle" ELSE "write"
  /\ cur' = IF results[cur] = NoRows THEN NoJob ELSE cur
  /\ UNCHANGED dbVars

(* assemble, then write_final_answer. *)
WriteAnswer ==
  /\ listener = "write"
  /\ WriteFinalAnswer(cur, rows)
  /\ listener' = "trace"
  /\ UNCHANGED <<cur, rows>>

(* insert_trace and the counter; back to the loop. *)
TraceAssembly ==
  /\ listener = "trace"
  /\ listener' = "idle"
  /\ cur' = NoJob
  /\ rows' = NoRows
  /\ UNCHANGED dbVars

(* The connection closes: what it had not consumed is gone. *)
StopListening ==
  /\ listening' = FALSE
  /\ inbox' = <<>>
  /\ cur' = NoJob
  /\ rows' = NoRows
  /\ UNCHANGED notified

(* A database error in _assemble_job, or on the listening connection. *)
ListenerFails ==
  /\ listener \in Working \union {"connect", "idle"}
  /\ Fault
  /\ listener' = "dead"
  /\ StopListening

(* The process stops, wherever the listener is, and is started again. *)
AssemblerRestart ==
  /\ Fault
  /\ listener' = "connect"
  /\ StopListening

AsmStep ==
  Listen \/ TakeNotification \/ FetchResults \/ WriteAnswer \/ TraceAssembly
=============================================================================
