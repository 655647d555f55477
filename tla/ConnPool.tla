------------------------------ MODULE ConnPool ------------------------------
(***************************************************************************)
(* The connection pool of common/db.py: _get_pool, which creates it at the *)
(* first use, and get_conn, which lends a connection to one block of code. *)
(* The threads are those of one Python process; getconn and putconn of     *)
(* psycopg2's ThreadedConnectionPool hold the pool's lock.                 *)
(***************************************************************************)
EXTENDS Naturals, FiniteSets

CONSTANTS
  Borrowers,
  NoPool,   \* None
  MinConn,  \* minconn (5)
  MaxConn   \* maxconn (50)

ASSUME PoolAssumption ==
  /\ IsFiniteSet(Borrowers)
  /\ NoPool \notin Borrowers
  /\ MinConn \in Nat
  /\ MaxConn \in Nat
  /\ MinConn <= MaxConn

(* A thread creates one pool at most: pools are named after their creator. *)
Pools == Borrowers

VARIABLES
  global,  \* _pool
  made,    \* the pools that were created
  free,    \* how many idle connections a pool keeps
  lent,    \* the threads that hold a connection of a pool
  borrowing,  \* where a thread is in get_conn
  local,   \* its local variable pool
  lost     \* its connection was closed under it

poolVars == <<global, made, free, lent, borrowing, local, lost>>

Holding == {"body", "put"}

PoolTypeOK ==
  /\ global \in Pools \union {NoPool}
  /\ made \subseteq Pools
  /\ free \in [Pools -> Nat]
  /\ lent \in [Pools -> SUBSET Borrowers]
  /\ borrowing \in [Borrowers -> {"idle", "create", "return", "getconn"} \union Holding]
  /\ local \in [Borrowers -> Pools \union {NoPool}]
  /\ lost \in [Borrowers -> BOOLEAN]
  /\ \A t \in Borrowers : borrowing[t] \in {"getconn"} \union Holding => local[t] # NoPool

PoolInit ==
  /\ global = NoPool
  /\ made = {}
  /\ free = [p \in Pools |-> 0]
  /\ lent = [p \in Pools |-> {}]
  /\ borrowing = [t \in Borrowers |-> "idle"]
  /\ local = [t \in Borrowers |-> NoPool]
  /\ lost = [t \in Borrowers |-> FALSE]

-----------------------------------------------------------------------------
(* if _pool is None *)
Look(t) ==
  /\ borrowing[t] = "idle"
  /\ borrowing' = [borrowing EXCEPT ![t] = IF global = NoPool THEN "create" ELSE "return"]
  /\ UNCHANGED <<global, made, free, lent, local, lost>>

(* The constructor opens minconn connections; its result is assigned over  *)
(* whatever another thread has assigned meanwhile.                         *)
Create(t) ==
  /\ borrowing[t] = "create"
  /\ global' = t
  /\ made' = made \union {t}
  /\ free' = [free EXCEPT ![t] = MinConn]
  /\ borrowing' = [borrowing EXCEPT ![t] = "return"]
  /\ UNCHANGED <<lent, local, lost>>

(* The server refuses: the exception leaves get_conn, _pool stays None. *)
CreateFails(t) ==
  /\ borrowing[t] = "create"
  /\ borrowing' = [borrowing EXCEPT ![t] = "idle"]
  /\ UNCHANGED <<global, made, free, lent, local, lost>>

(* return _pool reads the global variable again. *)
Return(t) ==
  /\ borrowing[t] = "return"
  /\ local' = [local EXCEPT ![t] = global]
  /\ borrowing' = [borrowing EXCEPT ![t] = "getconn"]
  /\ UNCHANGED <<global, made, free, lent, lost>>

-----------------------------------------------------------------------------
Lend(t, p) ==
  /\ lent' = [lent EXCEPT ![p] = @ \union {t}]
  /\ borrowing' = [borrowing EXCEPT ![t] = "body"]
  /\ lost' = [lost EXCEPT ![t] = FALSE]
  /\ UNCHANGED <<global, made, local>>

(* getconn takes an idle connection. *)
GetIdle(t) ==
  LET p == local[t] IN
  /\ borrowing[t] = "getconn"
  /\ free[p] > 0
  /\ free' = [free EXCEPT ![p] = @ - 1]
  /\ Lend(t, p)

(* It has none, and opens one. *)
GetNew(t) ==
  LET p == local[t] IN
  /\ borrowing[t] = "getconn"
  /\ free[p] = 0
  /\ Cardinality(lent[p]) < MaxConn
  /\ Lend(t, p)
  /\ UNCHANGED free

(* The pool is exhausted, or the new connection is refused: an exception   *)
(* before the try statement, with nothing to give back.                    *)
GetFails(t) ==
  /\ borrowing[t] = "getconn"
  /\ free[local[t]] = 0
  /\ borrowing' = [borrowing EXCEPT ![t] = "idle"]
  /\ UNCHANGED <<global, made, free, lent, local, lost>>

(* The block ends and commits, or raises and is rolled back; a connection  *)
(* that broke down is closed from then on, rollback() raises as well.      *)
BodyEnds(t) ==
  /\ borrowing[t] = "body"
  /\ borrowing' = [borrowing EXCEPT ![t] = "put"]
  /\ \E broken \in BOOLEAN : lost' = [lost EXCEPT ![t] = broken]
  /\ UNCHANGED <<global, made, free, lent, local>>

(* Faulty variant: _get_pool().putconn(conn). *)
PutsToGlobal(t) ==
  LET p == global IN
  /\ borrowing[t] = "put"
  /\ lent' = [lent EXCEPT ![p] = @ \ {t}]
  /\ free' = IF free[p] < MinConn /\ ~ lost[t] /\ t \in lent[p]
               THEN [free EXCEPT ![p] = @ + 1] ELSE free
  /\ borrowing' = [borrowing EXCEPT ![t] = "idle"]
  /\ UNCHANGED <<global, made, local, lost>>

(* finally: pool.putconn(conn).  A closed connection is dropped, and one   *)
(* above minconn is closed.                                                *)
Put(t) ==
  LET p == local[t] IN
  /\ borrowing[t] = "put"
  /\ lent' = [lent EXCEPT ![p] = @ \ {t}]
  /\ free' = IF free[p] < MinConn /\ ~ lost[t]
               THEN [free EXCEPT ![p] = @ + 1] ELSE free
  /\ borrowing' = [borrowing EXCEPT ![t] = "idle"]
  /\ UNCHANGED <<global, made, local, lost>>

PoolNext ==
  \E t \in Borrowers :
    \/ Look(t) \/ Create(t) \/ CreateFails(t) \/ Return(t)
    \/ GetIdle(t) \/ GetNew(t) \/ GetFails(t)
    \/ BodyEnds(t) \/ Put(t)

PoolSpec == PoolInit /\ [][PoolNext]_poolVars

-----------------------------------------------------------------------------
(* No connection leaks: a pool counts as lent exactly the connections of   *)
(* threads that are inside get_conn with that pool, although _pool may     *)
(* have been replaced since they took it.                                  *)
LentIsHeld ==
  \A p \in Pools : lent[p] = {t \in Borrowers : borrowing[t] \in Holding /\ local[t] = p}
=============================================================================
