------------------------------ MODULE MCShared ------------------------------
(***************************************************************************)
(* A small instance of the objects that threads of one process share: the  *)
(* slot counter, the connection pool, the health cache and the embedder.   *)
(* They do not interact, so a behaviour exercises one of them, the others  *)
(* stay as they were made.                                                 *)
(***************************************************************************)
EXTENDS HierarchicalGuard, ConnPool, HealthCache, Embedder, TLC

CONSTANTS t1, t2, t3, t4

VARIABLE object  \* the one this behaviour is about

sharedVars == <<object, guardVars, poolVars, healthVars, embedVars>>

Init ==
  /\ object \in {"guard", "pool", "health", "embedder"}
  /\ GuardInit /\ PoolInit /\ HealthInit /\ EmbedInit

UseGuard ==
  object = "guard" /\ GuardNext /\ UNCHANGED <<object, poolVars, healthVars, embedVars>>
UsePool ==
  object = "pool" /\ PoolNext /\ UNCHANGED <<object, guardVars, healthVars, embedVars>>
UseHealth ==
  object = "health" /\ HealthNext /\ UNCHANGED <<object, guardVars, poolVars, embedVars>>
UseEmbedder ==
  object = "embedder" /\ EmbedNext /\ UNCHANGED <<object, guardVars, poolVars, healthVars>>

Next == UseGuard \/ UsePool \/ UseHealth \/ UseEmbedder

Spec == Init /\ [][Next]_sharedVars

SharedTypeOK == GuardTypeOK /\ PoolTypeOK /\ HealthTypeOK /\ EmbedTypeOK

ThreadSymmetry ==
  Permutations(Callers) \union Permutations(Borrowers) \union Permutations(Dispatchers)
=============================================================================
