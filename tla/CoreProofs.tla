----------------------------- MODULE CoreProofs -----------------------------
(***************************************************************************)
(* Theorems about the C++ core: BruceCore.tla, for any number of routes    *)
(* and any limit, and RoutingTable.tla, for any routes of a configuration. *)
(***************************************************************************)
EXTENDS BruceCore, RoutingTable, DataLemmas

(* main handles the routes in order: only routes before the current one    *)
(* have a thread, and the current one exactly while its thread is started. *)
InOrder ==
  /\ core_main \in {"load", "exchange", "spawn"} => route_no <= matched + 1
  /\ core_main \in {"exchange", "spawn"} => route_no <= matched
  /\ core_main = "spawn" => thread[route_no] = "counted"
  /\ core_main = "start" => route_no = 1
  /\ \A k \in Requests :
       thread[k] # "none" => k < route_no \/ (k = route_no /\ core_main \notin {"start", "load", "exchange"})

(* The copy that fire decides on never exceeds the requests fired before.  *)
CopyIsModest == core_main = "exchange" => current <= route_no - 1

(* The inductive invariant. *)
CoreInv == CoreTypeOK /\ CountsRequests /\ InOrder /\ CopyIsModest /\ RefusedOnlyAboveLimit

LEMMA RequestsFinite == IsFiniteSet(Requests)
BY CoreAssumption, FS_Interval DEF Requests

(* The holders are finitely many, and while main looks for a slot they are *)
(* among the routes it has passed.                                         *)
LEMMA HoldersBound ==
  ASSUME CoreTypeOK, InOrder
  PROVE  /\ IsFiniteSet(Unfinished)
         /\ Cardinality(Unfinished) \in Nat
         /\ core_main \in {"load", "exchange"} => Cardinality(Unfinished) <= route_no - 1
<1>1. IsFiniteSet(Unfinished) /\ Cardinality(Unfinished) \in Nat
  BY RequestsFinite, FS_Subset, FS_CardinalityType DEF Unfinished
<1>2. ASSUME core_main \in {"load", "exchange"} PROVE Cardinality(Unfinished) <= route_no - 1
  <2>1. route_no \in Nat /\ route_no >= 1
    BY CoreAssumption DEF CoreTypeOK
  <2>2. Unfinished \subseteq 1 .. route_no - 1
    BY <1>2, <2>1, CoreAssumption DEF Unfinished, InOrder, Requests, Counted
  <2>3. IsFiniteSet(1 .. route_no - 1) /\ Cardinality(1 .. route_no - 1) = route_no - 1
    BY <2>1, FS_Interval
  <2> QED BY <2>2, <2>3, FS_Subset
<1> QED BY <1>1, <1>2

(* The process's end changes neither the count nor the order. *)
LEMMA ExitKeeps ==
  ASSUME CoreTypeOK, CountsRequests, InOrder, NEW code \in Ended, Exit(code)
  PROVE  CoreTypeOK' /\ CountsRequests' /\ InOrder' /\ CopyIsModest' /\ Unfinished' = Unfinished
<1>1. thread' \in [Requests -> Counted \union {"none", "done", "orphan", "killed"}]
  BY DEF Exit, CoreTypeOK, Counted
<1>2. CoreTypeOK'
  BY <1>1 DEF Exit, CoreTypeOK
<1>3. \A k \in Requests : thread'[k] = IF thread[k] = "curl" THEN "orphan"
                                       ELSE IF thread[k] \in Counted THEN "killed"
                                       ELSE thread[k]
  BY DEF Exit
<1>4. Unfinished' = Unfinished
  BY <1>3 DEF Unfinished, Counted
<1>5. CountsRequests'
  BY <1>4 DEF Exit, CountsRequests
<1>6. core_main' \notin {"start", "load", "exchange", "spawn"}
  BY DEF Exit, Ended
<1>7. ASSUME NEW k \in Requests, thread'[k] # "none" PROVE thread[k] # "none"
  BY <1>3, <1>7 DEF Counted
<1>8. InOrder'
  BY <1>6, <1>7 DEF Exit, InOrder
<1> QED BY <1>2, <1>4, <1>5, <1>6, <1>8 DEF CopyIsModest

-----------------------------------------------------------------------------
LEMMA MainKeepsInv ==
  ASSUME CoreInv, MainStep
  PROVE  CoreInv'
<1>0. CoreTypeOK /\ CountsRequests /\ InOrder /\ CopyIsModest /\ RefusedOnlyAboveLimit
  BY DEF CoreInv
<1>h. /\ IsFiniteSet(Unfinished)
      /\ Cardinality(Unfinished) \in Nat
      /\ core_main \in {"load", "exchange"} => Cardinality(Unfinished) <= route_no - 1
  BY <1>0, HoldersBound
<1>t. /\ MaxMatches \in Nat /\ MaxPending \in Nat
      /\ matched \in Nat /\ route_no \in Nat /\ current \in Nat /\ pending_jobs \in Nat
  BY <1>0, CoreAssumption DEF CoreTypeOK
<1>1. CASE Block
  <2>1. Exit("blocked") /\ "blocked" \in Ended
    BY <1>1 DEF Block, Ended
  <2>2. RefusedOnlyAboveLimit'
    BY <2>1 DEF Exit, RefusedOnlyAboveLimit
  <2> QED BY <2>1, <2>2, <1>0, ExitKeeps DEF CoreInv
<1>2. CASE ResolveRoutes
  <2>1. CoreTypeOK'
    BY <1>2, <1>0 DEF ResolveRoutes, CoreTypeOK, Requests, Firing, Ended
  <2>2. Unfinished' = Unfinished /\ CountsRequests'
    BY <1>2, <1>0 DEF ResolveRoutes, Unfinished, CountsRequests
  <2>3. InOrder'
    <3>1. route_no = 1 /\ route_no' = 1 /\ core_main' = "load" /\ matched' \in 1 .. MaxMatches
      BY <1>2, <1>0 DEF ResolveRoutes, InOrder, Requests
    <3>2. \A k \in Requests : thread'[k] = "none"
      BY <1>2, <1>0, <3>1 DEF ResolveRoutes, InOrder, Requests
    <3>3. matched' \in Nat /\ route_no' = 1
      BY <3>1, <1>t
    <3>4. \A n \in Nat : 1 <= n + 1
      OBVIOUS
    <3>5. route_no' <= matched' + 1
      BY <3>3, <3>4, Zenon
    <3> QED BY <3>1, <3>2, <3>5, Zenon DEF InOrder
  <2> QED BY <1>2, <2>1, <2>2, <2>3 DEF ResolveRoutes, CopyIsModest, RefusedOnlyAboveLimit, CoreInv
<1>3. CASE LoadPending
  <2>1. CoreTypeOK'
    BY <1>3, <1>0 DEF LoadPending, CoreTypeOK, Firing
  <2>2. Unfinished' = Unfinished /\ CountsRequests'
    BY <1>3, <1>0 DEF LoadPending, Unfinished, CountsRequests
  <2>3. InOrder'
    BY <1>3, <1>0 DEF LoadPending, InOrder
  <2>4. CopyIsModest'
    BY <1>3, <1>0, <1>h DEF LoadPending, CopyIsModest, CountsRequests
  <2> QED BY <1>3, <2>1, <2>2, <2>3, <2>4 DEF LoadPending, RefusedOnlyAboveLimit, CoreInv
<1>4. CASE ReloadPending
  <2>1. CoreTypeOK'
    BY <1>4, <1>0 DEF ReloadPending, CoreTypeOK
  <2>2. Unfinished' = Unfinished /\ CountsRequests'
    BY <1>4, <1>0 DEF ReloadPending, Unfinished, CountsRequests
  <2>3. InOrder'
    BY <1>4, <1>0 DEF ReloadPending, InOrder
  <2>4. CopyIsModest'
    BY <1>4, <1>0, <1>h DEF ReloadPending, CopyIsModest, CountsRequests
  <2> QED BY <1>4, <2>1, <2>2, <2>3, <2>4 DEF ReloadPending, RefusedOnlyAboveLimit, CoreInv
<1>5. CASE Count
  <2>0. route_no \in Requests /\ thread[route_no] = "none"
    BY <1>5, <1>0, <1>t DEF Count, InOrder, CoreTypeOK, Requests
  <2>1. CoreTypeOK'
    BY <1>5, <1>0, <2>0 DEF Count, CoreTypeOK, Firing, Counted
  <2>2. Unfinished' = Unfinished \union {route_no} /\ route_no \notin Unfinished
    BY <1>5, <1>0, <2>0 DEF Count, Unfinished, CoreTypeOK, Counted
  <2>3. Cardinality(Unfinished') = Cardinality(Unfinished) + 1
    BY <2>2, <1>h, FS_AddElement
  <2>4. CountsRequests'
    BY <1>5, <1>0, <1>t, <2>3 DEF Count, CountsRequests
  <2>5. InOrder'
    <3>1. thread'[route_no] = "counted" /\ \A k \in Requests \ {route_no} : thread'[k] = thread[k]
      BY <1>5, <1>0, <2>0 DEF Count, CoreTypeOK
    <3> QED BY <3>1, <1>5, <1>0, <1>t DEF Count, InOrder
  <2> QED BY <1>5, <2>1, <2>4, <2>5 DEF Count, CopyIsModest, RefusedOnlyAboveLimit, CoreInv
<1>6. CASE Refuse
  <2>1. Exit("backpressure") /\ "backpressure" \in Ended
    BY <1>6 DEF Refuse, Ended
  <2>2. RefusedOnlyAboveLimit'
    BY <1>6, <1>0, <1>t DEF Refuse, Exit, RefusedOnlyAboveLimit, CopyIsModest, InOrder
  <2> QED BY <2>1, <2>2, <1>0, ExitKeeps DEF CoreInv
<1>7. CASE Spawn
  <2>0. route_no \in Requests /\ thread[route_no] = "counted" /\ route_no <= matched /\ matched <= MaxMatches
    BY <1>7, <1>0, <1>t DEF Spawn, InOrder, CoreTypeOK, Requests
  <2>1. CoreTypeOK'
    BY <1>7, <1>0, <1>t, <2>0 DEF Spawn, CoreTypeOK, Firing, Counted
  <2>2. Unfinished' = Unfinished /\ CountsRequests'
    BY <1>7, <1>0, <2>0 DEF Spawn, Unfinished, CountsRequests, CoreTypeOK, Counted
  <2>3. InOrder'
    <3>1. \A k \in Requests \ {route_no} : thread'[k] = thread[k]
      BY <1>7, <1>0 DEF Spawn, CoreTypeOK
    <3>2. Requests \subseteq Nat
      BY DEF Requests
    <3> QED BY <3>1, <3>2, <2>0, <1>7, <1>0, <1>t DEF Spawn, InOrder
  <2> QED BY <1>7, <2>1, <2>2, <2>3 DEF Spawn, CopyIsModest, RefusedOnlyAboveLimit, CoreInv
<1>8. CASE SpawnFails
  <2>1. Exit("aborted") /\ "aborted" \in Ended
    BY <1>8 DEF SpawnFails, Ended
  <2>2. RefusedOnlyAboveLimit'
    BY <2>1 DEF Exit, RefusedOnlyAboveLimit
  <2> QED BY <2>1, <2>2, <1>0, ExitKeeps DEF CoreInv
<1>9. CASE FinishCore
  <2>1. Exit("ok") /\ "ok" \in Ended
    BY <1>9 DEF FinishCore, Ended
  <2>2. RefusedOnlyAboveLimit'
    BY <2>1 DEF Exit, RefusedOnlyAboveLimit
  <2> QED BY <2>1, <2>2, <1>0, ExitKeeps DEF CoreInv
<1> QED BY <1>1, <1>2, <1>3, <1>4, <1>5, <1>6, <1>7, <1>8, <1>9 DEF MainStep

-----------------------------------------------------------------------------
(* A thread's step leaves main alone, keeps its slot until the last step   *)
(* and then gives back exactly that one.                                   *)
LEMMA ThreadEffect ==
  ASSUME CoreTypeOK, NEW k \in Requests, ThreadStep(k)
  PROVE  /\ UNCHANGED mainVars
         /\ request' \in [Requests -> {"unsent", "sent", "failed"}]
         /\ file' \in [Requests -> BOOLEAN]
         /\ thread' \in [Requests -> Counted \union {"none", "done", "orphan", "killed"}]
         /\ thread[k] \notin {"none", "counted"}
         /\ \A i \in Requests \ {k} : thread'[i] = thread[i]
         /\ \/ Unfinished' = Unfinished /\ pending_jobs' = pending_jobs
            \/ k \in Unfinished /\ Unfinished' = Unfinished \ {k} /\ pending_jobs' = pending_jobs - 1
<1>t. /\ thread \in [Requests -> Counted \union {"none", "done", "orphan", "killed"}]
      /\ request \in [Requests -> {"unsent", "sent", "failed"}]
      /\ file \in [Requests -> BOOLEAN]
  BY DEF CoreTypeOK
<1>1. CASE WritePayload(k)
  BY <1>1, <1>t DEF WritePayload, Unfinished, Counted
<1>2. CASE NoPayload(k)
  BY <1>2, <1>t DEF NoPayload, Unfinished, Counted
<1>3. CASE RunCurl(k)
  BY <1>3, <1>t DEF RunCurl, Unfinished, Counted
<1>4. CASE CurlEnds(k)
  <2>1. PICK outcome \in {"sent", "failed"} : request' = [request EXCEPT ![k] = outcome]
    BY <1>4 DEF CurlEnds
  <2>2. request' \in [Requests -> {"unsent", "sent", "failed"}]
    BY <2>1, <1>t
  <2> QED BY <2>2, <1>4, <1>t DEF CurlEnds, Unfinished, Counted
<1>5. CASE RemovePayload(k)
  BY <1>5, <1>t DEF RemovePayload, Unfinished, Counted
<1>6. CASE Uncount(k)
  BY <1>6, <1>t DEF Uncount, Unfinished, Counted
<1> QED BY <1>1, <1>2, <1>3, <1>4, <1>5, <1>6 DEF ThreadStep

LEMMA ThreadKeepsInv ==
  ASSUME CoreInv, NEW k \in Requests, ThreadStep(k)
  PROVE  CoreInv'
<1>0. CoreTypeOK /\ CountsRequests /\ InOrder /\ CopyIsModest /\ RefusedOnlyAboveLimit
  BY DEF CoreInv
<1>e. /\ UNCHANGED mainVars
      /\ request' \in [Requests -> {"unsent", "sent", "failed"}]
      /\ file' \in [Requests -> BOOLEAN]
      /\ thread' \in [Requests -> Counted \union {"none", "done", "orphan", "killed"}]
      /\ thread[k] \notin {"none", "counted"}
      /\ \A i \in Requests \ {k} : thread'[i] = thread[i]
      /\ \/ Unfinished' = Unfinished /\ pending_jobs' = pending_jobs
         \/ k \in Unfinished /\ Unfinished' = Unfinished \ {k} /\ pending_jobs' = pending_jobs - 1
  BY <1>0, ThreadEffect
<1>h. IsFiniteSet(Unfinished) /\ Cardinality(Unfinished) \in Nat
  BY <1>0, HoldersBound
<1>t. MaxPending \in Nat /\ pending_jobs \in Nat /\ route_no \in Nat /\ Requests \subseteq Nat
  BY <1>0, CoreAssumption DEF CoreTypeOK, Requests
<1>1. CountsRequests' /\ pending_jobs' \in Nat
  <2>1. CASE Unfinished' = Unfinished /\ pending_jobs' = pending_jobs
    BY <2>1, <1>0, <1>t DEF CountsRequests
  <2>2. CASE k \in Unfinished /\ Unfinished' = Unfinished \ {k} /\ pending_jobs' = pending_jobs - 1
    <3>1. Cardinality(Unfinished') = Cardinality(Unfinished) - 1
      BY <2>2, <1>h, FS_RemoveElement
    <3>2. Cardinality(Unfinished) # 0
      BY <2>2, <1>h, FS_EmptySet
    <3> QED BY <2>2, <3>1, <3>2, <1>0, <1>h, <1>t DEF CountsRequests
  <2> QED BY <2>1, <2>2, <1>e
<1>2. CoreTypeOK'
  BY <1>1, <1>e, <1>0 DEF CoreTypeOK, mainVars
<1>3. InOrder'
  <2>1. core_main' = core_main /\ route_no' = route_no /\ matched' = matched
    BY <1>e DEF mainVars
  <2>2. core_main = "spawn" => route_no \in Requests
    BY <1>0, CoreAssumption DEF InOrder, CoreTypeOK, Requests
  <2>3. core_main = "spawn" => thread'[route_no] = "counted"
    BY <2>2, <1>e, <1>0 DEF InOrder
  <2>4. ASSUME NEW i \in Requests, thread'[i] # "none" PROVE thread[i] # "none"
    BY <2>4, <1>e
  <2> QED BY <2>1, <2>3, <2>4, <1>0 DEF InOrder
<1> QED BY <1>1, <1>2, <1>3, <1>e, <1>0
        DEF CoreInv, CopyIsModest, RefusedOnlyAboveLimit, mainVars

LEMMA CoreInitInv == CoreInit => CoreInv
<1> SUFFICES ASSUME CoreInit PROVE CoreInv
  OBVIOUS
<1>1. Unfinished = {}
  BY DEF CoreInit, Unfinished, Counted
<1>2. CountsRequests
  BY <1>1, FS_EmptySet, CoreAssumption DEF CoreInit, CountsRequests
<1>3. CoreTypeOK
  BY CoreAssumption DEF CoreInit, CoreTypeOK
<1>4. InOrder /\ CopyIsModest /\ RefusedOnlyAboveLimit
  BY DEF CoreInit, InOrder, CopyIsModest, RefusedOnlyAboveLimit
<1> QED BY <1>2, <1>3, <1>4 DEF CoreInv

LEMMA CoreStepInv == CoreInv /\ [CoreNext]_coreVars => CoreInv'
<1> SUFFICES ASSUME CoreInv, [CoreNext]_coreVars PROVE CoreInv'
  OBVIOUS
<1>1. CASE CoreNext
  BY <1>1, MainKeepsInv, ThreadKeepsInv DEF CoreNext
<1>2. CASE UNCHANGED coreVars
  BY <1>2 DEF coreVars, mainVars, CoreInv, CoreTypeOK, CountsRequests, Unfinished, InOrder,
              CopyIsModest, RefusedOnlyAboveLimit
<1> QED BY <1>1, <1>2

(* The invariant holds in every state of every run. *)
THEOREM CoreInvariant == CoreSpec => []CoreInv
BY CoreInitInv, CoreStepInv, PTL DEF CoreSpec

(* IPCClient's counter is the number of requests under way, within the     *)
(* limit, and a run with at most MaxPending routes is never refused.       *)
THEOREM CoreCounts == CoreSpec => [](CountsRequests /\ RefusedOnlyAboveLimit)
<1>1. CoreInv => CountsRequests /\ RefusedOnlyAboveLimit
  BY DEF CoreInv
<1> QED BY <1>1, CoreInvariant, PTL

(* IPCClient hands out slots exactly as SlotPool.tla says. *)
THEOREM CoreImplementsSlots == CoreSpec => FireImplementsSlots
<1>1. CoreInit => CoreSlots!Init
  BY CoreAssumption DEF CoreInit, CoreSlots!Init, Unfinished, Counted
<1>2. CoreInv /\ [CoreNext]_coreVars => [CoreSlots!Next]_(CoreSlots!vars)
  <2> SUFFICES ASSUME CoreInv, [CoreNext]_coreVars PROVE [CoreSlots!Next]_(CoreSlots!vars)
    OBVIOUS
  <2>0. CoreTypeOK /\ CountsRequests /\ InOrder
    BY DEF CoreInv
  <2>t. MaxPending \in Nat /\ pending_jobs \in Nat
    BY <2>0, CoreAssumption DEF CoreTypeOK
  <2>1. ASSUME NEW code \in Ended, Exit(code) PROVE UNCHANGED CoreSlots!vars
    <3>1. Unfinished' = Unfinished
      BY <2>0, <2>1, ExitKeeps
    <3> QED BY <2>1, <3>1 DEF Exit, CoreSlots!vars
  <2>2. CASE Block \/ Refuse \/ SpawnFails \/ FinishCore
    BY <2>1, <2>2 DEF Block, Refuse, SpawnFails, FinishCore, Ended
  <2>3. CASE ResolveRoutes \/ LoadPending \/ ReloadPending
    BY <2>3 DEF ResolveRoutes, LoadPending, ReloadPending, Unfinished, CoreSlots!vars
  <2>4. CASE Count
    <3>1. route_no \in Requests /\ thread[route_no] = "none"
      BY <2>4, <2>0, CoreAssumption DEF Count, InOrder, CoreTypeOK, Requests
    <3>2. Unfinished' = Unfinished \union {route_no} /\ route_no \notin Unfinished
      BY <2>4, <2>0, <3>1 DEF Count, Unfinished, CoreTypeOK, Counted
    <3>3. pending_jobs' = pending_jobs + 1 /\ pending_jobs < MaxPending
      BY <2>4 DEF Count
    <3>4. MaxPending - pending_jobs > 0 /\ MaxPending - pending_jobs' = (MaxPending - pending_jobs) - 1
      BY <2>t, <3>3
    <3> QED BY <3>1, <3>2, <3>4 DEF CoreSlots!Next, CoreSlots!Take
  <2>5. CASE Spawn
    <3>1. route_no \in Requests /\ thread[route_no] = "counted"
      BY <2>5, <2>0, CoreAssumption DEF Spawn, InOrder, CoreTypeOK, Requests
    <3> QED BY <3>1, <2>5, <2>0 DEF Spawn, Unfinished, CoreTypeOK, Counted, CoreSlots!vars
  <2>6. ASSUME NEW k \in Requests, ThreadStep(k) PROVE [CoreSlots!Next]_(CoreSlots!vars)
    <3>1. CASE Unfinished' = Unfinished /\ pending_jobs' = pending_jobs
      BY <3>1 DEF CoreSlots!vars
    <3>2. CASE k \in Unfinished /\ Unfinished' = Unfinished \ {k} /\ pending_jobs' = pending_jobs - 1
      <4>1. MaxPending - pending_jobs' = (MaxPending - pending_jobs) + 1
        BY <3>2, <2>t
      <4> QED BY <3>2, <4>1 DEF CoreSlots!Next, CoreSlots!GiveBack
    <3> QED BY <3>1, <3>2, <2>0, <2>6, ThreadEffect
  <2>7. CASE UNCHANGED coreVars
    BY <2>7 DEF coreVars, Unfinished, CoreSlots!vars
  <2> QED BY <2>2, <2>3, <2>4, <2>5, <2>6, <2>7 DEF CoreNext, MainStep
<1> QED BY <1>1, <1>2, CoreInvariant, PTL DEF CoreSpec, FireImplementsSlots, CoreSlots!Spec
-----------------------------------------------------------------------------
(* The table is the active version in the order of priority, or empty.     *)
TableInv ==
  /\ zone \in Int /\ 0 <= zone /\ zone <= 26
  /\ active \subseteq RouteRows /\ IsFiniteSet(active)
  /\ loaded = <<>> \/ loaded \in InPriorityOrder(active)
  /\ resolving \in {"reload", "resolve", "done"}
  /\ resolving = "reload" => loaded = <<>>
  /\ EveryZoneIsCovered

(* A library of a zone is one of the range of the built-in route. *)
LEMMA BuiltInCovers ==
  ASSUME zone \in Int, 0 <= zone, zone <= 26
  PROVE  Covers(BuiltIn)
BY RoutingAssumption DEF Covers, BibliothekId

(* An order without repetition leaves none of the rows out. *)
LEMMA OrderIsComplete ==
  ASSUME NEW rows, IsFiniteSet(rows), NEW s \in InPriorityOrder(rows)
  PROVE  /\ s \in Seq(rows)
         /\ \A i, j \in DOMAIN s : i < j => s[i].priority <= s[j].priority
         /\ \A row \in rows : \E i \in DOMAIN s : s[i] = row
<1> DEFINE n == Cardinality(rows)
           D == 1..n
<1>1. n \in Nat
  BY FS_CardinalityType
<1>2. s \in [D -> rows] /\ \A i, j \in D : i < j => s[i] # s[j] /\ s[i].priority <= s[j].priority
  BY DEF InPriorityOrder
<1>3. IsFiniteSet(D) /\ Cardinality(D) = n
  BY <1>1, FS_Interval
<1>4. s \in Injection(D, rows)
  <2>1. \A i, j \in D : s[i] = s[j] => i = j
    BY <1>1, <1>2
  <2>2. DOMAIN s = D
    BY <1>2
  <2> HIDE DEF D
  <2> QED BY <1>2, <2>1, <2>2 DEF Injection, IsInjective
<1>5. s \in Surjection(D, rows)
  <2> HIDE DEF D
  <2> QED BY <1>3, <1>4, FS_Injection
<1>6. s \in Seq(rows)
  <2> HIDE DEF n
  <2> QED BY <1>1, <1>2
<1>7. \A row \in rows : \E i \in D : s[i] = row
  BY <1>5 DEF Surjection
<1> QED BY <1>2, <1>6, <1>7

LEMMA ResolveStep == TableInv /\ ResolveTable => TableInv'
<1> SUFFICES ASSUME TableInv, ResolveTable PROVE TableInv'
  OBVIOUS
<1>1. /\ zone' = zone /\ active' = active /\ loaded' = loaded /\ resolving' = "done"
      /\ resolved' = IF Selected = <<>> THEN <<BuiltIn>> ELSE Selected
  BY DEF ResolveTable
<1>2. /\ loaded \in Seq(RouteRows)
      /\ loaded = <<>> \/ loaded \in Seq(active)
      /\ \A i, j \in DOMAIN loaded : i < j => loaded[i].priority <= loaded[j].priority
      /\ loaded # <<>> => \A row \in active : \E i \in DOMAIN loaded : loaded[i] = row
  <2>1. CASE loaded = <<>>
    BY <2>1
  <2>2. CASE loaded \in InPriorityOrder(active)
    <3>1. IsFiniteSet(active) /\ active \subseteq RouteRows
      BY DEF TableInv
    <3>2. loaded \in Seq(active)
      BY <2>2, <3>1, OrderIsComplete
    <3>3. loaded \in Seq(RouteRows)
      BY <3>1, <3>2
    <3>4. \A i, j \in DOMAIN loaded : i < j => loaded[i].priority <= loaded[j].priority
      BY <2>2, <3>1, OrderIsComplete
    <3>5. \A row \in active : \E i \in DOMAIN loaded : loaded[i] = row
      BY <2>2, <3>1, OrderIsComplete
    <3> QED BY <3>2, <3>3, <3>4, <3>5, Zenon
  <2> QED BY <2>1, <2>2 DEF TableInv
<1> DEFINE T == {row \in RouteRows : Covers(row)}
<1>3. Selected = Filter(loaded, T)
  BY DEF Selected
<1>4. PICK sel \in Seq(RouteRows) : sel = Selected /\ KeepsOrder(loaded, T, Len(loaded), sel)
  <2>1. loaded \in Seq(RouteRows)
    BY <1>2
  <2> HIDE DEF T
  <2> QED BY <2>1, <1>3, Filtering
<1>5. /\ \A m \in DOMAIN sel : Covers(sel[m]) /\ sel[m] \in active
      /\ \A l, m \in DOMAIN sel : l < m => sel[l].priority <= sel[m].priority
      /\ loaded # <<>> => \A row \in active : Covers(row) => \E m \in DOMAIN sel : sel[m] = row
  <2>0. Len(loaded) \in Nat /\ DOMAIN loaded = 1..Len(loaded)
    BY <1>2
  <2>1. ASSUME NEW m \in DOMAIN sel PROVE Covers(sel[m]) /\ sel[m] \in active
    <3>1. sel[m] \in T /\ \E i \in Nat : 1 <= i /\ i <= Len(loaded) /\ sel[m] = loaded[i]
      BY <1>4 DEF KeepsOrder
    <3>2. PICK i \in Nat : 1 <= i /\ i <= Len(loaded) /\ sel[m] = loaded[i]
      BY <3>1
    <3>3. loaded \in Seq(active) /\ i \in 1..Len(loaded)
      BY <3>2, <2>0, <1>2
    <3>4. loaded[i] \in active
      BY <3>3
    <3> QED BY <3>1, <3>2, <3>4
  <2>2. ASSUME loaded # <<>>, NEW row \in active, Covers(row) PROVE \E m \in DOMAIN sel : sel[m] = row
    <3>1. PICK i \in DOMAIN loaded : loaded[i] = row
      BY <1>2, <2>2
    <3>2. i \in Nat /\ 1 <= i /\ i <= Len(loaded)
      BY <2>0
    <3>3. loaded[i] \in T
      BY <2>2, <3>1 DEF TableInv
    <3> QED BY <3>1, <3>2, <3>3, <1>4 DEF KeepsOrder
  <2>3. ASSUME NEW l \in DOMAIN sel, NEW m \in DOMAIN sel, l < m
        PROVE  sel[l].priority <= sel[m].priority
    <3>1. PICK i \in Nat, j \in Nat : 1 <= i /\ i < j /\ j <= Len(loaded)
                                   /\ sel[l] = loaded[i] /\ sel[m] = loaded[j]
      BY <1>4, <2>3 DEF KeepsOrder
    <3>2. i \in DOMAIN loaded /\ j \in DOMAIN loaded
      BY <3>1, <2>0
    <3> QED BY <3>1, <3>2, <1>2
  <2> QED BY <2>1, <2>2, <2>3
<1> HIDE DEF T
<1>7. EveryZoneIsCovered'
  <2>1. CASE sel = <<>>
    <3>1. resolved' = <<BuiltIn>> /\ DOMAIN resolved' = {1} /\ resolved'[1] = BuiltIn
      BY <2>1, <1>1, <1>4
    <3>2. Covers(BuiltIn)
      BY BuiltInCovers DEF TableInv
    <3>3. loaded # <<>> => \A row \in active : ~ Covers(row)
      BY <2>1, <1>5
    <3>4. \A i, j \in DOMAIN resolved' : ~ (i < j)
      BY <3>1
    <3>5. resolved' # <<>>
      BY <3>1
    <3>6. BibliothekId' = BibliothekId
      BY <1>1 DEF BibliothekId
    <3> QED BY <3>1, <3>2, <3>3, <3>4, <3>5, <3>6, <1>1 DEF EveryZoneIsCovered, Covers
  <2>2. CASE sel # <<>>
    <3>1. resolved' = sel
      BY <2>2, <1>1, <1>4
    <3>2. BibliothekId' = BibliothekId
      BY <1>1 DEF BibliothekId
    <3> QED BY <2>2, <3>1, <3>2, <1>1, <1>5 DEF EveryZoneIsCovered, Covers
  <2> QED BY <2>1, <2>2
<1> QED BY <1>1, <1>7 DEF TableInv, InPriorityOrder

LEMMA TableStep == TableInv /\ [TableNext]_tableVars => TableInv'
<1> SUFFICES ASSUME TableInv, [TableNext]_tableVars PROVE TableInv'
  OBVIOUS
<1>1. CASE ReloadTable
  <2>1. /\ zone' = zone /\ active' = active /\ resolving' = "resolve"
        /\ loaded' \in InPriorityOrder(active)
    BY <1>1 DEF ReloadTable
  <2> QED BY <2>1 DEF TableInv, EveryZoneIsCovered, InPriorityOrder
<1>2. CASE ReloadFails
  <2>1. /\ zone' = zone /\ active' = active /\ resolving' = "resolve" /\ loaded' = loaded
        /\ resolving = "reload"
    BY <1>2 DEF ReloadFails
  <2>2. loaded = <<>>
    BY <2>1 DEF TableInv
  <2> QED BY <2>1, <2>2 DEF TableInv, EveryZoneIsCovered
<1>3. CASE ResolveTable
  BY <1>3, ResolveStep
<1>4. CASE UNCHANGED tableVars
  <2>1. /\ zone' = zone /\ active' = active /\ resolving' = resolving /\ loaded' = loaded
        /\ resolved' = resolved
    BY <1>4 DEF tableVars
  <2>2. EveryZoneIsCovered'
    BY <2>1 DEF TableInv, EveryZoneIsCovered, Covers, BibliothekId
  <2> QED BY <2>1, <2>2 DEF TableInv, InPriorityOrder
<1> QED BY <1>1, <1>2, <1>3, <1>4 DEF TableNext

(* resolve in cpp/routing_table.cpp: whatever the active version holds,    *)
(* and however equal priorities are ordered, bruce_core dispatches a query *)
(* to all the routes that cover its library, in the order of priority, and *)
(* to the built-in route, which covers it, if there is none.               *)
THEOREM ZonesAreCovered == TableSpec => []EveryZoneIsCovered
<1>1. TableInit => TableInv
  BY DEF TableInit, TableInv, EveryZoneIsCovered
<1>2. TableInv => EveryZoneIsCovered
  BY DEF TableInv
<1> QED BY <1>1, <1>2, TableStep, PTL DEF TableSpec

LEMMA TableTypes ==
  /\ TableInit => TableTypeOK
  /\ TableInv /\ TableTypeOK /\ [TableNext]_tableVars => TableTypeOK'
<1>1. TableInit => TableTypeOK
  BY DEF TableInit, TableTypeOK
<1>2. ASSUME TableInv, TableTypeOK, [TableNext]_tableVars PROVE TableTypeOK'
  <2>1. CASE ReloadTable
    <3>1. IsFiniteSet(active) /\ active \subseteq RouteRows /\ loaded' \in InPriorityOrder(active)
      BY <1>2, <2>1 DEF ReloadTable, TableInv
    <3>2. PICK s \in InPriorityOrder(active) : s = loaded'
      BY <3>1
    <3>3. s \in Seq(active)
      BY <3>1, OrderIsComplete
    <3>4. s \in Seq(RouteRows)
      BY <3>1, <3>3
    <3> QED BY <1>2, <2>1, <3>2, <3>4 DEF ReloadTable, TableTypeOK
  <2>2. CASE ReloadFails
    BY <1>2, <2>2 DEF ReloadFails, TableTypeOK
  <2>3. CASE ResolveTable
    <3>1. PICK sel \in Seq(RouteRows) : sel = Selected
      BY <1>2, Filtering DEF Selected, TableTypeOK
    <3>2. sel \in Seq(RouteRows \union {BuiltIn}) /\ <<BuiltIn>> \in Seq(RouteRows \union {BuiltIn})
      OBVIOUS
    <3>3. resolved' \in Seq(RouteRows \union {BuiltIn})
      BY <2>3, <3>1, <3>2 DEF ResolveTable
    <3> QED BY <1>2, <2>3, <3>3 DEF ResolveTable, TableTypeOK
  <2>4. CASE UNCHANGED tableVars
    BY <1>2, <2>4 DEF tableVars, TableTypeOK
  <2> QED BY <1>2, <2>1, <2>2, <2>3, <2>4 DEF TableNext
<1> QED BY <1>1, <1>2
=============================================================================
