---------------------------- MODULE SharedProofs ----------------------------
(***************************************************************************)
(* Theorems about the objects that threads of one process share:           *)
(* HierarchicalGuard.tla, for any finite set of threads and any limit a    *)
(* uint16_t can hold; HealthCache.tla, for any number of threads and any   *)
(* time to live that is not shorter than a check; Embedder.tla, for any    *)
(* number of threads; ConnPool.tla, for any number of threads and any      *)
(* limits; and about their composition in MCShared.tla.                    *)
(***************************************************************************)
EXTENDS MCShared, FiniteSetTheorems, TLAPS

(* The inductive invariant: types, the count, and the releasing thread's   *)
(* copy, which stays positive because its own slot is counted whenever it  *)
(* reads the counter.                                                      *)
GuardInv == GuardTypeOK /\ CountsHolders /\ ReleaseFindsItsSlot

(* The bounds of the counter, so that later steps need not expand Word. *)
LEMMA Bounds ==
  /\ Word \in Nat /\ Word > 0
  /\ MaxPending \in 0 .. Word - 1
  /\ MaxPending \in Nat
  /\ \A n \in 0 .. Word - 1 : n \in Nat
<1>1. Word \in Nat /\ Word > 0
  BY DEF Word
<1>2. MaxPending \in 0 .. Word - 1
  BY GuardAssumption
<1> QED BY <1>1, <1>2

(* A number below the modulus is its own remainder. *)
LEMMA SmallRemainder ==
  ASSUME NEW n \in Nat, NEW m \in Nat, n < m
  PROVE  n % m = n
OBVIOUS

(* The holders are a finite set, and an empty one only if nobody holds.    *)
LEMMA HoldersFinite ==
  /\ IsFiniteSet(Holders)
  /\ Cardinality(Holders) \in Nat
  /\ \A t \in Holders : Cardinality(Holders) > 0
<1>1. IsFiniteSet(Holders)
  BY GuardAssumption, FS_Subset DEF Holders
<1>2. Cardinality(Holders) \in Nat
  BY <1>1, FS_CardinalityType
<1>3. ASSUME NEW t \in Holders PROVE Cardinality(Holders) # 0
  BY <1>1, <1>3, FS_EmptySet
<1> QED BY <1>1, <1>2, <1>3

(* A successful exchange of reserve_slot counts one more slot and does not *)
(* wrap: the limit fits the type.                                          *)
LEMMA ReserveIncrements ==
  ASSUME GuardTypeOK, NEW t \in Callers, Reserve(t)
  PROVE  pending' = pending + 1 /\ pending < MaxPending
<1>1. /\ current[t] \in 0 .. Word - 1
      /\ current[t] < MaxPending
      /\ pending = current[t]
      /\ pending' = (current[t] + 1) % Word
  BY DEF GuardTypeOK, Reserve
<1>2. Word \in Nat /\ MaxPending \in 0 .. Word - 1
  BY Bounds
<1>3. current[t] + 1 \in Nat /\ current[t] + 1 < Word
  BY <1>1, <1>2
<1>4. (current[t] + 1) % Word = current[t] + 1
  BY <1>2, <1>3, SmallRemainder
<1> QED BY <1>1, <1>4

(* release_slot does not give up: its copy of the counter is positive. *)
LEMMA OnlyReserveGivesUp ==
  ASSUME GuardTypeOK, ReleaseFindsItsSlot, NEW t \in Callers, GiveUp(t)
  PROVE  guarding[t] = "reserve"
<1>1. CASE guarding[t] = "release"
  <2>1. current[t] = 0
    BY <1>1 DEF GiveUp
  <2>2. current[t] > 0
    BY <1>1 DEF ReleaseFindsItsSlot
  <2> QED BY <2>1, <2>2
<1>2. CASE guarding[t] # "release"
  BY <1>2 DEF GiveUp
<1> QED BY <1>1, <1>2

(* Every step keeps the invariant.                                         *)
LEMMA GuardStepInv ==
  ASSUME GuardInv, NEW t \in Callers,
         Load(t) \/ Reload(t) \/ Reserve(t) \/ Release(t) \/ GiveUp(t)
  PROVE  GuardInv'
<1>0. GuardTypeOK /\ CountsHolders /\ ReleaseFindsItsSlot
  BY DEF GuardInv
<1>f. /\ IsFiniteSet(Holders)
      /\ Cardinality(Holders) \in Nat
      /\ \A u \in Holders : Cardinality(Holders) > 0
  BY HoldersFinite
<1>w. Word \in Nat /\ MaxPending \in 0 .. Word - 1 /\ Word > 0
  BY Bounds
<1>1. CASE Load(t)
  <2>1. Holders' = Holders
    BY <1>1, <1>0 DEF Load, Holders, GuardTypeOK
  <2>2. GuardTypeOK'
    BY <1>1, <1>0 DEF Load, GuardTypeOK
  <2>3. CountsHolders'
    BY <2>1, <1>1, <1>0 DEF Load, CountsHolders
  <2>4. ReleaseFindsItsSlot'
    <3> SUFFICES ASSUME NEW u \in Callers, guarding'[u] = "release"
                 PROVE  current'[u] > 0
      BY DEF ReleaseFindsItsSlot
    <3>1. CASE u = t
      <4>1. guarding[t] = "held" /\ current'[t] = pending
        BY <1>1, <1>0, <3>1 DEF Load, GuardTypeOK
      <4>2. t \in Holders
        BY <4>1 DEF Holders
      <4> QED BY <4>1, <4>2, <1>f, <1>0, <3>1 DEF CountsHolders
    <3>2. CASE u # t
      BY <1>1, <1>0, <3>2 DEF Load, GuardTypeOK, ReleaseFindsItsSlot
    <3> QED BY <3>1, <3>2
  <2> QED BY <2>2, <2>3, <2>4 DEF GuardInv
<1>2. CASE Reload(t)
  <2>1. Holders' = Holders
    BY <1>2 DEF Reload, Holders
  <2>2. GuardTypeOK'
    BY <1>2, <1>0 DEF Reload, GuardTypeOK
  <2>3. CountsHolders'
    BY <2>1, <1>2, <1>0 DEF Reload, CountsHolders
  <2>4. ReleaseFindsItsSlot'
    <3> SUFFICES ASSUME NEW u \in Callers, guarding'[u] = "release"
                 PROVE  current'[u] > 0
      BY DEF ReleaseFindsItsSlot
    <3>1. CASE u = t
      <4>1. t \in Holders /\ current'[t] = pending
        BY <1>2, <1>0, <3>1 DEF Reload, GuardTypeOK, Holders
      <4> QED BY <4>1, <1>f, <1>0, <3>1 DEF CountsHolders
    <3>2. CASE u # t
      BY <1>2, <1>0, <3>2 DEF Reload, GuardTypeOK, ReleaseFindsItsSlot
    <3> QED BY <3>1, <3>2
  <2> QED BY <2>2, <2>3, <2>4 DEF GuardInv
<1>3. CASE Reserve(t)
  <2>1. Holders' = Holders \union {t} /\ t \notin Holders
    BY <1>3, <1>0 DEF Reserve, Holders, GuardTypeOK
  <2>3. pending' = pending + 1 /\ pending + 1 <= MaxPending
    BY <1>3, <1>0, <1>w, ReserveIncrements DEF GuardTypeOK
  <2>4. GuardTypeOK'
    <3>1. pending' \in 0 .. Word - 1
      BY <2>3, <1>0, <1>w DEF GuardTypeOK
    <3>2. guarding' \in [Callers -> {"idle", "reserve", "held", "release"}]
      BY <1>3, <1>0 DEF Reserve, GuardTypeOK
    <3> QED BY <3>1, <3>2, <1>3, <1>0 DEF Reserve, GuardTypeOK
  <2>5. Cardinality(Holders') = Cardinality(Holders) + 1
    BY <2>1, <1>f, FS_AddElement
  <2>6. CountsHolders'
    BY <2>3, <2>5, <1>0 DEF CountsHolders
  <2>7. ReleaseFindsItsSlot'
    BY <1>3, <1>0 DEF Reserve, ReleaseFindsItsSlot, GuardTypeOK
  <2> QED BY <2>4, <2>6, <2>7 DEF GuardInv
<1>4. CASE Release(t)
  <2>1. Holders' = Holders \ {t} /\ t \in Holders
    BY <1>4, <1>0 DEF Release, Holders, GuardTypeOK
  <2>2. pending' = pending - 1 /\ pending > 0
    BY <1>4, <1>0 DEF Release, GuardTypeOK
  <2>3. GuardTypeOK'
    <3>1. pending' \in 0 .. Word - 1
      BY <2>2, <1>0, <1>w DEF GuardTypeOK
    <3>2. guarding' \in [Callers -> {"idle", "reserve", "held", "release"}]
      BY <1>4, <1>0 DEF Release, GuardTypeOK
    <3> QED BY <3>1, <3>2, <1>4, <1>0 DEF Release, GuardTypeOK
  <2>4. Cardinality(Holders') = Cardinality(Holders) - 1
    BY <2>1, <1>f, FS_RemoveElement
  <2>5. CountsHolders'
    BY <2>2, <2>4, <1>0, <1>w DEF CountsHolders, GuardTypeOK
  <2>6. ReleaseFindsItsSlot'
    BY <1>4, <1>0 DEF Release, ReleaseFindsItsSlot, GuardTypeOK
  <2> QED BY <2>3, <2>5, <2>6 DEF GuardInv
<1>5. CASE GiveUp(t)
  <2>1. guarding[t] = "reserve"
    BY <1>5, <1>0, OnlyReserveGivesUp
  <2>2. Holders' = Holders
    BY <2>1, <1>5, <1>0 DEF GiveUp, Holders, GuardTypeOK
  <2>3. GuardTypeOK'
    BY <1>5, <1>0 DEF GiveUp, GuardTypeOK
  <2>4. CountsHolders'
    BY <2>2, <1>5, <1>0 DEF GiveUp, CountsHolders
  <2>5. ReleaseFindsItsSlot'
    BY <1>5, <1>0 DEF GiveUp, ReleaseFindsItsSlot, GuardTypeOK
  <2> QED BY <2>3, <2>4, <2>5 DEF GuardInv
<1> QED BY <1>1, <1>2, <1>3, <1>4, <1>5

LEMMA GuardInitInv == GuardInit => GuardInv
<1> SUFFICES ASSUME GuardInit PROVE GuardInv
  OBVIOUS
<1>1. Holders = {}
  BY DEF GuardInit, Holders
<1>2. Cardinality(Holders) = 0
  BY <1>1, FS_EmptySet
<1>3. GuardTypeOK /\ ReleaseFindsItsSlot
  BY Bounds DEF GuardInit, GuardTypeOK, ReleaseFindsItsSlot
<1>4. CountsHolders
  BY <1>2, Bounds DEF GuardInit, CountsHolders
<1> QED BY <1>3, <1>4 DEF GuardInv

(* The counter and the threads' copies keep their 16-bit types, it counts  *)
(* exactly the slots held and never exceeds the limit, and no release is   *)
(* dropped.                                                                *)
THEOREM GuardCorrect == GuardSpec => [](GuardTypeOK /\ CountsHolders /\ ReleaseFindsItsSlot)
<1>1. GuardInit => GuardInv
  BY GuardInitInv
<1>2. GuardInv /\ [GuardNext]_guardVars => GuardInv'
  <2> SUFFICES ASSUME GuardInv, [GuardNext]_guardVars PROVE GuardInv'
    OBVIOUS
  <2>1. CASE GuardNext
    BY <2>1, GuardStepInv DEF GuardNext
  <2>2. CASE UNCHANGED guardVars
    BY <2>2 DEF guardVars, GuardInv, GuardTypeOK, CountsHolders, Holders, ReleaseFindsItsSlot
  <2> QED BY <2>1, <2>2
<1>3. GuardInv => GuardTypeOK /\ CountsHolders /\ ReleaseFindsItsSlot
  BY DEF GuardInv
<1> QED BY <1>1, <1>2, <1>3, PTL DEF GuardSpec

LEMMA GuardInvAlways == GuardSpec => []GuardInv
<1> QED BY GuardCorrect, PTL DEF GuardInv

(* The guard hands out slots exactly as SlotPool.tla says: an exchange     *)
(* that succeeds takes or gives back one slot, all other steps none.       *)
THEOREM GuardImplementsSlots == GuardSpec => ImplementsSlots
<1>1. GuardInit => Slots!Init
  BY Bounds DEF GuardInit, Slots!Init, Holders
<1>2. GuardInv /\ [GuardNext]_guardVars => [Slots!Next]_(Slots!vars)
  <2> SUFFICES ASSUME GuardInv, [GuardNext]_guardVars PROVE [Slots!Next]_(Slots!vars)
    OBVIOUS
  <2>0. GuardTypeOK /\ CountsHolders /\ ReleaseFindsItsSlot
    BY DEF GuardInv
  <2>1. ASSUME NEW t \in Callers, Load(t) \/ Reload(t) PROVE UNCHANGED Slots!vars
    BY <2>1, <2>0 DEF Load, Reload, Holders, GuardTypeOK, Slots!vars
  <2>2. ASSUME NEW t \in Callers, Reserve(t) PROVE Slots!Next
    <3>1. t \notin Holders /\ Holders' = Holders \union {t}
      BY <2>2, <2>0 DEF Reserve, Holders, GuardTypeOK
    <3>2. pending' = pending + 1 /\ pending < MaxPending
      BY <2>2, <2>0, ReserveIncrements
    <3>3. pending \in Nat /\ MaxPending \in Nat
      BY <2>0, Bounds DEF GuardTypeOK
    <3>4. MaxPending - pending > 0 /\ MaxPending - pending' = (MaxPending - pending) - 1
      BY <3>2, <3>3
    <3> QED BY <3>1, <3>4 DEF Slots!Next, Slots!Take
  <2>3. ASSUME NEW t \in Callers, Release(t) PROVE Slots!Next
    <3>1. t \in Holders /\ Holders' = Holders \ {t}
      BY <2>3, <2>0 DEF Release, Holders, GuardTypeOK
    <3>2. pending' = pending - 1 /\ pending \in Nat /\ MaxPending \in Nat
      BY <2>3, <2>0, Bounds DEF Release, GuardTypeOK
    <3>3. MaxPending - pending' = (MaxPending - pending) + 1
      BY <3>2
    <3> QED BY <3>1, <3>3 DEF Slots!Next, Slots!GiveBack
  <2>4. ASSUME NEW t \in Callers, GiveUp(t) PROVE UNCHANGED Slots!vars
    <3>1. guarding[t] = "reserve"
      BY <2>4, <2>0, OnlyReserveGivesUp
    <3> QED BY <3>1, <2>4, <2>0 DEF GiveUp, Holders, GuardTypeOK, Slots!vars
  <2>5. CASE UNCHANGED guardVars
    BY <2>5 DEF guardVars, Holders, Slots!vars
  <2> QED BY <2>1, <2>2, <2>3, <2>4, <2>5 DEF GuardNext
<1> QED BY <1>1, <1>2, GuardInvAlways, PTL DEF GuardSpec, ImplementsSlots, Slots!Spec

-----------------------------------------------------------------------------
(* The endpoint showed what an entry says after the entry's stamp. *)
EntryInv == cache.stored => cache.stamp <= cache.verdict.shown

(* Where a thread is limits how far the clock has moved since its call. *)
CheckInv(t) ==
  /\ start[t] <= now
  /\ checking[t] = "lookup" => start[t] = now
  /\ checking[t] \in {"check", "reply", "store"} => now <= start[t] + Timeout
  /\ checking[t] \in {"reply", "store"} => /\ found[t].shown >= start[t]
                                     /\ found[t].shown <= now
  /\ checking[t] = "done" => /\ found[t].shown > start[t] - Ttl
                       /\ found[t].shown >= now - Ttl

HealthInv == HealthTypeOK /\ EntryInv /\ \A t \in Dispatchers : CheckInv(t)

-----------------------------------------------------------------------------
LEMMA HealthInitInv == HealthInit => HealthInv
<1> SUFFICES ASSUME HealthInit PROVE HealthInv
  OBVIOUS
<1>1. NoVerdict \in Verdicts
  BY DEF NoVerdict, Verdicts
<1>2. HealthTypeOK
  BY <1>1 DEF HealthInit, HealthTypeOK
<1>3. EntryInv
  BY DEF HealthInit, EntryInv
<1>4. ASSUME NEW t \in Dispatchers PROVE CheckInv(t)
  <2>1. now = 0 /\ start[t] = 0 /\ checking[t] = "idle"
    BY DEF HealthInit
  <2> QED BY <2>1 DEF CheckInv
<1> QED BY <1>2, <1>3, <1>4 DEF HealthInv

(* A step of one thread that is not a tick leaves clock and the others alone. *)
LEMMA CheckStep ==
  ASSUME HealthInv, NEW t \in Dispatchers,
         \/ Call(t) \/ Hit(t) \/ Miss(t)
         \/ Probe(t) \/ Answered(t) \/ NoAnswer(t) \/ Store(t)
  PROVE  HealthInv'
<1>0. /\ now \in Nat /\ start \in [Dispatchers -> Nat] /\ found \in [Dispatchers -> Verdicts]
      /\ checking \in [Dispatchers -> {"idle", "lookup", "check", "reply", "store", "done"}]
      /\ up \in BOOLEAN /\ cache.stamp \in Nat /\ cache.verdict \in Verdicts
      /\ Ttl \in Nat /\ Timeout \in Nat /\ Timeout <= Ttl
      /\ EntryInv /\ CheckInv(t)
  BY HealthAssumption DEF HealthInv, HealthTypeOK
<1>1. \A v \in Verdicts : v.shown \in Nat /\ v.healthy \in BOOLEAN
  BY DEF Verdicts
<1>2. \A h \in BOOLEAN : [healthy |-> h, shown |-> now] \in Verdicts
  BY <1>0 DEF Verdicts
<1>3. \A s \in Dispatchers \ {t} : CheckInv(s)'
  <2> SUFFICES ASSUME NEW s \in Dispatchers, s # t PROVE CheckInv(s)'
    OBVIOUS
  <2>1. /\ now' = now /\ start'[s] = start[s] /\ checking'[s] = checking[s] /\ found'[s] = found[s]
    BY <1>0 DEF Call, Hit, Miss, Probe, Answered, NoAnswer, Store
  <2> QED BY <2>1 DEF HealthInv, CheckInv
<1>4. HealthTypeOK' /\ EntryInv' /\ CheckInv(t)'
  <2>1. CASE Call(t)
    BY <2>1, <1>0 DEF HealthInv, HealthTypeOK, EntryInv, CheckInv, Call
  <2>2. CASE Hit(t)
    <3>1. HealthTypeOK' /\ EntryInv'
      BY <2>2, <1>0 DEF HealthInv, HealthTypeOK, EntryInv, Hit
    <3>2. /\ cache.verdict.shown >= cache.stamp /\ start[t] = now
          /\ start[t] - cache.stamp < Ttl
          /\ cache.verdict.shown \in Nat /\ start[t] \in Nat
      BY <2>2, <1>0, <1>1 DEF Hit, CheckInv, EntryInv
    <3>3. /\ now' = now /\ start' = start /\ checking'[t] = "done" /\ found'[t] = cache.verdict
      BY <2>2, <1>0 DEF Hit
    <3> QED BY <3>1, <3>2, <3>3, <1>0 DEF CheckInv
  <2>3. CASE Miss(t)
    BY <2>3, <1>0 DEF HealthInv, HealthTypeOK, EntryInv, CheckInv, Miss
  <2>4. CASE Answered(t)
    BY <2>4, <1>0 DEF HealthInv, HealthTypeOK, EntryInv, CheckInv, Answered
  <2>5. CASE NoAnswer(t)
    <3>1. /\ checking[t] \in {"check", "reply"} /\ checking'[t] = "store"
          /\ now' = now /\ cache' = cache /\ start' = start
          /\ found'[t] = [healthy |-> FALSE, shown |-> now]
      BY <2>5, <1>0 DEF NoAnswer
    <3>2. HealthTypeOK' /\ EntryInv'
      BY <2>5, <1>0, <1>2 DEF HealthInv, HealthTypeOK, EntryInv, NoAnswer
    <3>3. start[t] <= now /\ now <= start[t] + Timeout /\ now <= now
      BY <3>1, <1>0 DEF CheckInv
    <3>4. found'[t].shown = now
      BY <3>1
    <3> QED BY <3>1, <3>2, <3>3, <3>4, <1>0 DEF CheckInv
  <2>6. CASE Store(t)
    <3>1. /\ found[t] \in Verdicts /\ found[t].shown \in Nat /\ start[t] \in Nat
          /\ start[t] <= found[t].shown /\ found[t].shown <= now
          /\ now <= start[t] + Timeout
      BY <2>6, <1>0, <1>1 DEF Store, CheckInv
    <3>2. /\ now' = now /\ start' = start /\ checking'[t] = "done" /\ found' = found
          /\ cache'.stored = TRUE /\ cache'.stamp = start[t] /\ cache'.verdict = found[t]
      BY <2>6, <1>0 DEF Store
    <3>3. HealthTypeOK'
      BY <2>6, <1>0, <3>1 DEF HealthInv, HealthTypeOK, Store
    <3>4. EntryInv'
      BY <3>1, <3>2 DEF EntryInv
    <3>5. CheckInv(t)'
      BY <3>1, <3>2, <1>0, HealthAssumption DEF CheckInv
    <3> QED BY <3>3, <3>4, <3>5
  <2>7. CASE Probe(t)
    BY <2>7, <1>0, <1>2 DEF HealthInv, HealthTypeOK, EntryInv, CheckInv, Probe
  <2> QED BY <2>1, <2>2, <2>3, <2>4, <2>5, <2>6, <2>7
<1> QED BY <1>3, <1>4 DEF HealthInv

LEMMA HealthStepInv == HealthInv /\ [HealthNext]_healthVars => HealthInv'
<1> SUFFICES ASSUME HealthInv, [HealthNext]_healthVars PROVE HealthInv'
  OBVIOUS
<1>1. CASE \E t \in Dispatchers :
             \/ Call(t) \/ Hit(t) \/ Miss(t)
         \/ Probe(t) \/ Answered(t) \/ NoAnswer(t) \/ Store(t)
  BY <1>1, CheckStep
<1>2. CASE Flip
  BY <1>2 DEF Flip, HealthInv, HealthTypeOK, EntryInv, CheckInv
<1>3. CASE Tick
  <2>0. /\ now \in Nat /\ now' = now + 1 /\ UNCHANGED <<up, cache, start, found>>
        /\ checking' = [t \in Dispatchers |-> IF checking[t] = "done" THEN "idle" ELSE checking[t]]
        /\ Timeout \in Nat
    BY <1>3, HealthAssumption DEF Tick, HealthInv, HealthTypeOK
  <2>1. HealthTypeOK'
    BY <2>0 DEF HealthInv, HealthTypeOK
  <2>2. EntryInv'
    BY <2>0 DEF HealthInv, EntryInv
  <2>3. ASSUME NEW t \in Dispatchers PROVE CheckInv(t)'
    <3>1. /\ start[t] \in Nat /\ start[t] <= now
          /\ checking[t] \in {"idle", "done"} \/ (checking[t] \in {"check", "reply"} /\ now < start[t] + Timeout)
      BY <1>3 DEF Tick, HealthInv, HealthTypeOK, CheckInv
    <3>x. /\ start'[t] = start[t] /\ found'[t] = found[t] /\ now' = now + 1
          /\ start[t] <= now + 1
      BY <2>0, <3>1
    <3>2. checking'[t] = "idle" \/ (checking'[t] = checking[t] /\ checking[t] \in {"check", "reply"} /\ now < start[t] + Timeout)
      BY <2>0, <3>1
    <3>3. CASE checking'[t] = "idle"
      BY <3>3, <3>x DEF CheckInv
    <3>4. CASE checking'[t] = checking[t] /\ checking[t] \in {"check", "reply"} /\ now < start[t] + Timeout
      <4>1. now + 1 <= start[t] + Timeout
        BY <3>4, <3>1, <2>0
      <4>2. checking[t] = "reply" => found[t].shown >= start[t] /\ found[t].shown <= now + 1
        <5>1. found[t].shown \in Nat
          BY DEF HealthInv, HealthTypeOK, Verdicts
        <5> QED BY <5>1, <2>0 DEF HealthInv, CheckInv
      <4> QED BY <3>4, <3>x, <4>1, <4>2 DEF CheckInv
    <3> QED BY <3>2, <3>3, <3>4
  <2> QED BY <2>1, <2>2, <2>3 DEF HealthInv
<1>4. CASE UNCHANGED healthVars
  BY <1>4 DEF healthVars, HealthInv, HealthTypeOK, EntryInv, CheckInv
<1> QED BY <1>1, <1>2, <1>3, <1>4 DEF HealthNext

(* Whatever checks overlap and overwrite each other's entries, no verdict  *)
(* is older than the time to live.                                         *)
THEOREM HealthRecent == HealthSpec => []VerdictIsRecent
<1>1. HealthInit => HealthInv
  BY HealthInitInv
<1>2. HealthInv /\ [HealthNext]_healthVars => HealthInv'
  BY HealthStepInv
<1>3. HealthInv => VerdictIsRecent
  BY DEF HealthInv, CheckInv, VerdictIsRecent
<1> QED BY <1>1, <1>2, <1>3, PTL DEF HealthSpec

-----------------------------------------------------------------------------
(* What a thread has in hand: one that asked after the first instance was  *)
(* stored has got that one, and one in the constructor asked before.       *)
EmbedderInv(t) ==
  /\ embedding[t] = "load" => asked[t] = NoModel
  /\ embedding[t] = "encode" => instance[t] \in InstanceKinds
  /\ asked[t] # NoModel =>
       /\ asked[t] = cached
       /\ embedding[t] = "encode" => instance[t] = cached
       /\ embedding[t] = "idle" => vectors[t] = cached

EmbedInv == EmbedTypeOK /\ \A t \in Embedders : EmbedderInv(t)

LEMMA EmbedInitInv == EmbedInit => EmbedInv
  BY EmbedderAssumption DEF EmbedInit, EmbedInv, EmbedTypeOK, EmbedderInv, InstanceKinds

(* One thread's step changes what it has in hand, and the cache only while *)
(* that is empty, when no thread has asked it with success.                *)
LEMMA EmbedThreadStep ==
  ASSUME EmbedInv, NEW t \in Embedders,
         AskCached(t) \/ AskFirst(t) \/ LoadModel(t) \/ Encode(t)
  PROVE  EmbedInv'
<1>0. EmbedTypeOK /\ EmbedderInv(t)
  BY DEF EmbedInv
<1>1. EmbedTypeOK'
  <2>1. CASE AskCached(t)
    BY <2>1, <1>0 DEF EmbedTypeOK, AskCached
  <2>2. CASE AskFirst(t)
    BY <2>2, <1>0 DEF EmbedTypeOK, AskFirst
  <2>3. CASE LoadModel(t)
    BY <2>3, <1>0 DEF EmbedTypeOK, LoadModel, KeepsFirst
  <2>4. CASE Encode(t)
    BY <2>4, <1>0 DEF EmbedTypeOK, Encode
  <2> QED BY <2>1, <2>2, <2>3, <2>4
<1>2. cached # NoModel => cached' = cached
  BY DEF AskCached, AskFirst, LoadModel, Encode, KeepsFirst
<1>3. ASSUME NEW s \in Embedders, s # t PROVE EmbedderInv(s)'
  <2>1. /\ embedding'[s] = embedding[s] /\ instance'[s] = instance[s]
        /\ asked'[s] = asked[s] /\ vectors'[s] = vectors[s]
    BY <1>0, <1>3 DEF EmbedTypeOK, AskCached, AskFirst, LoadModel, Encode
  <2> QED BY <2>1, <1>2 DEF EmbedInv, EmbedderInv
<1>4. EmbedderInv(t)'
  <2>1. CASE AskCached(t)
    BY <2>1, <1>0 DEF EmbedTypeOK, EmbedderInv, AskCached
  <2>2. CASE AskFirst(t)
    BY <2>2, <1>0 DEF EmbedTypeOK, EmbedderInv, AskFirst
  <2>3. CASE LoadModel(t)
    BY <2>3, <1>0, EmbedderAssumption DEF EmbedTypeOK, EmbedderInv, LoadModel, InstanceKinds
  <2>4. CASE Encode(t)
    BY <2>4, <1>0 DEF EmbedTypeOK, EmbedderInv, Encode
  <2> QED BY <2>1, <2>2, <2>3, <2>4
<1> QED BY <1>1, <1>3, <1>4 DEF EmbedInv

LEMMA EmbedStepInv == EmbedInv /\ [EmbedNext]_embedVars => EmbedInv'
<1> SUFFICES ASSUME EmbedInv, [EmbedNext]_embedVars PROVE EmbedInv'
  OBVIOUS
<1>1. CASE EmbedNext
  <2>1. PICK t \in Embedders : AskCached(t) \/ AskFirst(t) \/ LoadModel(t) \/ Encode(t)
    BY <1>1 DEF EmbedNext
  <2> QED BY <2>1, EmbedThreadStep
<1>2. CASE UNCHANGED embedVars
  BY <1>2 DEF embedVars, EmbedInv, EmbedTypeOK, EmbedderInv
<1> QED BY <1>1, <1>2

(* get_embedder in embedding/service.py: with any number of threads, the   *)
(* queries of those that asked after the first instance was stored are     *)
(* embedded like all later ones.                                           *)
THEOREM EmbedderShared == EmbedSpec => []EmbedsAlike
<1>1. EmbedInv => EmbedsAlike
  BY DEF EmbedInv, EmbedderInv, EmbedsAlike
<1> QED BY <1>1, EmbedInitInv, EmbedStepInv, PTL DEF EmbedSpec

-----------------------------------------------------------------------------
(* _pool is None until the first pool exists, and a thread in the          *)
(* constructor has not created one yet.                                    *)
CreationInv ==
  /\ global = NoPool => made = {}
  /\ global # NoPool => global \in made
  /\ \A t \in Borrowers : borrowing[t] = "create" => t \notin made
  /\ \A t \in Borrowers : borrowing[t] = "return" => global # NoPool
  /\ \A t \in Borrowers : local[t] # NoPool => local[t] \in made
  /\ \A p \in Pools : p \notin made => free[p] = 0

PoolInv == PoolTypeOK /\ CreationInv /\ LentIsHeld

-----------------------------------------------------------------------------
LEMMA PoolInitInv == PoolInit => PoolInv
<1> SUFFICES ASSUME PoolInit PROVE PoolInv
  OBVIOUS
<1>1. PoolTypeOK
  BY DEF PoolInit, PoolTypeOK, Holding
<1>2. CreationInv
  BY DEF PoolInit, CreationInv
<1>3. LentIsHeld
  BY DEF PoolInit, LentIsHeld, Holding
<1> QED BY <1>1, <1>2, <1>3 DEF PoolInv

-----------------------------------------------------------------------------
(* Lending to t a connection of its pool. *)
LEMMA LendStep ==
  ASSUME PoolInv, NEW t \in Borrowers, borrowing[t] = "getconn", Lend(t, local[t]),
         \/ free[local[t]] > 0 /\ free' = [free EXCEPT ![local[t]] = @ - 1]
         \/ free[local[t]] = 0 /\ free' = free
  PROVE  PoolInv'
<1> DEFINE p == local[t]
<1>0. /\ p \in Pools /\ p # NoPool /\ p \in made
      /\ borrowing \in [Borrowers -> {"idle", "create", "return", "getconn"} \union Holding]
      /\ lent \in [Pools -> SUBSET Borrowers] /\ free \in [Pools -> Nat]
      /\ lost \in [Borrowers -> BOOLEAN]
      /\ MinConn \in Nat /\ MaxConn \in Nat
  BY PoolAssumption DEF PoolInv, PoolTypeOK, CreationInv
<1>1. /\ lent' = [lent EXCEPT ![p] = @ \union {t}] /\ borrowing' = [borrowing EXCEPT ![t] = "body"]
      /\ lost' = [lost EXCEPT ![t] = FALSE] /\ UNCHANGED <<global, made, local>>
  BY DEF Lend
<1>2. t \notin lent[p]
  BY <1>0 DEF PoolInv, LentIsHeld, Holding
<1>3. free' \in [Pools -> Nat]
  <2>1. CASE free[p] > 0 /\ free' = [free EXCEPT ![p] = @ - 1]
    <3>1. free[p] - 1 \in Nat
      BY <2>1, <1>0
    <3> QED BY <2>1, <3>1, <1>0
  <2>2. CASE free' = free
    BY <2>2, <1>0
  <2> QED BY <2>1, <2>2
<1>4. PoolTypeOK'
  BY <1>0, <1>1, <1>3 DEF PoolInv, PoolTypeOK, Holding
<1>5. CreationInv'
  <2>1. \A q \in Pools : q \notin made => free'[q] = free[q]
    BY <1>0
  <2> QED BY <2>1, <1>0, <1>1 DEF PoolInv, CreationInv
<1>6. LentIsHeld'
  BY <1>0, <1>1 DEF PoolInv, LentIsHeld, Holding, Pools
<1> QED BY <1>4, <1>5, <1>6 DEF PoolInv

(* Giving it back. *)
LEMMA PutStep ==
  ASSUME PoolInv, NEW t \in Borrowers, Put(t)
  PROVE  PoolInv'
<1> DEFINE p == local[t]
<1>0. /\ p \in Pools /\ p # NoPool /\ p \in made /\ borrowing[t] = "put"
      /\ borrowing \in [Borrowers -> {"idle", "create", "return", "getconn"} \union Holding]
      /\ lent \in [Pools -> SUBSET Borrowers] /\ free \in [Pools -> Nat]
      /\ MinConn \in Nat /\ MaxConn \in Nat
  BY PoolAssumption DEF PoolInv, PoolTypeOK, CreationInv, Put, Holding
<1>1. /\ lent' = [lent EXCEPT ![p] = @ \ {t}] /\ borrowing' = [borrowing EXCEPT ![t] = "idle"]
      /\ UNCHANGED <<global, made, local, lost>>
      /\ \/ free[p] < MinConn /\ free' = [free EXCEPT ![p] = @ + 1]
         \/ free' = free
  BY DEF Put
<1>2. t \in lent[p]
  BY <1>0 DEF PoolInv, LentIsHeld, Holding
<1>3. free' \in [Pools -> Nat] /\ \A q \in Pools : q # p => free'[q] = free[q]
  BY <1>0, <1>1
<1>4. PoolTypeOK'
  BY <1>0, <1>1, <1>3 DEF PoolInv, PoolTypeOK, Holding
<1>5. CreationInv'
  <2>1. \A q \in Pools : q \notin made => free'[q] = free[q]
    BY <1>0, <1>3
  <2> QED BY <2>1, <1>0, <1>1 DEF PoolInv, CreationInv
<1>6. LentIsHeld'
  BY <1>0, <1>1 DEF PoolInv, LentIsHeld, Holding, Pools
<1> QED BY <1>4, <1>5, <1>6 DEF PoolInv

(* Creating a pool: nobody has borrowed from it yet. *)
LEMMA CreateStep ==
  ASSUME PoolInv, NEW t \in Borrowers, Create(t)
  PROVE  PoolInv'
<1>0. /\ t \in Pools /\ t \notin made /\ t # NoPool
      /\ free \in [Pools -> Nat] /\ MinConn \in Nat /\ MaxConn \in Nat
      /\ borrowing \in [Borrowers -> {"idle", "create", "return", "getconn"} \union Holding]
      /\ borrowing[t] = "create"
  BY PoolAssumption DEF PoolInv, PoolTypeOK, CreationInv, Create, Pools
<1>1. /\ global' = t /\ made' = made \union {t} /\ free' = [free EXCEPT ![t] = MinConn]
      /\ borrowing' = [borrowing EXCEPT ![t] = "return"] /\ UNCHANGED <<lent, local, lost>>
  BY DEF Create
<1>2. PoolTypeOK'
  BY <1>0, <1>1 DEF PoolInv, PoolTypeOK, Holding, Pools
<1>3. CreationInv'
  BY <1>0, <1>1 DEF PoolInv, PoolTypeOK, CreationInv
<1>4. LentIsHeld'
  BY <1>0, <1>1 DEF PoolInv, LentIsHeld, Holding
<1> QED BY <1>2, <1>3, <1>4 DEF PoolInv

LEMMA PoolStepInv == PoolInv /\ [PoolNext]_poolVars => PoolInv'
<1> SUFFICES ASSUME PoolInv, [PoolNext]_poolVars PROVE PoolInv'
  OBVIOUS
<1>1. ASSUME NEW t \in Borrowers,
             Look(t) \/ CreateFails(t) \/ Return(t) \/ GetFails(t) \/ BodyEnds(t)
      PROVE  PoolInv'
  <2>0. /\ borrowing \in [Borrowers -> {"idle", "create", "return", "getconn"} \union Holding]
        /\ local \in [Borrowers -> Pools \union {NoPool}] /\ lost \in [Borrowers -> BOOLEAN]
    BY DEF PoolInv, PoolTypeOK
  <2>1. UNCHANGED <<global, made, free, lent>>
    BY <1>1 DEF Look, CreateFails, Return, GetFails, BodyEnds
  <2>2. PoolTypeOK'
    BY <1>1, <2>0, <2>1
       DEF PoolInv, PoolTypeOK, CreationInv, Look, CreateFails, Return, GetFails, BodyEnds, Holding
  <2>3. CreationInv'
    BY <1>1, <2>0, <2>1
       DEF PoolInv, CreationInv, Look, CreateFails, Return, GetFails, BodyEnds
  <2>4. LentIsHeld'
    BY <1>1, <2>0, <2>1
       DEF PoolInv, LentIsHeld, Look, CreateFails, Return, GetFails, BodyEnds, Holding
  <2> QED BY <2>2, <2>3, <2>4 DEF PoolInv
<1>2. ASSUME NEW t \in Borrowers, GetIdle(t) \/ GetNew(t)
      PROVE  PoolInv'
  BY <1>2, LendStep DEF GetIdle, GetNew
<1>3. CASE UNCHANGED poolVars
  BY <1>3 DEF poolVars, PoolInv, PoolTypeOK, CreationInv, LentIsHeld
<1> QED BY <1>1, <1>2, <1>3, CreateStep, PutStep DEF PoolNext

LEMMA PoolInvariant == PoolSpec => []PoolInv
  BY PoolInitInv, PoolStepInv, PTL DEF PoolSpec

(* get_conn in common/db.py: a connection that is lent is held by the      *)
(* thread that will give it back to its pool, although two threads may     *)
(* create two pools.                                                       *)
THEOREM NothingLeaks == PoolSpec => []LentIsHeld
<1>1. PoolInv => LentIsHeld
  BY DEF PoolInv
<1> QED BY <1>1, PoolInvariant, PTL

-----------------------------------------------------------------------------
LEMMA HealthInvariant == HealthSpec => []HealthInv
  BY HealthInitInv, HealthStepInv, PTL DEF HealthSpec

LEMMA EmbedInvariant == EmbedSpec => []EmbedInv
  BY EmbedInitInv, EmbedStepInv, PTL DEF EmbedSpec

(* The objects of MCShared do not disturb one another: each behaves as its *)
(* own specification says.                                                 *)
LEMMA ObjectsAreIndependent ==
  Spec => GuardSpec /\ PoolSpec /\ HealthSpec /\ EmbedSpec
<1>1. Init => GuardInit /\ PoolInit /\ HealthInit /\ EmbedInit
  BY DEF Init
<1>2. [Next]_sharedVars => [GuardNext]_guardVars /\ [PoolNext]_poolVars
                             /\ [HealthNext]_healthVars /\ [EmbedNext]_embedVars
  BY DEF Next, sharedVars, UseGuard, UsePool, UseHealth, UseEmbedder
<1> QED BY <1>1, <1>2, PTL DEF Spec, GuardSpec, PoolSpec, HealthSpec, EmbedSpec

(* Every object keeps its types, whichever of them the threads use.        *)
THEOREM SharedTypesCorrect == Spec => []SharedTypeOK
<1>1. GuardInv => GuardTypeOK
  BY DEF GuardInv
<1>2. PoolInv => PoolTypeOK
  BY DEF PoolInv
<1>3. HealthInv => HealthTypeOK
  BY DEF HealthInv
<1>4. EmbedInv => EmbedTypeOK
  BY DEF EmbedInv
<1>5. GuardTypeOK /\ PoolTypeOK /\ HealthTypeOK /\ EmbedTypeOK => SharedTypeOK
  BY DEF SharedTypeOK
<1> QED BY <1>1, <1>2, <1>3, <1>4, <1>5, ObjectsAreIndependent, GuardInvAlways,
           PoolInvariant, HealthInvariant, EmbedInvariant, PTL
=============================================================================
