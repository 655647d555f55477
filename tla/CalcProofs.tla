------------------------------ MODULE CalcProofs ------------------------------
(***************************************************************************)
(* Theorems about what a calc service is sent and what it answers:         *)
(* BalancedMerge.tla, for any routes, keys and bounds, and                 *)
(* CalcInference.tla, for any kinds of chunks and any numbers of items.    *)
(***************************************************************************)
EXTENDS BalancedMerge, CalcInference, DataLemmas, SequenceTheorems

(* seen holds the keys of what is merged, what the pointers have passed is *)
(* in seen, and no key is merged twice.                                    *)
SeenInv ==
  /\ \A k \in 1..Len(merged) : KeyOf(merged[k]) \in seen
  /\ \A x \in seen : \E k \in 1..Len(merged) : KeyOf(merged[k]) = x
  /\ \A r \in Routes : \A i \in 1..pointers[r] : route_chunks[r][i] \in seen
  /\ \A k, l \in 1..Len(merged) : k # l => KeyOf(merged[k]) # KeyOf(merged[l])

(* A turn is only taken while there is room. *)
RoomInv ==
  /\ Len(merged) <= MaxTotal
  /\ InRound => Len(merged) < MaxTotal

(* In a round that has merged nothing, the routes before the current turn  *)
(* are exhausted; an unfull merge ends with all routes exhausted.          *)
RoundInv ==
  /\ \A r \in Routes : \E k \in 1..Len(order) : order[k] = r
  /\ \A r \in Routes : Len(route_chunks[r]) <= MaxChunks
  /\ at > 0 /\ ~ progressed =>
       \A k \in 1..Len(order) : k < at => pointers[order[k]] = Len(route_chunks[order[k]])
  /\ done => \/ Len(merged) = MaxTotal
             \/ \A r \in Routes : pointers[r] = Len(route_chunks[r])

MergeInv == MergeTypeOK /\ SeenInv /\ RoomInv /\ RoundInv

-----------------------------------------------------------------------------
(* The lists and orders of MergeInit are sequences. *)
LEMMA InputLists ==
  /\ Lists \subseteq Seq(Keys)
  /\ \A s \in Lists : Len(s) <= MaxChunks
  /\ Orders \subseteq Seq(Routes)
  /\ \A s \in Orders : \A r \in Routes : \E k \in 1..Len(s) : s[k] = r
<1>1. ASSUME NEW s \in Lists PROVE s \in Seq(Keys) /\ Len(s) <= MaxChunks
  <2>1. PICK n \in 0..MaxChunks : s \in [1..n -> Keys]
    BY <1>1 DEF Lists
  <2>2. n \in Nat /\ n <= MaxChunks
    BY <2>1, MergeAssumption
  <2>3. s \in Seq(Keys) /\ Len(s) = n
    BY <2>1, <2>2
  <2> QED BY <2>2, <2>3
<1>2. Cardinality(Routes) \in Nat
  BY FS_CardinalityType, MergeAssumption
<1>3. ASSUME NEW s \in Orders PROVE s \in Seq(Routes) /\ DOMAIN s = 1..Len(s)
  <2>1. s \in [1..Cardinality(Routes) -> Routes]
    BY DEF Orders
  <2> QED BY <2>1, <1>2
<1>4. ASSUME NEW s \in Orders, NEW r \in Routes PROVE \E k \in 1..Len(s) : s[k] = r
  <2>1. \E k \in DOMAIN s : s[k] = r
    BY DEF Orders
  <2> QED BY <2>1, <1>3
<1> QED BY <1>1, <1>3, <1>4

LEMMA MergeInitInv == MergeInit => MergeInv
<1> SUFFICES ASSUME MergeInit PROVE MergeInv
  OBVIOUS
<1>1. route_chunks \in [Routes -> Seq(Keys)] /\ \A r \in Routes : Len(route_chunks[r]) <= MaxChunks
  BY InputLists DEF MergeInit
<1>2. order \in Seq(Routes) /\ \A r \in Routes : \E k \in 1..Len(order) : order[k] = r
  BY InputLists DEF MergeInit
<1>3. MergeTypeOK
  <2>1. merged = <<>> /\ Len(merged) = 0 /\ merged \in Seq([route : Routes, index : Nat \ {0}])
    BY DEF MergeInit
  <2>2. at = 0 /\ Len(order) \in Nat /\ seen = {} /\ progressed = FALSE /\ done = FALSE
    BY <1>2 DEF MergeInit
  <2>3. pointers \in [Routes -> Nat] /\ \A r \in Routes : pointers[r] <= Len(route_chunks[r])
    BY <1>1 DEF MergeInit
  <2>4. at \in 0 .. Len(order) + 1
    BY <2>2
  <2>5. \A k \in 1..Len(merged) : FALSE
    BY <2>1
  <2> QED BY <1>1, <1>2, <2>1, <2>2, <2>3, <2>4, <2>5 DEF MergeTypeOK
<1>4. SeenInv
  BY DEF MergeInit, SeenInv
<1>5. RoomInv
  BY MergeAssumption DEF MergeInit, RoomInv, InRound
<1>6. RoundInv
  BY <1>1, <1>2 DEF MergeInit, RoundInv
<1> QED BY <1>3, <1>4, <1>5, <1>6 DEF MergeInv

-----------------------------------------------------------------------------
(* Merging appends a chunk whose key is new. *)
LEMMA MergeStep ==
  ASSUME MergeInv, NEW i \in 1..MaxChunks, Merge(i)
  PROVE  MergeInv'
<1> DEFINE r == order[at]
           m == [route |-> r, index |-> i]
<1>1. /\ order \in Seq(Routes) /\ at \in 1..Len(order) /\ r \in Routes
      /\ route_chunks \in [Routes -> Seq(Keys)] /\ pointers \in [Routes -> Nat]
      /\ merged \in Seq([route : Routes, index : Nat \ {0}])
      /\ Len(merged) \in Nat /\ Len(merged) < MaxTotal /\ MaxTotal \in Nat
  BY MergeAssumption DEF MergeInv, MergeTypeOK, Merge, InRound, RoomInv
<1>2. /\ i \in Nat \ {0} /\ i <= Len(route_chunks[r]) /\ i > pointers[r]
      /\ route_chunks[r][i] \in Keys /\ route_chunks[r][i] \notin seen
      /\ \A k \in pointers[r] + 1 .. i - 1 : route_chunks[r][k] \in seen
  <2>1. i \in Nat \ {0}
    BY MergeAssumption
  <2>2. route_chunks[r] \in Seq(Keys) /\ pointers[r] \in Nat
    BY <1>1
  <2>3. IsFresh(r, i)
    BY DEF Merge
  <2> QED BY <2>1, <2>2, <2>3 DEF IsFresh
<1>n. PICK n \in Nat : n = Len(merged)
  BY <1>1
<1>3. /\ merged' = Append(merged, m) /\ m \in [route : Routes, index : Nat \ {0}]
      /\ Len(merged') = n + 1
      /\ merged'[n + 1] = m
      /\ \A k \in 1..n : merged'[k] = merged[k]
      /\ merged' \in Seq([route : Routes, index : Nat \ {0}])
  BY <1>1, <1>2, <1>n DEF Merge
<1>4. /\ UNCHANGED <<route_chunks, order, done>> /\ progressed' = TRUE
      /\ seen' = seen \union {route_chunks[r][i]}
      /\ pointers' = [pointers EXCEPT ![r] = i]
  BY DEF Merge, input
<1>5. /\ KeyOf(merged[n + 1])' = route_chunks[r][i]
      /\ \A k \in 1..n : KeyOf(merged[k])' = KeyOf(merged[k])
  <2>1. m.route = r /\ m.index = i
    OBVIOUS
  <2> QED BY <1>3, <1>4, <2>1 DEF KeyOf
<1>s. \A k : k \in 1..Len(merged') <=> k \in 1..n \/ k = n + 1
  BY <1>3
<1>6. MergeTypeOK'
  <2>1. at' \in 0 .. Len(order) + 1
    BY <1>1 DEF Merge
  <2>2. pointers' \in [Routes -> Nat] /\ \A s \in Routes : pointers'[s] <= Len(route_chunks[s])
    BY <1>1, <1>2, <1>4 DEF MergeInv, MergeTypeOK
  <2>3. \A k \in 1..Len(merged') : merged'[k].index <= Len(route_chunks[merged'[k].route])
    <3>1. \A k \in 1..n : merged[k].index <= Len(route_chunks[merged[k].route])
      BY <1>n DEF MergeInv, MergeTypeOK
    <3>2. m.route = r /\ m.index = i
      OBVIOUS
    <3> QED BY <1>2, <1>3, <1>s, <3>1, <3>2
  <2>4. seen' \subseteq Keys
    BY <1>2, <1>4 DEF MergeInv, MergeTypeOK
  <2> QED BY <1>1, <1>3, <1>4, <2>1, <2>2, <2>3, <2>4 DEF MergeInv, MergeTypeOK
<1>7. SeenInv'
  <2>1. \A k \in 1..Len(merged') : KeyOf(merged[k])' \in seen'
    BY <1>n, <1>s, <1>4, <1>5 DEF MergeInv, SeenInv
  <2>2. \A x \in seen' : \E k \in 1..Len(merged') : KeyOf(merged[k])' = x
    <3> SUFFICES ASSUME NEW x \in seen' PROVE \E k \in 1..Len(merged') : KeyOf(merged[k])' = x
      OBVIOUS
    <3>1. CASE x = route_chunks[r][i]
      BY <3>1, <1>s, <1>5
    <3>2. CASE x \in seen
      <4>1. PICK k \in 1..n : KeyOf(merged[k]) = x
        BY <3>2, <1>n DEF MergeInv, SeenInv
      <4> QED BY <4>1, <1>s, <1>5
    <3> QED BY <3>1, <3>2, <1>4
  <2>3. \A s \in Routes : \A k \in 1..pointers'[s] : route_chunks[s][k] \in seen'
    <3> SUFFICES ASSUME NEW s \in Routes, NEW k \in 1..pointers'[s]
                 PROVE  route_chunks[s][k] \in seen'
      OBVIOUS
    <3>1. CASE s # r
      BY <3>1, <1>1, <1>4 DEF MergeInv, SeenInv
    <3>2. CASE s = r
      <4>1. pointers'[s] = i /\ pointers[r] \in Nat
        BY <3>2, <1>1, <1>4
      <4>2. k = i \/ k \in 1..pointers[r] \/ k \in pointers[r] + 1 .. i - 1
        BY <4>1, <1>2
      <4> QED BY <4>2, <3>2, <1>1, <1>2, <1>4 DEF MergeInv, SeenInv
    <3> QED BY <3>1, <3>2
  <2>4. \A k, l \in 1..Len(merged') : k # l => KeyOf(merged[k])' # KeyOf(merged[l])'
    <3> SUFFICES ASSUME NEW k \in 1..Len(merged'), NEW l \in 1..Len(merged'), k # l
                 PROVE  KeyOf(merged[k])' # KeyOf(merged[l])'
      OBVIOUS
    <3>1. \A p \in 1..n : KeyOf(merged[p])' # route_chunks[r][i]
      BY <1>2, <1>5, <1>n DEF MergeInv, SeenInv
    <3>2. \A p, q \in 1..n : p # q => KeyOf(merged[p])' # KeyOf(merged[q])'
      BY <1>5, <1>n DEF MergeInv, SeenInv
    <3>3. (k \in 1..n \/ k = n + 1) /\ (l \in 1..n \/ l = n + 1)
      BY <1>s
    <3> QED BY <3>1, <3>2, <3>3, <1>5
  <2> QED BY <2>1, <2>2, <2>3, <2>4, <1>4 DEF SeenInv
<1>8. RoomInv'
  <2>1. Len(merged') <= MaxTotal
    BY <1>1, <1>3, <1>n
  <2>2. at' \in 1..Len(order) => Len(merged') < MaxTotal
    BY <1>1, <1>3, <1>n DEF Merge
  <2> QED BY <2>1, <2>2, <1>4 DEF RoomInv, InRound
<1>9. RoundInv'
  <2>1. ~ done'
    BY <1>4 DEF Merge, InRound
  <2> QED BY <2>1, <1>4 DEF MergeInv, RoundInv
<1> QED BY <1>6, <1>7, <1>8, <1>9 DEF MergeInv

-----------------------------------------------------------------------------
LEMMA MergeStepInv == MergeInv /\ [MergeNext]_mergeVars => MergeInv'
<1> SUFFICES ASSUME MergeInv, [MergeNext]_mergeVars PROVE MergeInv'
  OBVIOUS
<1>0. /\ order \in Seq(Routes) /\ Len(order) \in Nat /\ at \in 0..Len(order) + 1
      /\ Len(merged) \in Nat /\ MaxTotal \in Nat
      /\ route_chunks \in [Routes -> Seq(Keys)] /\ pointers \in [Routes -> Nat]
  BY MergeAssumption DEF MergeInv, MergeTypeOK
<1>1. CASE StartRound
  <2>0. UNCHANGED <<route_chunks, order, pointers, merged, seen>>
    BY <1>1 DEF StartRound, input
  <2>1. CASE Len(merged) < MaxTotal /\ order # <<>>
    <3>1. at' = 1 /\ progressed' = FALSE /\ done' = done /\ ~ done
      BY <1>1, <2>1 DEF StartRound
    <3>2. MergeTypeOK'
      <4>1. at' \in 0..Len(order') + 1
        BY <2>0, <3>1, <1>0
      <4>2. progressed' \in BOOLEAN /\ done' \in BOOLEAN
        BY <3>1 DEF MergeInv, MergeTypeOK
      <4> QED BY <2>0, <4>1, <4>2 DEF MergeInv, MergeTypeOK
    <3>3. SeenInv'
      BY <2>0 DEF MergeInv, SeenInv, KeyOf
    <3>4. RoomInv' /\ RoundInv'
      BY <2>0, <2>1, <3>1, <1>0 DEF MergeInv, RoomInv, RoundInv, InRound
    <3> QED BY <3>2, <3>3, <3>4 DEF MergeInv
  <2>2. CASE ~ (Len(merged) < MaxTotal /\ order # <<>>)
    <3>1. UNCHANGED <<at, progressed>> /\ done' = TRUE
      BY <1>1, <2>2 DEF StartRound
    <3>2. MergeTypeOK'
      BY <2>0, <3>1 DEF MergeInv, MergeTypeOK
    <3>3. SeenInv' /\ RoomInv'
      BY <2>0, <3>1 DEF MergeInv, SeenInv, RoomInv, KeyOf, InRound
    <3>4. Len(merged) = MaxTotal \/ \A r \in Routes : pointers[r] = Len(route_chunks[r])
      <4>1. CASE order = <<>>
        <5>1. Len(order) = 0
          BY <4>1
        <5>2. \A r \in Routes : FALSE
          BY <5>1 DEF MergeInv, RoundInv
        <5> QED BY <5>2
      <4>2. CASE order # <<>>
        BY <4>2, <2>2, <1>0 DEF MergeInv, RoomInv
      <4> QED BY <4>1, <4>2
    <3>5. RoundInv'
      BY <2>0, <3>1, <3>4 DEF MergeInv, RoundInv
    <3> QED BY <3>2, <3>3, <3>5 DEF MergeInv
  <2> QED BY <2>1, <2>2
<1>2. CASE \E i \in 1..MaxChunks : Merge(i)
  BY <1>2, MergeStep
<1>3. CASE Exhaust
  <2> DEFINE r == order[at]
  <2>1. /\ UNCHANGED <<route_chunks, order, merged, seen, progressed, done>> /\ ~ done
        /\ at \in 1..Len(order) /\ at' = at + 1 /\ r \in Routes
        /\ pointers' = [pointers EXCEPT ![r] = Len(route_chunks[r])]
        /\ \A i \in pointers[r] + 1 .. Len(route_chunks[r]) : route_chunks[r][i] \in seen
    BY <1>3, <1>0 DEF Exhaust, input, InRound
  <2>2. Len(route_chunks[r]) \in Nat /\ pointers[r] \in Nat
    BY <2>1, <1>0
  <2>3. MergeTypeOK'
    BY <2>1, <2>2, <1>0 DEF MergeInv, MergeTypeOK
  <2>4. SeenInv'
    <3>1. ASSUME NEW s \in Routes, NEW i \in 1..pointers'[s] PROVE route_chunks[s][i] \in seen
      <4>1. CASE s = r
        <5>1. i \in 1..pointers[r] \/ i \in pointers[r] + 1 .. Len(route_chunks[r])
          BY <4>1, <2>1, <2>2, <1>0
        <5> QED BY <5>1, <4>1, <2>1 DEF MergeInv, SeenInv
      <4>2. CASE s # r
        BY <4>2, <2>1, <1>0 DEF MergeInv, SeenInv
      <4> QED BY <4>1, <4>2
    <3> QED BY <3>1, <2>1 DEF MergeInv, SeenInv, KeyOf
  <2>5. RoomInv'
    BY <2>1, <1>0 DEF MergeInv, RoomInv, InRound
  <2>6. RoundInv'
    <3>1. ASSUME ~ progressed', NEW k \in 1..Len(order), k < at'
          PROVE  pointers'[order[k]] = Len(route_chunks[order[k]])
      <4>1. order[k] \in Routes
        BY <1>0
      <4>2. CASE order[k] = r
        BY <4>1, <4>2, <2>1, <1>0
      <4>3. CASE order[k] # r
        <5>1. k < at /\ at > 0
          BY <4>3, <3>1, <2>1
        <5>2. pointers[order[k]] = Len(route_chunks[order[k]])
          BY <5>1, <3>1, <2>1 DEF MergeInv, RoundInv
        <5> QED BY <5>2, <4>1, <4>3, <2>1, <1>0
      <4> QED BY <4>2, <4>3
    <3> QED BY <3>1, <2>1 DEF MergeInv, RoundInv
  <2> QED BY <2>3, <2>4, <2>5, <2>6 DEF MergeInv
<1>4. CASE EndRound
  <2>0. /\ UNCHANGED <<route_chunks, order, pointers, merged, seen, progressed>>
        /\ at = Len(order) + 1 /\ ~ done
    BY <1>4 DEF EndRound, input
  <2>1. CASE progressed
    <3>1. at' = 0 /\ done' = done
      BY <1>4, <2>1 DEF EndRound
    <3> QED BY <2>0, <2>1, <3>1, <1>0
         DEF MergeInv, MergeTypeOK, SeenInv, RoomInv, RoundInv, KeyOf, InRound
  <2>2. CASE ~ progressed
    <3>1. at' = at /\ done' = TRUE
      BY <1>4, <2>2 DEF EndRound
    <3>2. \A r \in Routes : pointers[r] = Len(route_chunks[r])
      <4> SUFFICES ASSUME NEW r \in Routes PROVE pointers[r] = Len(route_chunks[r])
        OBVIOUS
      <4>1. PICK k \in 1..Len(order) : order[k] = r
        BY DEF MergeInv, RoundInv
      <4>2. k < at /\ at > 0
        BY <2>0, <1>0
      <4> QED BY <4>1, <4>2, <2>2 DEF MergeInv, RoundInv
    <3>3. MergeTypeOK' /\ SeenInv' /\ RoomInv'
      BY <2>0, <3>1 DEF MergeInv, MergeTypeOK, SeenInv, RoomInv, KeyOf, InRound
    <3>4. RoundInv'
      BY <2>0, <3>1, <3>2 DEF MergeInv, RoundInv
    <3> QED BY <3>3, <3>4 DEF MergeInv
  <2> QED BY <2>1, <2>2
<1>5. CASE UNCHANGED mergeVars
  BY <1>5 DEF mergeVars, input, MergeInv, MergeTypeOK, SeenInv, RoomInv, RoundInv, KeyOf, InRound
<1> QED BY <1>1, <1>2, <1>3, <1>4, <1>5 DEF MergeNext

(* The invariant holds in every state the merge reaches. *)
THEOREM MergeInvariant == MergeSpec => []MergeInv
<1>1. MergeInit => MergeInv
  BY MergeInitInv
<1>2. MergeInv /\ [MergeNext]_mergeVars => MergeInv'
  BY MergeStepInv
<1> QED BY <1>1, <1>2, PTL DEF MergeSpec

(* No chunk is merged twice, and never more than max_total are merged. *)
THEOREM MergeNoDuplicates == MergeSpec => []NoDuplicates
<1>1. MergeInv => NoDuplicates
  BY DEF MergeInv, SeenInv, RoomInv, NoDuplicates
<1> QED BY <1>1, MergeInvariant, PTL

(* A merge that returns is full or has taken in every chunk. *)
THEOREM MergeComplete == MergeSpec => []NothingLeftOut
<1>1. MergeInv => NothingLeftOut
  <2> SUFFICES ASSUME MergeInv, done, Len(merged) # MaxTotal,
                      NEW r \in Routes, NEW i \in 1..MaxChunks, i <= Len(route_chunks[r])
               PROVE  \E k \in 1..Len(merged) : KeyOf(merged[k]) = route_chunks[r][i]
    BY DEF NothingLeftOut
  <2>1. pointers[r] = Len(route_chunks[r]) /\ Len(route_chunks[r]) \in Nat
    BY DEF MergeInv, RoundInv, MergeTypeOK
  <2>2. i \in 1..pointers[r]
    BY <2>1, MergeAssumption
  <2>3. route_chunks[r][i] \in seen
    BY <2>2 DEF MergeInv, SeenInv
  <2> QED BY <2>3 DEF MergeInv, SeenInv
<1> QED BY <1>1, MergeInvariant, PTL

-----------------------------------------------------------------------------
(* After c rounds, no route has more than c + 1 chunks in, and one that is *)
(* not exhausted at least c.  While there is room, the routes whose turn   *)
(* has come in this round have at most c + 1, an unexhausted one exactly   *)
(* that, and the others c; a full list ends the round for all of them.     *)
Turns(k) == IF k < at THEN 1 ELSE 0

BalancedAfter(c) ==
  \A k \in 1..Len(order) :
    /\ Share(order[k]) <= c + 1
    /\ pointers[order[k]] < Len(route_chunks[order[k]]) => Share(order[k]) >= c
    /\ Len(merged) < MaxTotal =>
         /\ Share(order[k]) <= c + Turns(k)
         /\ pointers[order[k]] < Len(route_chunks[order[k]]) => Share(order[k]) = c + Turns(k)

BalanceInv ==
  /\ \A k, l \in 1..Len(order) : order[k] = order[l] => k = l
  /\ \E c \in Nat : BalancedAfter(c)

(* A route's share is a number; appending a chunk raises that of its route *)
(* by one and leaves the others alone.                                     *)
LEMMA ShareGrows ==
  ASSUME MergeTypeOK, NEW m \in [route : Routes, index : Nat \ {0}], NEW s \in Routes
  PROVE  /\ Share(s) \in Nat
         /\ merged' = Append(merged, m) => Share(s)' = Share(s) + (IF m.route = s THEN 1 ELSE 0)
         /\ merged' = merged => Share(s)' = Share(s)
<1> PICK n \in Nat : n = Len(merged)
  BY DEF MergeTypeOK
<1> DEFINE S == {k \in 1..Len(merged) : merged[k].route = s}
<1>1. IsFiniteSet(S) /\ Cardinality(S) \in Nat /\ S \in SUBSET (1..n)
  <2>1. S \in SUBSET (1..n) /\ IsFiniteSet(1..n)
    BY FS_Interval
  <2> HIDE DEF S
  <2> QED BY <2>1, FS_Subset, FS_CardinalityType
<1>2. ASSUME merged' = Append(merged, m)
      PROVE  Share(s)' = Cardinality(S) + (IF m.route = s THEN 1 ELSE 0)
  <2>1. Len(merged') = n + 1 /\ merged'[n + 1] = m /\ \A k \in 1..n : merged'[k] = merged[k]
    BY <1>2 DEF MergeTypeOK
  <2>2. CASE m.route = s
    <3>1. {k \in 1..Len(merged') : merged'[k].route = s} = S \union {n + 1}
      BY <2>1, <2>2
    <3>2. n + 1 \notin S
      BY <1>1
    <3> HIDE DEF S
    <3>3. Cardinality(S \union {n + 1}) = Cardinality(S) + 1
      BY <1>1, <3>2, FS_AddElement
    <3> QED BY <2>2, <3>1, <3>3 DEF Share
  <2>3. CASE m.route # s
    <3>1. {k \in 1..Len(merged') : merged'[k].route = s} = S
      BY <2>1, <2>3
    <3>2. Share(s)' = Cardinality(S)
      BY <3>1 DEF Share
    <3> HIDE DEF S
    <3> QED BY <2>3, <3>2, <1>1
  <2> QED BY <2>2, <2>3
<1> QED BY <1>1, <1>2 DEF Share

(* The chosen order names every route once. *)
LEMMA OrderIsInjective ==
  ASSUME NEW s \in Orders
  PROVE  \A k, l \in 1..Len(s) : s[k] = s[l] => k = l
<1> DEFINE n == Cardinality(Routes)
<1>1. n \in Nat
  BY FS_CardinalityType, MergeAssumption
<1>2. IsFiniteSet(1..n) /\ Cardinality(1..n) = n
  BY <1>1, FS_Interval
<1>3. s \in [1..n -> Routes] /\ Len(s) = n /\ DOMAIN s = 1..n
  BY <1>1 DEF Orders
<1>4. s \in Surjection(1..n, Routes)
  <2>1. \A r \in Routes : \E k \in 1..n : s[k] = r
    BY <1>3 DEF Orders
  <2> QED BY <1>3, <2>1 DEF Surjection
<1>5. s \in Injection(1..n, Routes)
  <2> HIDE DEF n
  <2> QED BY <1>2, <1>4, FS_SurjSameCardinalityImpliesInj DEF n
<1> QED BY <1>3, <1>5 DEF Injection, IsInjective

LEMMA InitBalanced == MergeInit => BalanceInv
<1> SUFFICES ASSUME MergeInit PROVE BalanceInv
  OBVIOUS
<1>1. \A k, l \in 1..Len(order) : order[k] = order[l] => k = l
  BY OrderIsInjective DEF MergeInit
<1>2. \A s : Share(s) = 0
  <2>1. \A s : {k \in 1..Len(merged) : merged[k].route = s} = {}
    BY DEF MergeInit
  <2> QED BY <2>1, FS_EmptySet DEF Share
<1>3. \A k \in 1..Len(order) : Turns(k) = 0
  <2>1. at = 0 /\ order \in Seq(Routes)
    BY InputLists DEF MergeInit
  <2> QED BY <2>1 DEF Turns
<1>4. BalancedAfter(0)
  BY <1>2, <1>3 DEF BalancedAfter
<1> QED BY <1>1, <1>4 DEF BalanceInv

LEMMA StepBalanced == MergeInv /\ BalanceInv /\ [MergeNext]_mergeVars => BalanceInv'
<1> SUFFICES ASSUME MergeInv, BalanceInv, [MergeNext]_mergeVars PROVE BalanceInv'
  OBVIOUS
<1>0. /\ order \in Seq(Routes) /\ Len(order) \in Nat /\ at \in 0..Len(order) + 1
      /\ Len(merged) \in Nat /\ MaxTotal \in Nat
      /\ route_chunks \in [Routes -> Seq(Keys)] /\ pointers \in [Routes -> Nat]
      /\ MergeTypeOK
      /\ \A k, l \in 1..Len(order) : order[k] = order[l] => k = l
  BY MergeAssumption DEF MergeInv, MergeTypeOK, BalanceInv
<1>c. PICK c \in Nat : BalancedAfter(c)
  BY DEF BalanceInv
<1>s. /\ \A k \in 1..Len(order) : order[k] \in Routes /\ Len(route_chunks[order[k]]) \in Nat
                                  /\ pointers[order[k]] \in Nat
      /\ \A k \in 1..Len(order) : Share(order[k]) \in Nat
  <2>1. ASSUME NEW k \in 1..Len(order) PROVE Share(order[k]) \in Nat
    <3>1. order[k] \in Routes /\ [route |-> order[k], index |-> 1] \in [route : Routes, index : Nat \ {0}]
      BY <1>0
    <3> QED BY <1>0, <3>1, ShareGrows
  <2> QED BY <1>0, <2>1
<1>1. CASE StartRound
  <2>1. /\ UNCHANGED <<route_chunks, order, pointers, merged>>
        /\ at = 0 /\ at' \in {0, 1}
    BY <1>1 DEF StartRound, input
  <2>2. \A k \in 1..Len(order) : Turns(k)' = Turns(k)
    BY <2>1 DEF Turns
  <2>3. BalancedAfter(c)'
    BY <2>1, <2>2, <1>c DEF BalancedAfter, Share
  <2> QED BY <2>1, <2>3, <1>0 DEF BalanceInv
<1>2. ASSUME NEW i \in 1..MaxChunks, Merge(i) PROVE BalanceInv'
  <2> DEFINE r == order[at]
             m == [route |-> r, index |-> i]
  <2>1. /\ at \in 1..Len(order) /\ r \in Routes /\ i \in Nat \ {0}
        /\ i > pointers[r] /\ i <= Len(route_chunks[r])
        /\ Len(merged) < MaxTotal
    <3>1. at \in 1..Len(order) /\ Len(merged) < MaxTotal /\ i \in Nat \ {0}
      BY <1>2, MergeAssumption DEF Merge, InRound, MergeInv, RoomInv
    <3>2. r \in Routes /\ pointers[r] \in Nat /\ Len(route_chunks[r]) \in Nat
      BY <3>1, <1>s
    <3>3. i \in pointers[r] + 1 .. Len(route_chunks[r])
      BY <1>2 DEF Merge, IsFresh
    <3> QED BY <3>1, <3>2, <3>3
  <2>2. /\ merged' = Append(merged, m) /\ UNCHANGED <<route_chunks, order>>
        /\ pointers' = [pointers EXCEPT ![r] = i]
        /\ at' = IF Len(merged') >= MaxTotal THEN Len(order) + 1 ELSE at + 1
    BY <1>2 DEF Merge, input
  <2>3. \A k \in 1..Len(order) : Share(order[k])' = Share(order[k]) + (IF k = at THEN 1 ELSE 0)
    <3> SUFFICES ASSUME NEW k \in 1..Len(order)
                 PROVE  Share(order[k])' = Share(order[k]) + (IF k = at THEN 1 ELSE 0)
      OBVIOUS
    <3>1. m \in [route : Routes, index : Nat \ {0}] /\ order[k] \in Routes
      BY <2>1, <1>s
    <3>2. Share(order[k])' = Share(order[k]) + (IF m.route = order[k] THEN 1 ELSE 0)
      <4>1. PICK s \in Routes, a \in [route : Routes, index : Nat \ {0}] : s = order[k] /\ a = m
        BY <3>1
      <4>2. merged' = Append(merged, a) /\ order'[k] = s
        BY <4>1, <2>2
      <4>3. Share(s)' = Share(s) + (IF a.route = s THEN 1 ELSE 0)
        BY <4>2, <1>0, ShareGrows
      <4>4. Share(order[k]) = Share(s) /\ Share(order[k])' = Share(s)' /\ a.route = m.route
        BY <4>1, <4>2
      <4> QED BY <4>1, <4>3, <4>4
    <3>3. m.route = order[k] <=> k = at
      BY <1>0, <2>1
    <3> QED BY <3>2, <3>3
  <2>4. Share(r) = c
    <3>1. pointers[order[at]] < Len(route_chunks[order[at]]) /\ Turns(at) = 0
      BY <2>1, <1>s DEF Turns
    <3> QED BY <3>1, <2>1, <1>c, <1>s DEF BalancedAfter
  <2>5. BalancedAfter(c)'
    <3> SUFFICES ASSUME NEW k \in 1..Len(order)
        PROVE  /\ Share(order[k])' <= c + 1
               /\ pointers'[order[k]] < Len(route_chunks[order[k]]) => Share(order[k])' >= c
               /\ Len(merged') < MaxTotal =>
                    /\ Share(order[k])' <= c + Turns(k)'
                    /\ pointers'[order[k]] < Len(route_chunks[order[k]])
                         => Share(order[k])' = c + Turns(k)'
      BY <2>2 DEF BalancedAfter
    <3>1. CASE k = at
      <4>1. Share(order[k])' = c + 1
        BY <2>3, <2>4, <3>1, <1>s
      <4>2. Len(merged') < MaxTotal => Turns(k)' = 1
        <5>1. Len(merged') \in Nat
          BY <2>1, <2>2, <1>0
        <5> QED BY <2>2, <2>1, <3>1, <1>0, <5>1 DEF Turns
      <4> QED BY <4>1, <4>2
    <3>2. CASE k # at
      <4>1. Share(order[k])' = Share(order[k]) /\ Share(order[k]) \in Nat
        BY <2>3, <3>2, <1>s
      <4>2. pointers'[order[k]] = pointers[order[k]]
        BY <2>1, <2>2, <3>2, <1>0, <1>s
      <4>3. Len(merged') < MaxTotal => Turns(k)' = Turns(k)
        <5>1. Len(merged') \in Nat
          BY <2>1, <2>2, <1>0
        <5> QED BY <2>2, <2>1, <3>2, <1>0, <5>1 DEF Turns
      <4>4. /\ Share(order[k]) <= c + 1
            /\ pointers[order[k]] < Len(route_chunks[order[k]]) => Share(order[k]) >= c
            /\ Share(order[k]) <= c + Turns(k)
            /\ pointers[order[k]] < Len(route_chunks[order[k]]) => Share(order[k]) = c + Turns(k)
        BY <1>c, <2>1 DEF BalancedAfter
      <4> QED BY <4>1, <4>2, <4>3, <4>4
    <3> QED BY <3>1, <3>2
  <2> QED BY <2>2, <2>5, <1>0 DEF BalanceInv
<1>3. CASE Exhaust
  <2> DEFINE r == order[at]
  <2>1. /\ UNCHANGED <<route_chunks, order, merged>>
        /\ at \in 1..Len(order) /\ at' = at + 1 /\ r \in Routes
        /\ pointers' = [pointers EXCEPT ![r] = Len(route_chunks[r])]
        /\ Len(merged) < MaxTotal
    BY <1>3, <1>0 DEF Exhaust, input, InRound, MergeInv, RoomInv
  <2>2. BalancedAfter(c)'
    <3> SUFFICES ASSUME NEW k \in 1..Len(order)
        PROVE  /\ Share(order[k]) <= c + 1
               /\ pointers'[order[k]] < Len(route_chunks[order[k]]) => Share(order[k]) >= c
               /\ Share(order[k]) <= c + Turns(k)'
               /\ pointers'[order[k]] < Len(route_chunks[order[k]])
                    => Share(order[k]) = c + Turns(k)'
      BY <2>1 DEF BalancedAfter, Share
    <3>1. /\ Share(order[k]) <= c + Turns(k) /\ Share(order[k]) \in Nat
          /\ pointers[order[k]] < Len(route_chunks[order[k]]) => Share(order[k]) = c + Turns(k)
      BY <1>c, <1>s, <2>1 DEF BalancedAfter
    <3>2. CASE k = at
      <4>1. pointers'[order[k]] = Len(route_chunks[order[k]]) /\ Turns(k) = 0 /\ Turns(k)' = 1
        BY <3>2, <2>1, <1>0 DEF Turns
      <4> QED BY <3>1, <4>1, <1>s
    <3>3. CASE k # at
      <4>1. pointers'[order[k]] = pointers[order[k]] /\ Turns(k)' = Turns(k) /\ Turns(k) \in {0, 1}
        BY <3>3, <2>1, <1>0, <1>s DEF Turns
      <4> QED BY <3>1, <4>1
    <3> QED BY <3>2, <3>3
  <2> QED BY <2>1, <2>2, <1>0 DEF BalanceInv
<1>4. CASE EndRound
  <2>1. UNCHANGED <<route_chunks, order, pointers, merged>> /\ at = Len(order) + 1
    BY <1>4 DEF EndRound, input
  <2>2. \A k \in 1..Len(order) : Turns(k) = 1
    BY <2>1, <1>0 DEF Turns
  <2>3. CASE at' = 0
    <3>1. \A k \in 1..Len(order) : Turns(k)' = 0
      BY <2>3 DEF Turns
    <3>2. CASE Len(merged) < MaxTotal
      <4>1. \A k \in 1..Len(order) :
              /\ Share(order[k]) <= c + 1 /\ Share(order[k]) \in Nat
              /\ pointers[order[k]] < Len(route_chunks[order[k]]) => Share(order[k]) = c + 1
        BY <1>c, <1>s, <2>2, <3>2 DEF BalancedAfter
      <4>2. BalancedAfter(c + 1)'
        <5> SUFFICES ASSUME NEW k \in 1..Len(order)
            PROVE  /\ Share(order[k]) <= c + 2
                   /\ pointers[order[k]] < Len(route_chunks[order[k]]) => Share(order[k]) >= c + 1
                   /\ Share(order[k]) <= c + 1
                   /\ pointers[order[k]] < Len(route_chunks[order[k]]) => Share(order[k]) = c + 1
          BY <2>1, <3>1 DEF BalancedAfter, Share
        <5> QED BY <4>1
      <4> QED BY <2>1, <4>2, <1>0 DEF BalanceInv
    <3>3. CASE ~ (Len(merged) < MaxTotal)
      <4>1. BalancedAfter(c)'
        BY <1>c, <2>1, <3>3 DEF BalancedAfter, Share
      <4> QED BY <2>1, <4>1, <1>0 DEF BalanceInv
    <3> QED BY <3>2, <3>3
  <2>4. CASE at' = at
    <3>1. BalancedAfter(c)'
      BY <1>c, <2>1, <2>4 DEF BalancedAfter, Share, Turns
    <3> QED BY <2>1, <3>1, <1>0 DEF BalanceInv
  <2> QED BY <1>4, <2>3, <2>4 DEF EndRound
<1>5. CASE UNCHANGED mergeVars
  <2>1. UNCHANGED <<route_chunks, order, at, pointers, merged>>
    BY <1>5 DEF mergeVars, input
  <2>2. BalancedAfter(c)'
    BY <1>c, <2>1 DEF BalancedAfter, Share, Turns
  <2> QED BY <2>1, <2>2, <1>0 DEF BalanceInv
<1> QED BY <1>1, <1>2, <1>3, <1>4, <1>5 DEF MergeNext

(* The merge is round-robin: no route gets more than one chunk ahead of    *)
(* another that has chunks left, however many duplicates are skipped.      *)
THEOREM MergeBalanced == MergeSpec => []Balanced
<1>1. MergeInit => BalanceInv
  BY InitBalanced
<1>2. MergeInv /\ MergeInv' /\ BalanceInv /\ [MergeNext]_mergeVars => BalanceInv'
  BY StepBalanced
<1>3. MergeInv /\ BalanceInv => Balanced
  <2> SUFFICES ASSUME MergeInv, BalanceInv, NEW r \in Routes, NEW s \in Routes,
                      Share(r) > Share(s) + 1
               PROVE  pointers[s] = Len(route_chunks[s])
    BY DEF Balanced
  <2>1. PICK c \in Nat : BalancedAfter(c)
    BY DEF BalanceInv
  <2>2. PICK k \in 1..Len(order), l \in 1..Len(order) : order[k] = r /\ order[l] = s
    BY DEF MergeInv, RoundInv
  <2>3. /\ Share(r) <= c + 1
        /\ pointers[s] < Len(route_chunks[s]) => Share(s) >= c
    BY <2>1, <2>2 DEF BalancedAfter
  <2>4. Share(r) \in Nat /\ Share(s) \in Nat
    <3>1. \A q \in Routes : [route |-> q, index |-> 1] \in [route : Routes, index : Nat \ {0}]
      OBVIOUS
    <3> QED BY <3>1, ShareGrows DEF MergeInv
  <2>5. pointers[s] <= Len(route_chunks[s]) /\ pointers[s] \in Nat /\ Len(route_chunks[s]) \in Nat
    BY DEF MergeInv, MergeTypeOK
  <2> QED BY <2>3, <2>4, <2>5
<1> QED BY <1>1, <1>2, <1>3, MergeInvariant, PTL DEF MergeSpec

-----------------------------------------------------------------------------
(* CalcInference.tla. *)

(* Items as the backends make them, and of what kind. *)
Baustein == [kind : Kinds, conf : 0..100, page : Nat]

(* An item names a page that was sent; it names none if nothing was sent.  *)
Traced(sent, items) ==
  \A k \in DOMAIN items :
    items[k].page # 0 \/ sent # <<>> => \E i \in DOMAIN sent : sent[i].page = items[k].page

WeakFacts(sent) ==
  LET top == MostSimilar(sent, CalcItems)
      facts == [k \in DOMAIN top |-> Fact(top[k])] IN
  \/ ConfSum(facts) < 68 * Len(facts)
  \/ \A k \in DOMAIN facts : facts[k].conf < 74

LEMMA ChunkFields ==
  ASSUME NEW c \in ChunkKinds
  PROVE  c.page \in Nat /\ c.similarity \in Int /\ c.overlap \in Nat /\ c.code \in BOOLEAN
BY CalcAssumption

LEMMA ItemsOfChunk ==
  ASSUME NEW c \in ChunkKinds
  PROVE  /\ Fact(c) \in Baustein /\ Fact(c) \in NotCode /\ Fact(c).page = c.page
         /\ CodeBlock(c) \in Baustein /\ CodeBlock(c) \notin NotCode
         /\ CodeBlock(c).page = c.page /\ CodeBlock(c).conf = 100
<1>1. c.page \in Nat /\ c.similarity \in Int /\ c.overlap \in Nat
  BY ChunkFields
<1>2. Confidence(c) \in Nat /\ Confidence(c) <= 99
  <2> DEFINE base == IF c.similarity > 99 THEN 99 ELSE c.similarity
             used == IF base < 0 THEN 0 ELSE base
             sum == 65 * used + 35 * c.overlap + 1050
  <2>1. used \in Nat
    BY <1>1
  <2> HIDE DEF used
  <2>2. sum \in Nat
    BY <1>1, <2>1, SMTT(30)
  <2> HIDE DEF sum
  <2>3. sum \div 100 \in Nat
    BY <2>2
  <2>4. Confidence(c) = IF sum \div 100 < 99 THEN sum \div 100 ELSE 99
    BY DEF Confidence, sum, used
  <2> QED BY <2>3, <2>4
<1> DEFINE conf == IF c.overlap >= 50 /\ Confidence(c) < 72 THEN 72 ELSE Confidence(c)
<1>3. conf \in 0..100
  BY <1>2
<1>4. Fact(c) = [kind |-> "fact", page |-> c.page, conf |-> conf]
  BY DEF Fact
<1> HIDE DEF conf
<1>5. Fact(c) \in Baustein /\ Fact(c) \in NotCode /\ Fact(c).page = c.page
  BY <1>1, <1>3, <1>4 DEF Baustein, NotCode, Kinds
<1>6. /\ CodeBlock(c) \in Baustein /\ CodeBlock(c) \notin NotCode
      /\ CodeBlock(c).page = c.page /\ CodeBlock(c).conf = 100
  BY <1>1 DEF CodeBlock, Baustein, NotCode, Kinds
<1> QED BY <1>5, <1>6

LEMMA SliceFacts ==
  ASSUME NEW S, NEW s \in Seq(S), NEW n \in Nat, 1 <= n
  PROVE  /\ Slice(s, n) \in Seq(S)
         /\ \A k \in DOMAIN Slice(s, n) : k \in DOMAIN s /\ Slice(s, n)[k] = s[k]
         /\ s # <<>> => Slice(s, n) # <<>> /\ 1 \in DOMAIN Slice(s, n) /\ Slice(s, n)[1] = s[1]
         /\ Len(s) <= n => \A k \in DOMAIN s : k \in DOMAIN Slice(s, n)
<1>1. PICK m \in Nat : m = IF n < Len(s) THEN n ELSE Len(s)
  OBVIOUS
<1>2. Len(s) \in Nat /\ m <= Len(s) /\ (Len(s) <= n => m = Len(s))
  BY <1>1
<1>3. s # <<>> => 1 <= m
  BY <1>1
<1>4. \A k : k \in DOMAIN s <=> k \in Nat /\ 1 <= k /\ k <= Len(s)
  OBVIOUS
<1>5. PICK r : r = SubSeq(s, 1, m)
  OBVIOUS
<1>6. r \in Seq(S) /\ Len(r) = m
  BY <1>2, <1>5
<1>7. \A k : k \in DOMAIN r <=> k \in Nat /\ 1 <= k /\ k <= m
  BY <1>6
<1>8. \A i \in Nat : 1 <= i /\ i <= m => r[i] = s[i]
  BY <1>2, <1>5
<1>9. Slice(s, n) = r
  BY <1>1, <1>5 DEF Slice
<1>10. \A k \in DOMAIN r : k \in DOMAIN s /\ r[k] = s[k]
  BY <1>2, <1>4, <1>7, <1>8
<1>11. s # <<>> => r # <<>> /\ 1 \in DOMAIN r /\ r[1] = s[1]
  <2> SUFFICES ASSUME s # <<>> PROVE r # <<>> /\ 1 \in DOMAIN r /\ r[1] = s[1]
    OBVIOUS
  <2>1. 1 <= m
    BY <1>3
  <2>2. 1 \in DOMAIN r /\ r[1] = s[1]
    BY <2>1, <1>7, <1>8
  <2>3. r # <<>>
    BY <2>1, <1>6
  <2> QED BY <2>2, <2>3
<1>12. Len(s) <= n => \A k \in DOMAIN s : k \in DOMAIN r
  BY <1>2, <1>4, <1>7
<1> QED BY <1>6, <1>9, <1>10, <1>11, <1>12

(* u is made of the elements of s and t, and has all of those of t. *)
Joins(s, t, u) ==
  /\ \A k \in DOMAIN u :
       (\E i \in DOMAIN s : u[k] = s[i]) \/ (\E i \in DOMAIN t : u[k] = t[i])
  /\ \A i \in DOMAIN t : \E k \in DOMAIN u : u[k] = t[i]

LEMMA ConcatFacts ==
  ASSUME NEW S, NEW s \in Seq(S), NEW t \in Seq(S), NEW u, u = s \o t
  PROVE  u \in Seq(S) /\ Joins(s, t, u)
<1> DEFINE n == Len(s)
           m == Len(t)
<1>1. /\ u \in Seq(S) /\ Len(u) = n + m
      /\ \A i \in 1..(n + m) : u[i] = IF i <= n THEN s[i] ELSE t[i - n]
  BY ConcatProperties
<1>2. n \in Nat /\ m \in Nat /\ DOMAIN s = 1..n /\ DOMAIN t = 1..m
  OBVIOUS
<1> HIDE DEF n, m
<1>3. DOMAIN u = 1..(n + m)
  BY <1>1
<1>4. ASSUME NEW k \in DOMAIN u
      PROVE  (\E i \in DOMAIN s : u[k] = s[i]) \/ (\E i \in DOMAIN t : u[k] = t[i])
  <2>1. CASE k <= n
    <3>1. k \in DOMAIN s /\ u[k] = s[k]
      BY <2>1, <1>1, <1>2, <1>3
    <3> QED BY <3>1
  <2>2. CASE ~ (k <= n)
    <3>1. k - n \in DOMAIN t
      BY <2>2, <1>2, <1>3
    <3>2. u[k] = t[k - n]
      BY <2>2, <1>1, <1>3
    <3> QED BY <3>1, <3>2
  <2> QED BY <2>1, <2>2
<1>5. ASSUME NEW i \in DOMAIN t PROVE \E k \in DOMAIN u : u[k] = t[i]
  <2>1. PICK k \in Nat : k = n + i
    BY <1>2
  <2>2. k \in 1..(n + m) /\ ~ (k <= n) /\ k - n = i
    BY <2>1, <1>2
  <2>3. u[k] = t[k - n]
    BY <2>2, <1>1
  <2> QED BY <2>2, <2>3, <1>3
<1> QED BY <1>1, <1>4, <1>5 DEF n, m, Joins

(* The most similar chunks are chunks that were sent, as many as there     *)
(* are up to the limit; the first of them is the same for every limit.     *)
LEMMA Nearest ==
  ASSUME NEW sent \in Seq(ChunkKinds), NEW n \in Nat, 1 <= n
  PROVE  LET top == MostSimilar(sent, n) IN
         /\ top \in Seq(ChunkKinds)
         /\ \A k \in DOMAIN top : \E i \in DOMAIN sent : top[k] = sent[i]
         /\ sent # <<>> => 1 <= Len(top) /\ top[1] = MostSimilar(sent, 1)[1]
<1> DEFINE N == Len(sent)
           m == IF n < N THEN n ELSE N
           Before(i, j) == Nearer(sent, i, j)
           B == {p \in (1..N) \X (1..N) : Before(p[1], p[2])}
           At(k) == CHOOSE i \in 1..N : Cardinality({j \in 1..N : Before(j, i)}) = k - 1
           top == MostSimilar(sent, n)
<1>1. N \in Nat /\ m \in Nat /\ m <= N /\ (N >= 1 => m >= 1)
  OBVIOUS
<1>2. \A i \in 1..N : sent[i].similarity \in Int
  <2> SUFFICES ASSUME NEW i \in 1..N PROVE sent[i].similarity \in Int
    OBVIOUS
  <2>1. sent[i] \in ChunkKinds
    OBVIOUS
  <2> QED BY <2>1, ChunkFields
<1>3. \A i, j \in 1..N : <<i, j>> \in B <=> Before(i, j)
  OBVIOUS
<1>4. \A k \in 1..N : At(k) \in 1..N
  <2> DEFINE BAt(k) == CHOOSE i \in 1..N : Cardinality({j \in 1..N : <<j, i>> \in B}) = k - 1
  <2>1. B \in SUBSET ((1..N) \X (1..N))
    OBVIOUS
  <2>2. \A i \in 1..N : <<i, i>> \notin B
    BY <1>2, <1>3 DEF Nearer
  <2>3. \A i, j, k \in 1..N : <<i, j>> \in B /\ <<j, k>> \in B => <<i, k>> \in B
    <3>1. \A i, j, k \in 1..N : Before(i, j) /\ Before(j, k) => Before(i, k)
      BY <1>2 DEF Nearer
    <3> QED BY <1>3, <3>1
  <2>4. \A i, j \in 1..N : i # j => <<i, j>> \in B \/ <<j, i>> \in B
    <3>1. \A i, j \in 1..N : i # j => Before(i, j) \/ Before(j, i)
      BY <1>2 DEF Nearer
    <3> QED BY <1>3, <3>1
  <2>5. \A k : BAt(k) = At(k)
    <3>1. \A i \in 1..N : {j \in 1..N : <<j, i>> \in B} = {j \in 1..N : Before(j, i)}
      BY <1>3
    <3> HIDE DEF B, N
    <3> QED BY <3>1
  <2>6. \A k \in 1..N : BAt(k) \in 1..N
    <3> HIDE DEF N, B
    <3> QED BY <1>1, <2>1, <2>2, <2>3, <2>4, SortedByRank DEF N
  <2> HIDE DEF BAt, At, B
  <2> QED BY <2>5, <2>6
<1>5. top = [k \in 1..m |-> sent[At(k)]]
  BY DEF MostSimilar
<1>6. MostSimilar(sent, 1) = [k \in 1..(IF 1 < N THEN 1 ELSE N) |-> sent[At(k)]]
  BY DEF MostSimilar
<1> HIDE DEF At, top
<1>7. \A k \in 1..m : At(k) \in 1..N /\ sent[At(k)] \in ChunkKinds
  BY <1>1, <1>4
<1>8. top \in [1..m -> ChunkKinds] /\ DOMAIN top = 1..m
  <2> HIDE DEF m
  <2> QED BY <1>5, <1>7
<1>9. top \in Seq(ChunkKinds) /\ Len(top) = m
  <2> HIDE DEF m
  <2> QED BY <1>1, <1>8
<1>10. \A k \in DOMAIN top : \E i \in DOMAIN sent : top[k] = sent[i]
  <2> SUFFICES ASSUME NEW k \in 1..m PROVE \E i \in DOMAIN sent : top[k] = sent[i]
    BY <1>8
  <2>1. top[k] = sent[At(k)] /\ At(k) \in DOMAIN sent
    BY <1>5, <1>7
  <2> QED BY <2>1
<1>11. ASSUME sent # <<>> PROVE 1 <= Len(top) /\ top[1] = MostSimilar(sent, 1)[1]
  <2>1. 1 <= N /\ 1 <= m
    BY <1>1, <1>11
  <2>2. 1 \in 1..m /\ 1 \in 1..(IF 1 < N THEN 1 ELSE N)
    BY <2>1, <1>1
  <2> QED BY <2>1, <2>2, <1>5, <1>6, <1>9
<1> QED BY <1>9, <1>10, <1>11 DEF top

-----------------------------------------------------------------------------
(* The loop over the most similar chunks, step by step. *)
LEMMA ExtractionSteps ==
  ASSUME NEW top \in Seq(ChunkKinds)
  PROVE  /\ Extracted(top)[0] = <<>>
         /\ \A k \in Nat : k < Len(top) =>
              Extracted(top)[k + 1] =
                IF top[k + 1].code
                  THEN Append(Append(Extracted(top)[k], Fact(top[k + 1])), CodeBlock(top[k + 1]))
                  ELSE Append(Extracted(top)[k], Fact(top[k + 1]))
<1> DEFINE Next1(q, k) == IF top[k].code THEN Append(Append(q, Fact(top[k])), CodeBlock(top[k]))
                                         ELSE Append(q, Fact(top[k]))
           step == [p \in Seq(Baustein) \X Nat |->
                      IF 1 <= p[2] /\ p[2] <= Len(top) THEN Next1(p[1], p[2]) ELSE p[1]]
           Takes(g) == g = [k \in 0..Len(top) |-> IF k = 0 THEN <<>> ELSE Next1(g[k - 1], k)]
<1>0. Len(top) \in Nat /\ \A k \in Nat : 1 <= k /\ k <= Len(top) => top[k] \in ChunkKinds
  OBVIOUS
<1>1. ASSUME NEW q \in Seq(Baustein), NEW k \in Nat, 1 <= k, k <= Len(top)
      PROVE  Next1(q, k) \in Seq(Baustein)
  <2>1. Fact(top[k]) \in Baustein /\ CodeBlock(top[k]) \in Baustein
    BY <1>0, <1>1, ItemsOfChunk
  <2>2. PICK a \in Baustein, b \in Baustein : a = Fact(top[k]) /\ b = CodeBlock(top[k])
    BY <2>1
  <2>3. Append(q, a) \in Seq(Baustein) /\ Append(Append(q, a), b) \in Seq(Baustein)
    OBVIOUS
  <2>4. Next1(q, k) = Append(Append(q, a), b) \/ Next1(q, k) = Append(q, a)
    BY <2>2
  <2> HIDE DEF Next1
  <2> QED BY <2>3, <2>4
<1> HIDE DEF Next1
<1>2. PICK f : Recurs(f, Seq(Baustein), <<>>, step)
  <2>1. ASSUME NEW q \in Seq(Baustein), NEW k \in Nat
        PROVE  (IF 1 <= k /\ k <= Len(top) THEN Next1(q, k) ELSE q) \in Seq(Baustein)
    BY <1>1
  <2>2. step \in [Seq(Baustein) \X Nat -> Seq(Baustein)]
    BY <2>1
  <2>3. <<>> \in Seq(Baustein)
    OBVIOUS
  <2> HIDE DEF step
  <2> QED BY <2>2, <2>3, RecursionOnNat
<1>3. f[0] = <<>> /\ \A k \in Nat : k < Len(top) => f[k + 1] = Next1(f[k], k + 1)
  <2>1. \A a \in Seq(Baustein), b \in Nat : 1 <= b /\ b <= Len(top) => step[<<a, b>>] = Next1(a, b)
    OBVIOUS
  <2> HIDE DEF step
  <2>2. /\ f \in [Nat -> Seq(Baustein)] /\ f[0] = <<>>
        /\ \A k \in Nat : f[k + 1] = step[<<f[k], k + 1>>]
    BY <1>2 DEF Recurs
  <2>3. ASSUME NEW k \in Nat, k < Len(top) PROVE f[k + 1] = Next1(f[k], k + 1)
    <3>1. k + 1 \in Nat /\ 1 <= k + 1 /\ k + 1 <= Len(top)
      BY <2>3, <1>0
    <3>2. f[k] \in Seq(Baustein) /\ f[k + 1] = step[<<f[k], k + 1>>]
      BY <2>2
    <3> QED BY <2>1, <3>1, <3>2
  <2> QED BY <2>2, <2>3
<1>4. Takes([k \in 0..Len(top) |-> f[k]])
  <2> DEFINE g == [k \in 0..Len(top) |-> f[k]]
  <2>1. ASSUME NEW k \in 0..Len(top) PROVE g[k] = IF k = 0 THEN <<>> ELSE Next1(g[k - 1], k)
    <3>1. CASE k = 0
      BY <3>1, <1>0, <1>3
    <3>2. CASE k # 0
      <4>1. k - 1 \in Nat /\ k - 1 + 1 = k /\ k - 1 < Len(top) /\ k - 1 \in 0..Len(top)
        BY <3>2, <1>0
      <4>2. f[k] = Next1(f[k - 1], k)
        BY <4>1, <1>3
      <4>3. g[k] = f[k] /\ g[k - 1] = f[k - 1]
        BY <4>1
      <4> HIDE DEF g
      <4> QED BY <3>2, <4>2, <4>3, Zenon
    <3> QED BY <3>1, <3>2
  <2> QED BY <2>1
<1>5. Takes(Extracted(top))
  <2> HIDE DEF Takes
  <2>1. Extracted(top) = CHOOSE g : Takes(g)
    BY Zenon DEF Extracted, Takes, Next1
  <2> QED BY <1>4, <2>1
<1> DEFINE u == Extracted(top)
<1>6. \A k \in 0..Len(top) : u[k] = IF k = 0 THEN <<>> ELSE Next1(u[k - 1], k)
  <2> HIDE DEF u
  <2>1. Takes(u)
    BY <1>5 DEF u
  <2> QED BY <2>1
<1> HIDE DEF u
<1>7. u[0] = <<>>
  BY <1>6, <1>0
<1>8. ASSUME NEW k \in Nat, k < Len(top) PROVE u[k + 1] = Next1(u[k], k + 1)
  <2>1. k + 1 \in 0..Len(top) /\ k + 1 # 0 /\ k + 1 - 1 = k
    BY <1>8, <1>0
  <2> QED BY <1>6, <2>1
<1> QED BY <1>7, <1>8 DEF u, Next1

(* What an item is made of. *)
LEMMA ItemFields ==
  ASSUME NEW x \in Baustein
  PROVE  x.conf \in Nat /\ x.conf <= 100 /\ x.page \in Nat /\ x.kind \in Kinds
<1>1. x.conf \in 0..100 /\ x.page \in Nat /\ x.kind \in Kinds
  BY DEF Baustein
<1> QED BY <1>1

LEMMA AsItem ==
  ASSUME NEW kind \in Kinds, NEW conf \in 0..100, NEW page \in Nat
  PROVE  [kind |-> kind, conf |-> conf, page |-> page] \in Baustein
BY DEF Baustein

(* One more item: the sum of the confidences grows by its own. *)
LEMMA ConfSums ==
  ASSUME NEW s \in Seq(Baustein)
  PROVE  /\ ConfSum(s) \in Nat
         /\ s = <<>> => ConfSum(s) = 0
         /\ \A x \in Baustein : ConfSum(Append(s, x)) = ConfSum(s) + x.conf
<1> DEFINE confs(t) == [k \in DOMAIN t |-> t[k].conf]
<1>1. ASSUME NEW t \in Seq(Baustein) PROVE confs(t) \in Seq(Nat) /\ Len(confs(t)) = Len(t)
  <2>1. Len(t) \in Nat /\ \A k \in 1..Len(t) : t[k].conf \in Nat
    <3>1. \A k \in 1..Len(t) : t[k] \in Baustein
      OBVIOUS
    <3> QED BY <3>1, ItemFields
  <2>2. confs(t) = [k \in 1..Len(t) |-> t[k].conf]
    OBVIOUS
  <2>3. confs(t) \in [1..Len(t) -> Nat]
    BY <2>1, <2>2
  <2> HIDE DEF confs
  <2> QED BY <2>1, <2>3
<1>2. \A t : ConfSum(t) = Total(confs(t))[Len(t)]
  BY DEF ConfSum
<1>3. ConfSum(s) \in Nat /\ (s = <<>> => ConfSum(s) = 0)
  <2> HIDE DEF confs
  <2>1. confs(s) \in Seq(Nat) /\ Len(confs(s)) = Len(s) /\ Len(s) \in Nat
    BY <1>1
  <2>2. Total(confs(s))[Len(s)] \in Nat /\ Total(confs(s))[0] = 0
    BY <2>1, Totals
  <2>3. s = <<>> => Len(s) = 0
    OBVIOUS
  <2> QED BY <1>2, <2>2, <2>3
<1>4. ASSUME NEW x \in Baustein PROVE ConfSum(Append(s, x)) = ConfSum(s) + x.conf
  <2>0. Append(s, x) \in Seq(Baustein)
    OBVIOUS
  <2>1. PICK t \in Seq(Baustein) : t = Append(s, x)
    BY <2>0, Zenon
  <2>2. Len(t) = Len(s) + 1 /\ Len(s) \in Nat /\ x.conf \in Nat
    BY <2>1, ItemFields
  <2>3. confs(t) = Append(confs(s), x.conf)
    <3>1. confs(s) \in Seq(Nat) /\ Len(confs(s)) = Len(s) /\ confs(t) \in Seq(Nat) /\ Len(confs(t)) = Len(t)
      BY <1>1
    <3>2. PICK a \in Seq(Nat) : a = confs(s)
      BY <3>1
    <3>3. PICK b \in Seq(Nat) : b = confs(t)
      BY <3>1
    <3>0. Append(a, x.conf) \in Seq(Nat)
      BY <2>2
    <3>4. PICK c \in Seq(Nat) : c = Append(a, x.conf)
      BY <3>0, Zenon
    <3>5. Len(b) = Len(s) + 1 /\ Len(c) = Len(s) + 1 /\ Len(a) = Len(s)
      BY <2>2, <3>1, <3>2, <3>3, <3>4
    <3>6. ASSUME NEW k \in Nat, 1 <= k, k <= Len(s) + 1 PROVE b[k] = c[k]
      <4>1. k \in DOMAIN t
        BY <3>6, <2>2
      <4>2. b[k] = t[k].conf
        BY <4>1, <3>3
      <4>3. CASE k = Len(s) + 1
        <5>1. t[k] = x
          BY <4>3, <2>1
        <5>2. c[k] = x.conf
          BY <4>3, <3>4, <3>5, <2>2
        <5> QED BY <4>2, <5>1, <5>2
      <4>4. CASE k <= Len(s)
        <5>1. t[k] = s[k] /\ k \in DOMAIN s
          BY <4>4, <3>6, <2>1
        <5>2. a[k] = s[k].conf
          BY <5>1, <3>2
        <5>3. c[k] = a[k]
          BY <4>4, <3>6, <3>4, <3>5, <2>2
        <5> QED BY <4>2, <5>1, <5>2, <5>3
      <4> QED BY <4>3, <4>4, <3>6, <2>2
    <3>7. b = c
      <4>1. \A k \in 1..Len(b) : b[k] = c[k]
        BY <3>5, <3>6, <2>2
      <4> QED BY <3>5, <4>1, SeqEqual
    <3> QED BY <3>2, <3>3, <3>4, <3>7
  <2> HIDE DEF confs
  <2>4. confs(s) \in Seq(Nat) /\ Len(confs(s)) = Len(s)
    BY <1>1
  <2>5. Total(Append(confs(s), x.conf))[Len(s) + 1] = Total(confs(s))[Len(s)] + x.conf
    BY <2>2, <2>4, TotalAppend
  <2> QED BY <1>2, <2>1, <2>2, <2>3, <2>5
<1> QED BY <1>3, <1>4

LEMMA AppendFacts ==
  ASSUME NEW S, NEW u \in Seq(S), NEW x \in S
  PROVE  LET v == Append(u, x) IN
         /\ v \in Seq(S) /\ Len(u) \in Nat /\ Len(v) = Len(u) + 1
         /\ Len(u) + 1 \in DOMAIN v /\ v[Len(u) + 1] = x
         /\ \A m \in DOMAIN u : m \in DOMAIN v /\ v[m] = u[m]
         /\ \A m \in DOMAIN v : m \in DOMAIN u \/ m = Len(u) + 1
<1>1. PICK v : v = Append(u, x)
  OBVIOUS
<1>2. v \in Seq(S) /\ Len(u) \in Nat /\ Len(v) = Len(u) + 1 /\ v[Len(u) + 1] = x
  BY <1>1
<1>3. \A m : m \in DOMAIN u <=> m \in Nat /\ 1 <= m /\ m <= Len(u)
  OBVIOUS
<1>4. \A m : m \in DOMAIN v <=> m \in Nat /\ 1 <= m /\ m <= Len(u) + 1
  BY <1>2
<1>5. \A m \in Nat : 1 <= m /\ m <= Len(u) => v[m] = u[m]
  BY <1>1
<1>6. Len(u) + 1 \in DOMAIN v
  BY <1>2, <1>4
<1>7. \A m \in DOMAIN u : m \in DOMAIN v /\ v[m] = u[m]
  BY <1>2, <1>3, <1>4, <1>5
<1>8. \A m \in DOMAIN v : m \in DOMAIN u \/ m = Len(u) + 1
  BY <1>2, <1>3, <1>4
<1> QED BY <1>1, <1>2, <1>6, <1>7, <1>8, Zenon

(* What the extractive backend makes of k chunks: a fact of each and, after *)
(* some, a code block, which is as sure as can be.                          *)
Extracts(top, k, u) ==
  /\ u \in Seq(Baustein) /\ k <= Len(u)
  /\ k = 0 => u = <<>>
  /\ k >= 1 => 1 \in DOMAIN u /\ u[1] = Fact(top[1])
  /\ \A m \in DOMAIN u : \E i \in DOMAIN top : u[m].page = top[i].page
  /\ Filter(u, NotCode) \in Seq(Baustein)
  /\ Filter(u, NotCode) = [j \in 1..k |-> Fact(top[j])]
  /\ ConfSum(u) = ConfSum(Filter(u, NotCode)) + 100 * (Len(u) - k)

LEMMA ExtractsFact ==
  ASSUME NEW top \in Seq(ChunkKinds), NEW k \in Nat, k < Len(top), NEW u, Extracts(top, k, u)
  PROVE  Extracts(top, k + 1, Append(u, Fact(top[k + 1])))
<1>0. top[k + 1] \in ChunkKinds /\ k + 1 \in DOMAIN top
  OBVIOUS
<1>1. PICK x \in Baustein : x = Fact(top[k + 1])
  BY <1>0, ItemsOfChunk
<1>2. x \in NotCode /\ x.page = top[k + 1].page /\ x.conf \in Nat
  BY <1>0, <1>1, ItemsOfChunk, ItemFields
<1>3. u \in Seq(Baustein) /\ Len(u) \in Nat /\ k <= Len(u)
  <2>1. u \in Seq(Baustein) /\ k <= Len(u)
    BY DEF Extracts
  <2> QED BY <2>1
<1>4. PICK v : v = Append(u, x)
  OBVIOUS
<1>5. /\ v \in Seq(Baustein) /\ Len(v) = Len(u) + 1
      /\ Len(u) + 1 \in DOMAIN v /\ v[Len(u) + 1] = x
      /\ \A m \in DOMAIN u : m \in DOMAIN v /\ v[m] = u[m]
      /\ \A m \in DOMAIN v : m \in DOMAIN u \/ m = Len(u) + 1
  BY <1>3, <1>4, AppendFacts
<1>6. 1 \in DOMAIN v /\ v[1] = Fact(top[1])
  <2>1. CASE k = 0
    <3>1. Len(u) = 0
      <4>1. u = <<>>
        BY <2>1 DEF Extracts
      <4> QED BY <4>1
    <3>2. Len(u) + 1 = 1 /\ k + 1 = 1
      BY <2>1, <3>1
    <3> QED BY <3>2, <1>1, <1>5
  <2>2. CASE k # 0
    <3>1. 1 \in DOMAIN u /\ u[1] = Fact(top[1])
      BY <2>2 DEF Extracts
    <3> QED BY <3>1, <1>5
  <2> QED BY <2>1, <2>2
<1>7. \A m \in DOMAIN v : \E i \in DOMAIN top : v[m].page = top[i].page
  <2>1. ASSUME NEW m \in DOMAIN v PROVE \E i \in DOMAIN top : v[m].page = top[i].page
    <3>1. CASE m \in DOMAIN u
      <4>1. PICK i \in DOMAIN top : u[m].page = top[i].page
        BY <3>1 DEF Extracts
      <4> QED BY <3>1, <4>1, <1>5
    <3>2. CASE m = Len(u) + 1
      BY <3>2, <1>0, <1>2, <1>5
    <3> QED BY <3>1, <3>2, <1>5
  <2> QED BY <2>1
<1>8. PICK f \in Seq(Baustein) : f = Filter(u, NotCode)
  BY DEF Extracts
<1>9. PICK g : g = Append(f, x)
  OBVIOUS
<1>10. Filter(v, NotCode) = g
  BY <1>2, <1>3, <1>4, <1>8, <1>9, FilterAppend
<1>11. /\ g \in Seq(Baustein) /\ Len(g) = Len(f) + 1 /\ Len(f) \in Nat
       /\ g[Len(f) + 1] = x /\ \A m \in DOMAIN f : g[m] = f[m]
  BY <1>9, AppendFacts
<1>12. f = [j \in 1..k |-> Fact(top[j])]
  BY <1>8 DEF Extracts
<1>13. Len(f) = k /\ \A j \in 1..k : j \in DOMAIN f /\ f[j] = Fact(top[j])
  BY <1>12
<1>14. g = [j \in 1..(k + 1) |-> Fact(top[j])]
  <2>1. \A j \in 1..(k + 1) : g[j] = Fact(top[j])
    <3>1. ASSUME NEW j \in 1..(k + 1) PROVE g[j] = Fact(top[j])
      <4>1. CASE j = k + 1
        BY <4>1, <1>1, <1>11, <1>13
      <4>2. CASE j \in 1..k
        BY <4>2, <1>11, <1>13
      <4> QED BY <4>1, <4>2
    <3> QED BY <3>1
  <2>2. g = [j \in 1..Len(g) |-> g[j]] /\ Len(g) = k + 1
    BY <1>11, <1>13
  <2> QED BY <2>1, <2>2
<1>15. ConfSum(v) = ConfSum(g) + 100 * (Len(v) - (k + 1))
  <2>1. /\ ConfSum(v) = ConfSum(u) + x.conf /\ ConfSum(g) = ConfSum(f) + x.conf
        /\ ConfSum(u) \in Nat /\ ConfSum(f) \in Nat
    BY <1>3, <1>4, <1>9, ConfSums
  <2>2. ConfSum(u) = ConfSum(f) + 100 * (Len(u) - k)
    BY <1>8 DEF Extracts
  <2> HIDE DEF ConfSum
  <2> QED BY <2>1, <2>2, <1>2, <1>3, <1>5
<1>16. k + 1 <= Len(v) /\ k + 1 # 0 /\ k + 1 >= 1
  BY <1>3, <1>5
<1>17. Extracts(top, k + 1, v)
  BY <1>5, <1>6, <1>7, <1>10, <1>11, <1>14, <1>15, <1>16 DEF Extracts
<1> QED BY <1>1, <1>4, <1>17

LEMMA ExtractsCode ==
  ASSUME NEW top \in Seq(ChunkKinds), NEW k \in Nat, 1 <= k, k <= Len(top),
         NEW u, Extracts(top, k, u)
  PROVE  Extracts(top, k, Append(u, CodeBlock(top[k])))
<1>0. top[k] \in ChunkKinds /\ k \in DOMAIN top
  OBVIOUS
<1>1. PICK x \in Baustein : x = CodeBlock(top[k])
  BY <1>0, ItemsOfChunk
<1>2. x \notin NotCode /\ x.page = top[k].page /\ x.conf = 100
  BY <1>0, <1>1, ItemsOfChunk
<1>3. u \in Seq(Baustein) /\ Len(u) \in Nat /\ k <= Len(u)
  <2>1. u \in Seq(Baustein) /\ k <= Len(u)
    BY DEF Extracts
  <2> QED BY <2>1
<1>4. PICK v : v = Append(u, x)
  OBVIOUS
<1>5. /\ v \in Seq(Baustein) /\ Len(v) = Len(u) + 1
      /\ Len(u) + 1 \in DOMAIN v /\ v[Len(u) + 1] = x
      /\ \A m \in DOMAIN u : m \in DOMAIN v /\ v[m] = u[m]
      /\ \A m \in DOMAIN v : m \in DOMAIN u \/ m = Len(u) + 1
  BY <1>3, <1>4, AppendFacts
<1>6. 1 \in DOMAIN v /\ v[1] = Fact(top[1])
  <2>1. 1 \in DOMAIN u /\ u[1] = Fact(top[1])
    BY DEF Extracts
  <2> QED BY <2>1, <1>5
<1>7. \A m \in DOMAIN v : \E i \in DOMAIN top : v[m].page = top[i].page
  <2>1. ASSUME NEW m \in DOMAIN v PROVE \E i \in DOMAIN top : v[m].page = top[i].page
    <3>1. CASE m \in DOMAIN u
      <4>1. PICK i \in DOMAIN top : u[m].page = top[i].page
        BY <3>1 DEF Extracts
      <4> QED BY <3>1, <4>1, <1>5
    <3>2. CASE m = Len(u) + 1
      BY <3>2, <1>0, <1>2, <1>5
    <3> QED BY <3>1, <3>2, <1>5
  <2> QED BY <2>1
<1>8. Filter(v, NotCode) = Filter(u, NotCode)
  BY <1>2, <1>3, <1>4, FilterAppend
<1>9. ConfSum(v) = ConfSum(Filter(u, NotCode)) + 100 * (Len(v) - k)
  <2>0. PICK f \in Seq(Baustein) : f = Filter(u, NotCode)
    BY DEF Extracts
  <2>1. ConfSum(v) = ConfSum(u) + x.conf /\ ConfSum(u) \in Nat /\ ConfSum(f) \in Nat
    BY <2>0, <1>3, <1>4, ConfSums
  <2>2. ConfSum(u) = ConfSum(f) + 100 * (Len(u) - k)
    BY <2>0 DEF Extracts
  <2> HIDE DEF ConfSum
  <2> QED BY <2>0, <2>1, <2>2, <1>2, <1>3, <1>5
<1>10. k <= Len(v) /\ k # 0
  BY <1>3, <1>5
<1>11. /\ Filter(u, NotCode) \in Seq(Baustein)
       /\ Filter(u, NotCode) = [j \in 1..k |-> Fact(top[j])]
  BY DEF Extracts
<1>12. Extracts(top, k, v)
  BY <1>5, <1>6, <1>7, <1>8, <1>9, <1>10, <1>11 DEF Extracts
<1> QED BY <1>1, <1>4, <1>12

(* So it is with every number of chunks. *)
LEMMA Extraction ==
  ASSUME NEW top \in Seq(ChunkKinds)
  PROVE  Extracts(top, Len(top), Extracted(top)[Len(top)])
<1> DEFINE P == {k \in Nat : k <= Len(top) => Extracts(top, k, Extracted(top)[k])}
<1>0. Len(top) \in Nat
  OBVIOUS
<1>1. P \in SUBSET Nat /\ 0 \in P
  <2>1. Extracted(top)[0] = <<>>
    BY ExtractionSteps
  <2>0. <<>> \in Seq(Baustein)
    OBVIOUS
  <2>2. PICK e \in Seq(Baustein) : e = <<>>
    BY <2>0, Zenon
  <2>3. Len(e) = 0 /\ DOMAIN e = {}
    BY <2>2
  <2>4. Filter(e, NotCode) = <<>>
    BY <2>2, <2>3, FilterSteps DEF Filter
  <2>5. ConfSum(e) = 0
    BY <2>2, ConfSums
  <2>6. <<>> = [j \in 1..0 |-> Fact(top[j])]
    OBVIOUS
  <2>7. ConfSum(e) = ConfSum(Filter(e, NotCode)) + 100 * (Len(e) - 0)
    BY <2>2, <2>3, <2>4, <2>5
  <2>8. Extracts(top, 0, e)
    <3>1. 0 <= Len(e) /\ ~ (0 >= 1) /\ Filter(e, NotCode) \in Seq(Baustein)
      BY <2>0, <2>3, <2>4
    <3>2. Filter(e, NotCode) = [j \in 1..0 |-> Fact(top[j])]
      BY <2>4, <2>6
    <3> HIDE DEF Baustein, ConfSum, Filter, NotCode, Fact
    <3> QED BY <2>2, <2>3, <2>7, <3>1, <3>2, Zenon DEF Extracts
  <2> QED BY <2>1, <2>2, <2>8
<1>2. ASSUME NEW k \in P PROVE k + 1 \in P
  <2>1. SUFFICES ASSUME k + 1 <= Len(top) PROVE Extracts(top, k + 1, Extracted(top)[k + 1])
    OBVIOUS
  <2>2. k \in Nat /\ k < Len(top) /\ k <= Len(top) /\ k + 1 \in Nat /\ 1 <= k + 1
    BY <2>1, <1>0
  <2>3. PICK u : u = Extracted(top)[k]
    OBVIOUS
  <2>4. Extracts(top, k, u)
    BY <2>2, <2>3
  <2>5. Extracts(top, k + 1, Append(u, Fact(top[k + 1])))
    BY <2>2, <2>4, ExtractsFact
  <2>6. Extracts(top, k + 1, Append(Append(u, Fact(top[k + 1])), CodeBlock(top[k + 1])))
    BY <2>1, <2>2, <2>5, ExtractsCode
  <2>7. Extracted(top)[k + 1] =
          IF top[k + 1].code THEN Append(Append(u, Fact(top[k + 1])), CodeBlock(top[k + 1]))
                             ELSE Append(u, Fact(top[k + 1]))
    BY <2>2, <2>3, ExtractionSteps
  <2> QED BY <2>5, <2>6, <2>7
<1>3. P = Nat
  <2> HIDE DEF P
  <2> QED BY <1>1, <1>2, SetInduction
<1> QED BY <1>0, <1>3

LEMMA Extracting ==
  ASSUME NEW sent \in Seq(ChunkKinds), NEW n \in Nat, 1 <= n
  PROVE  /\ Extract(sent, n) \in Seq(Baustein) /\ 1 \in DOMAIN Extract(sent, n)
         /\ sent # <<>> => Extract(sent, n)[1] = Fact(MostSimilar(sent, 1)[1])
         /\ Traced(sent, Extract(sent, n))
<1>1. CASE sent = <<>>
  <2> DEFINE stub == [kind |-> "stub", page |-> 0, conf |-> 62]
  <2>1. Extract(sent, n) = <<stub>>
    BY <1>1 DEF Extract
  <2>2. stub \in Baustein /\ stub.page = 0
    BY DEF Baustein, Kinds
  <2> HIDE DEF stub
  <2>3. PICK x \in Baustein : x = stub
    BY <2>2
  <2>4. <<x>> \in Seq(Baustein) /\ 1 \in DOMAIN <<x>> /\ \A m \in DOMAIN <<x>> : <<x>>[m] = x
    OBVIOUS
  <2> QED BY <1>1, <2>1, <2>2, <2>3, <2>4 DEF Traced
<1>2. CASE sent # <<>>
  <2>1. PICK top \in Seq(ChunkKinds) : top = MostSimilar(sent, n)
    BY Nearest
  <2>2. /\ \A k \in DOMAIN top : \E i \in DOMAIN sent : top[k] = sent[i]
        /\ 1 <= Len(top) /\ top[1] = MostSimilar(sent, 1)[1]
    BY <1>2, <2>1, Nearest
  <2>3. PICK u : u = Extract(sent, n)
    OBVIOUS
  <2>4. Extracts(top, Len(top), u)
    BY <1>2, <2>1, <2>3, Extraction DEF Extract
  <2>5. /\ u \in Seq(Baustein) /\ 1 \in DOMAIN u /\ u[1] = Fact(top[1])
        /\ \A m \in DOMAIN u : \E i \in DOMAIN top : u[m].page = top[i].page
    BY <2>2, <2>4 DEF Extracts
  <2>6. Traced(sent, u)
    BY <2>2, <2>5, Zenon DEF Traced
  <2> QED BY <2>2, <2>3, <2>5, <2>6
<1> QED BY <1>1, <1>2

(* The certain code blocks neither hide weak facts nor weaken strong ones. *)
LEMMA CodeIsNoHelp ==
  ASSUME NEW sent \in Seq(ChunkKinds), sent # <<>>
  PROVE  LET u == Extract(sent, CalcItems)
             facts == Filter(u, NotCode) IN
         WeakFacts(sent) <=> \/ ConfSum(facts) < 68 * Len(facts)
                             \/ \A k \in DOMAIN facts : facts[k].conf < 74
                             \/ ConfSum(u) < 64 * Len(u)
<1>1. CalcItems \in Nat /\ 1 <= CalcItems
  BY CalcAssumption
<1>2. PICK top \in Seq(ChunkKinds) : top = MostSimilar(sent, CalcItems)
  BY <1>1, Nearest
<1>3. PICK u : u = Extract(sent, CalcItems)
  OBVIOUS
<1>4. Extracts(top, Len(top), u)
  BY <1>2, <1>3, Extraction DEF Extract
<1>5. PICK facts \in Seq(Baustein) : facts = Filter(u, NotCode)
  BY <1>4 DEF Extracts
<1>6. facts = [k \in 1..Len(top) |-> Fact(top[k])]
  BY <1>4, <1>5 DEF Extracts
<1>7. facts = [k \in DOMAIN top |-> Fact(top[k])]
  BY <1>6
<1>8. Len(top) \in Nat /\ Len(facts) = Len(top)
  BY <1>6
<1>9. u \in Seq(Baustein) /\ Len(top) <= Len(u) /\ ConfSum(u) = ConfSum(facts) + 100 * (Len(u) - Len(top))
  BY <1>4, <1>5 DEF Extracts
<1>10. ConfSum(u) < 64 * Len(u) => ConfSum(facts) < 68 * Len(facts)
  <2>1. ConfSum(facts) \in Nat /\ Len(u) \in Nat
    BY <1>9, ConfSums
  <2> HIDE DEF ConfSum
  <2>2. PICK F \in Nat, L \in Nat, N \in Nat : F = ConfSum(facts) /\ L = Len(u) /\ N = Len(top)
    BY <2>1, <1>8
  <2>3. N <= L /\ F + 100 * (L - N) < 64 * L => F < 68 * N
    OBVIOUS
  <2> QED BY <2>2, <2>3, <1>8, <1>9
<1>11. WeakFacts(sent) <=> \/ ConfSum(facts) < 68 * Len(facts)
                           \/ \A k \in DOMAIN facts : facts[k].conf < 74
  BY <1>2, <1>7 DEF WeakFacts
<1> QED BY <1>3, <1>5, <1>10, <1>11

(* The pages of the first chunks are cited, the synthetic chunk's is not. *)
LEMMA PagesAreCited ==
  ASSUME NEW sent \in Seq(ChunkKinds), Len(sent) <= CalcItems,
         NEW i \in DOMAIN sent, sent[i].page # 0
  PROVE  \E j \in DOMAIN Cited(sent) : Cited(sent)[j] = sent[i].page
<1> DEFINE T == {chunk \in ChunkKinds : chunk.page > 0}
<1>1. PICK first \in Seq(ChunkKinds) : first = Slice(sent, CalcItems)
  BY CalcAssumption, SliceFacts
<1>2. i \in DOMAIN first /\ first[i] = sent[i]
  BY <1>1, CalcAssumption, SliceFacts
<1>3. first[i] \in T
  <2>1. sent[i] \in ChunkKinds
    OBVIOUS
  <2>2. sent[i].page \in Nat
    BY <2>1, ChunkFields
  <2> QED BY <2>1, <2>2, <1>2
<1>4. i \in Nat /\ 1 <= i /\ i <= Len(first)
  BY <1>2
<1>5. PICK cited : cited = Filter(first, T)
  OBVIOUS
<1>6. KeepsOrder(first, T, Len(first), cited)
  BY <1>5, Filtering
<1> HIDE DEF T
<1>7. PICK m \in DOMAIN cited : cited[m] = first[i]
  BY <1>3, <1>4, <1>6 DEF KeepsOrder
<1>8. Cited(sent) = [k \in DOMAIN cited |-> cited[k].page]
  BY <1>1, <1>5 DEF Cited, T
<1> QED BY <1>2, <1>7, <1>8

LEMMA ParsedRows ==
  ASSUME NEW rows \in Seq(ChunkKinds \union {Unreadable})
  PROVE  Filter(rows, ChunkKinds) \in Seq(ChunkKinds)
<1>1. PICK q \in Seq(ChunkKinds \union {Unreadable}) : q = Filter(rows, ChunkKinds)
  BY Filtering
<1>2. \A m \in DOMAIN q : q[m] \in ChunkKinds
  BY <1>1, Filtering DEF KeepsOrder
<1>3. q \in Seq(ChunkKinds)
  BY <1>2
<1> QED BY <1>1, <1>3

-----------------------------------------------------------------------------
(* What the answer must be worth, and when help must have been asked for.  *)
Traceable ==
  /\ 1 \in DOMAIN bausteine /\ Traced(parsed, bausteine)
  /\ backend = "extractive" /\ parsed # <<>> =>
       \E k \in DOMAIN bausteine : bausteine[k] = Fact(MostSimilar(parsed, 1)[1])

Helped ==
  backend = "extractive" /\ hf_fallback /\ parsed # <<>> => (with_hf <=> WeakFacts(parsed))

CalcInv ==
  /\ payload \in Seq(ChunkKinds \union {Unreadable}) /\ parsed \in Seq(ChunkKinds)
  /\ bausteine \in Seq(Baustein) /\ with_hf \in BOOLEAN /\ hf_fallback \in BOOLEAN
  /\ inferring \in {"parse", "infer", "fallback"} => ~ with_hf
  /\ inferring = "fallback" => backend = "extractive" /\ bausteine = Extract(parsed, CalcItems)
  /\ inferring \in {"store", "done"} => Traceable /\ Helped
  /\ inferring = "done" => source_ids = Cited(parsed)

LEMMA SeqOfOne ==
  ASSUME NEW S, NEW x \in S
  PROVE  <<x>> \in Seq(S) /\ 1 \in DOMAIN <<x>> /\ \A k \in DOMAIN <<x>> : <<x>>[k] = x
OBVIOUS

LEMMA GeneratedText ==
  ASSUME CalcInv, NEW conf \in 0..100
  PROVE  /\ Generated(conf) \in Seq(Baustein) /\ 1 \in DOMAIN Generated(conf)
         /\ Traced(parsed, Generated(conf))
<1> DEFINE page == IF parsed = <<>> THEN 0 ELSE parsed[1].page
           item == [kind |-> "generated", conf |-> conf, page |-> page]
<1>1. PICK sent \in Seq(ChunkKinds) : sent = parsed
  BY DEF CalcInv
<1>2. page \in Nat /\ (page # 0 \/ sent # <<>> => \E i \in DOMAIN sent : sent[i].page = page)
  <2>1. CASE sent = <<>>
    BY <1>1, <2>1
  <2>2. CASE sent # <<>>
    <3>1. 1 \in DOMAIN sent /\ sent[1] \in ChunkKinds
      BY <2>2
    <3> QED BY <1>1, <2>2, <3>1, ChunkFields
  <2> QED BY <2>1, <2>2
<1> HIDE DEF page
<1>3. item \in Baustein /\ item.page = page
  BY <1>2, AsItem DEF Kinds
<1>4. Generated(conf) = <<item>>
  BY DEF Generated, page
<1> HIDE DEF item
<1>5. <<item>> \in Seq(Baustein) /\ 1 \in DOMAIN <<item>> /\ \A k \in DOMAIN <<item>> : <<item>>[k] = item
  BY <1>3, SeqOfOne
<1>6. Traced(sent, <<item>>)
  BY <1>2, <1>3, <1>5 DEF Traced
<1> QED BY <1>1, <1>4, <1>5, <1>6

LEMMA GraniteIsSure ==
  ASSUME NEW n \in Nat
  PROVE  GraniteConfidence(n) \in 0..100
<1>1. PICK m \in Nat : m = (IF n > 10 THEN n ELSE 10) /\ m >= 10
  OBVIOUS
<1>2. PICK d \in Nat, a \in Nat : d = 2 * m /\ d > 0 /\ a = 400 + m
  <2>1. 2 * m \in Nat /\ 2 * m > 0 /\ 400 + m \in Nat
    BY <1>1
  <2> QED BY <2>1, Zenon
<1>3. a \div d \in Nat
  BY <1>2
<1>4. PICK q \in Nat : q = a \div d
  BY <1>3
<1>5. GraniteConfidence(n) = IF 72 + q < 93 THEN 72 + q ELSE 93
  BY <1>1, <1>2, <1>4 DEF GraniteConfidence
<1> QED BY <1>5

LEMMA CalcStart ==
  ASSUME CalcInit
  PROVE  CalcInv
<1>1. PICK n \in 0..MaxRows : payload \in [1..n -> ChunkKinds \union {Unreadable}]
  BY DEF CalcInit
<1>2. payload \in Seq(ChunkKinds \union {Unreadable})
  BY <1>1, CalcAssumption
<1>3. <<>> \in Seq(ChunkKinds) /\ <<>> \in Seq(Baustein)
  OBVIOUS
<1> QED BY <1>2, <1>3 DEF CalcInit, CalcInv

LEMMA InfersKeeps ==
  ASSUME CalcInv, NEW u \in Seq(Baustein), Infers(u), 1 \in DOMAIN u, Traced(parsed, u),
         backend = "extractive" => u = Extract(parsed, CalcItems)
  PROVE  CalcInv'
<1>1. /\ inferring = "infer" /\ bausteine' = u
      /\ inferring' = IF backend = "extractive" THEN "fallback" ELSE "store"
      /\ backend' = backend /\ hf_fallback' = hf_fallback /\ payload' = payload
      /\ parsed' = parsed /\ with_hf' = with_hf /\ source_ids' = source_ids
  BY DEF Infers
<1>2. CASE backend = "extractive"
  BY <1>1, <1>2 DEF CalcInv
<1>3. CASE backend # "extractive"
  <2>1. Traceable' /\ Helped'
    BY <1>1, <1>3 DEF Traceable, Helped, Traced
  <2> QED BY <1>1, <1>3, <2>1 DEF CalcInv
<1> QED BY <1>2, <1>3

LEMMA CalcStep ==
  ASSUME CalcInv, [CalcNext]_calcVars
  PROVE  CalcInv'
<1>0. CalcItems \in Nat /\ 1 <= CalcItems /\ HfItems \in Nat /\ 1 <= HfItems
  BY CalcAssumption
<1>1. PICK sent \in Seq(ChunkKinds) : sent = parsed
  BY DEF CalcInv
<1>2. /\ Extract(parsed, CalcItems) \in Seq(Baustein) /\ 1 \in DOMAIN Extract(parsed, CalcItems)
      /\ Traced(parsed, Extract(parsed, CalcItems))
  BY <1>0, <1>1, Extracting
<1>3. CASE ParseRows
  <2>1. parsed' \in Seq(ChunkKinds)
    BY <1>3, ParsedRows DEF ParseRows, CalcInv
  <2> QED BY <1>3, <2>1 DEF ParseRows, CalcInv
<1>4. CASE InferExtractive
  BY <1>2, <1>4, InfersKeeps DEF InferExtractive
<1>5. CASE InferGranite
  <2>1. ASSUME parsed = <<>>, Infers(<<[kind |-> "stub", page |-> 0, conf |-> 50]>>) PROVE CalcInv'
    <3> DEFINE stub == [kind |-> "stub", page |-> 0, conf |-> 50]
    <3>1. stub \in Baustein /\ stub.page = 0
      <4>1. "stub" \in Kinds /\ 50 \in 0..100 /\ 0 \in Nat
        BY DEF Kinds
      <4>2. [kind |-> "stub", conf |-> 50, page |-> 0] \in Baustein
        BY <4>1, AsItem, Zenon
      <4> QED BY <4>2
    <3>2. Infers(<<stub>>)
      BY <2>1
    <3> HIDE DEF stub
    <3>3. <<stub>> \in Seq(Baustein) /\ 1 \in DOMAIN <<stub>> /\ \A k \in DOMAIN <<stub>> : <<stub>>[k] = stub
      BY <3>1, SeqOfOne
    <3>4. Traced(parsed, <<stub>>)
      <4>1. PICK one : one = <<stub>> /\ \A k \in DOMAIN one : one[k] = stub
        BY <3>3
      <4>2. \A k \in DOMAIN one : one[k].page = 0
        BY <3>1, <4>1
      <4>3. Traced(parsed, one)
        BY <2>1, <4>2 DEF Traced
      <4> QED BY <4>1, <4>3
    <3>5. backend # "extractive"
      BY <1>5 DEF InferGranite
    <3> QED BY <3>2, <3>3, <3>4, <3>5, InfersKeeps
  <2>2. ASSUME NEW n \in CompletionTokens, Infers(Generated(GraniteConfidence(n))) PROVE CalcInv'
    <3>1. n \in Nat /\ backend # "extractive"
      BY <1>5, CalcAssumption DEF InferGranite
    <3>2. PICK conf \in 0..100 : conf = GraniteConfidence(n)
      BY <3>1, GraniteIsSure
    <3>3. PICK u \in Seq(Baustein) : u = Generated(conf)
      BY GeneratedText
    <3>4. 1 \in DOMAIN u /\ Traced(parsed, u)
      BY <3>3, GeneratedText
    <3> QED BY <2>2, <3>1, <3>2, <3>3, <3>4, InfersKeeps
  <2>3. ASSUME Infers(Extract(parsed, CalcItems)) PROVE CalcInv'
    BY <1>2, <2>3, InfersKeeps
  <2> QED BY <1>5, <2>1, <2>2, <2>3 DEF InferGranite
<1>6. ASSUME NEW c \in 0..100, Infers(Generated(c)), backend # "extractive" PROVE CalcInv'
  <2>1. /\ Generated(c) \in Seq(Baustein) /\ 1 \in DOMAIN Generated(c) /\ Traced(parsed, Generated(c))
    BY GeneratedText
  <2> QED BY <1>6, <2>1, InfersKeeps
<1>7. CASE InferHf
  BY <1>2, <1>6, <1>7, InfersKeeps DEF InferHf
<1>8. CASE HfRaises
  BY <1>8 DEF HfRaises, CalcInv
<1>9. CASE InferHfApi
  BY <1>2, <1>6, <1>9, InfersKeeps DEF InferHfApi
<1>10. CASE ConsultHf
  <2>1. /\ inferring = "fallback" /\ hf_fallback /\ NeedsHfFallback(bausteine)
        /\ with_hf' = TRUE /\ inferring' = "store"
        /\ backend' = backend /\ hf_fallback' = hf_fallback /\ payload' = payload
        /\ parsed' = parsed /\ source_ids' = source_ids
    BY <1>10 DEF ConsultHf
  <2>2. backend = "extractive" /\ bausteine = Extract(parsed, CalcItems)
    BY <2>1 DEF CalcInv
  <2>3. parsed # <<>> /\ WeakFacts(parsed)
    BY <1>1, <2>1, <2>2, CodeIsNoHelp DEF NeedsHfFallback
  <2>4. PICK hf \in Seq(Baustein) : bausteine' = WithTail(hf) /\ Traced(parsed, hf)
    <3>1. CASE bausteine' = WithTail(Generated(80))
      BY <3>1, GeneratedText
    <3>2. CASE bausteine' = WithTail(Extract(parsed, HfItems))
      BY <3>2, <1>0, <1>1, Extracting
    <3> QED BY <1>10, <3>1, <3>2 DEF ConsultHf
  <2>5. PICK old \in Seq(Baustein) : old = bausteine
    BY DEF CalcInv
  <2>6. PICK a \in Seq(Baustein), b \in Seq(Baustein) : a = Slice(hf, HfItems) /\ b = Slice(old, HfItems)
    <3>1. Slice(hf, HfItems) \in Seq(Baustein) /\ Slice(old, HfItems) \in Seq(Baustein)
      BY <1>0, SliceFacts
    <3> QED BY <3>1, Zenon
  <2>7. /\ \A k \in DOMAIN a : k \in DOMAIN hf /\ a[k] = hf[k]
        /\ \A k \in DOMAIN b : k \in DOMAIN old /\ b[k] = old[k]
    BY <2>6, <1>0, SliceFacts
  <2>8. 1 \in DOMAIN old /\ old[1] = Fact(MostSimilar(sent, 1)[1])
    BY <1>0, <1>1, <2>2, <2>3, <2>5, Extracting
  <2>9. 1 \in DOMAIN b /\ b[1] = old[1]
    <3>1. old # <<>>
      BY <2>8
    <3> QED BY <3>1, <2>6, <1>0, SliceFacts
  <2>10. PICK new : new = a \o b
    OBVIOUS
  <2>11. bausteine' = new
    BY <2>4, <2>5, <2>6, <2>10 DEF WithTail
  <2>12. /\ new \in Seq(Baustein)
         /\ \A k \in DOMAIN new : (\E i \in DOMAIN a : new[k] = a[i]) \/ (\E i \in DOMAIN b : new[k] = b[i])
         /\ \A i \in DOMAIN b : \E k \in DOMAIN new : new[k] = b[i]
    <3>1. new \in Seq(Baustein) /\ Joins(a, b, new)
      BY <2>10, ConcatFacts
    <3> QED BY <3>1 DEF Joins
  <2>13. Traced(parsed, new)
    <3>1. \A k \in DOMAIN new : (\E i \in DOMAIN hf : new[k] = hf[i]) \/ (\E i \in DOMAIN old : new[k] = old[i])
      <4>1. ASSUME NEW k \in DOMAIN new
            PROVE  (\E i \in DOMAIN hf : new[k] = hf[i]) \/ (\E i \in DOMAIN old : new[k] = old[i])
        <5>1. CASE \E i \in DOMAIN a : new[k] = a[i]
          BY <5>1, <2>7
        <5>2. CASE \E i \in DOMAIN b : new[k] = b[i]
          BY <5>2, <2>7
        <5> QED BY <2>12, <5>1, <5>2
      <4> QED BY <4>1
    <3>2. Traced(parsed, old)
      BY <1>2, <2>2, <2>5
    <3> QED BY <2>4, <3>1, <3>2, Zenon DEF Traced
  <2>14. \E k \in DOMAIN new : new[k] = Fact(MostSimilar(parsed, 1)[1])
    BY <1>1, <2>8, <2>9, <2>12
  <2>15. 1 \in DOMAIN new
    <3>1. PICK k \in DOMAIN new : TRUE
      BY <2>14
    <3> QED BY <2>12
  <2>16. Traceable'
    BY <2>1, <2>11, <2>13, <2>14, <2>15, Zenon DEF Traceable, Traced
  <2>17. Helped'
    BY <2>1, <2>3 DEF Helped
  <2> QED BY <2>1, <2>11, <2>12, <2>16, <2>17 DEF CalcInv
<1>11. CASE KeepBausteine
  <2>1. /\ inferring = "fallback" /\ ~ (hf_fallback /\ NeedsHfFallback(bausteine)) /\ inferring' = "store"
        /\ backend' = backend /\ hf_fallback' = hf_fallback /\ payload' = payload
        /\ parsed' = parsed /\ bausteine' = bausteine /\ with_hf' = with_hf /\ source_ids' = source_ids
    BY <1>11 DEF KeepBausteine
  <2>2. backend = "extractive" /\ bausteine = Extract(parsed, CalcItems) /\ ~ with_hf
    BY <2>1 DEF CalcInv
  <2>3. parsed # <<>> /\ hf_fallback => ~ WeakFacts(parsed)
    BY <1>1, <2>1, <2>2, CodeIsNoHelp DEF NeedsHfFallback
  <2>4. parsed # <<>> => bausteine[1] = Fact(MostSimilar(parsed, 1)[1])
    BY <1>0, <1>1, <2>2, Extracting
  <2>5. Traceable
    BY <1>2, <2>2, <2>4 DEF Traceable
  <2>6. Traceable' /\ Helped'
    BY <2>1, <2>2, <2>3, <2>5 DEF Traceable, Helped, Traced
  <2> QED BY <2>1, <2>6 DEF CalcInv
<1>12. CASE StoreResult
  <2>1. /\ inferring = "store" /\ inferring' = "done" /\ source_ids' = Cited(parsed)
        /\ backend' = backend /\ hf_fallback' = hf_fallback /\ payload' = payload
        /\ parsed' = parsed /\ bausteine' = bausteine /\ with_hf' = with_hf
    BY <1>12 DEF StoreResult
  <2>2. Traceable /\ Helped
    BY <2>1 DEF CalcInv
  <2>3. Traceable' /\ Helped'
    BY <2>1, <2>2 DEF Traceable, Helped, Traced
  <2>4. Cited(parsed)' = Cited(parsed)
    BY <2>1 DEF Cited
  <2> QED BY <2>1, <2>3, <2>4 DEF CalcInv
<1>13. CASE UNCHANGED calcVars
  <2>1. /\ backend' = backend /\ hf_fallback' = hf_fallback /\ payload' = payload
        /\ parsed' = parsed /\ bausteine' = bausteine /\ with_hf' = with_hf
        /\ source_ids' = source_ids /\ inferring' = inferring
    BY <1>13 DEF calcVars
  <2> QED BY <2>1 DEF CalcInv, Traceable, Helped, Traced
<1> QED BY <1>3, <1>4, <1>5, <1>7, <1>8, <1>9, <1>10, <1>11, <1>12, <1>13 DEF CalcNext

LEMMA CalcIsTraceable ==
  ASSUME CalcInv
  PROVE  WeakFactsGetHelp /\ ResultIsTraceable
<1>1. WeakFactsGetHelp
  BY DEF CalcInv, Helped, WeakFacts, WeakFactsGetHelp
<1>2. ASSUME inferring = "done" PROVE ResultIsTraceable
  <2>1. /\ 1 \in DOMAIN bausteine /\ Traced(parsed, bausteine) /\ source_ids = Cited(parsed)
        /\ bausteine \in Seq(Baustein)
        /\ backend = "extractive" /\ parsed # <<>> =>
             \E k \in DOMAIN bausteine : bausteine[k] = Fact(MostSimilar(parsed, 1)[1])
    BY <1>2 DEF CalcInv, Traceable
  <2>2. bausteine # <<>>
    BY <2>1
  <2>3. PICK sent \in Seq(ChunkKinds) : sent = parsed
    BY DEF CalcInv
  <2>4. ASSUME NEW k \in DOMAIN bausteine, bausteine[k].page # 0
        PROVE  /\ \E i \in DOMAIN parsed : parsed[i].page = bausteine[k].page
               /\ Len(parsed) <= CalcItems =>
                    \E i \in DOMAIN source_ids : source_ids[i] = bausteine[k].page
    <3>1. PICK i \in DOMAIN sent : sent[i].page = bausteine[k].page
      BY <2>1, <2>3, <2>4 DEF Traced
    <3>2. Len(sent) <= CalcItems => \E j \in DOMAIN Cited(sent) : Cited(sent)[j] = sent[i].page
      BY <2>4, <3>1, PagesAreCited
    <3> QED BY <2>1, <2>3, <3>1, <3>2
  <2> QED BY <2>1, <2>2, <2>4 DEF ResultIsTraceable
<1>3. ASSUME inferring # "done" PROVE ResultIsTraceable
  BY <1>3 DEF ResultIsTraceable
<1>4. ResultIsTraceable
  BY <1>2, <1>3
<1> QED BY <1>1, <1>4

LEMMA CalcInvariant == CalcSpec => []CalcInv
<1>1. CalcInit => CalcInv
  BY CalcStart
<1>2. CalcInv /\ [CalcNext]_calcVars => CalcInv'
  BY CalcStep
<1> QED BY <1>1, <1>2, PTL DEF CalcSpec

(* For any chunks and any numbers of items: the HF API is called in        *)
(* exactly when the facts are weak (_needs_hf_fallback), although code     *)
(* blocks count in one of its averages.                                    *)
THEOREM HelpForWeakFacts == CalcSpec => []WeakFactsGetHelp
<1>1. CalcInv => WeakFactsGetHelp
  BY CalcIsTraceable
<1> QED BY <1>1, CalcInvariant, PTL

(* For any backend, payload and outcome of the fallbacks: a stored result  *)
(* names only pages that were sent, cites them unless more were sent than  *)
(* are read, and keeps the snippet of the nearest chunk.                   *)
THEOREM ResultsAreTraceable == CalcSpec => []ResultIsTraceable
<1>1. CalcInv => ResultIsTraceable
  BY CalcIsTraceable
<1> QED BY <1>1, CalcInvariant, PTL

(* The stand-in chunk of main.py:433 is the only way to a sure answer that *)
(* rests on no document: as long as every chunk has a page, the standard   *)
(* backend answers from pages alone.                                       *)
PagesWereSent == \A i \in DOMAIN parsed : parsed[i].page > 0

THEOREM AnswersRestOnPages == CalcSpec => [](PagesWereSent => AnswersFromDocuments)
<1>1. ASSUME CalcInv, PagesWereSent PROVE AnswersFromDocuments
  <2>1. SUFFICES ASSUME inferring = "done", parsed # <<>>, NEW k \in DOMAIN bausteine
                 PROVE  bausteine[k].page > 0
    BY DEF AnswersFromDocuments
  <2>2. Traced(parsed, bausteine)
    BY <1>1, <2>1 DEF CalcInv, Traceable
  <2>3. PICK i \in DOMAIN parsed : parsed[i].page = bausteine[k].page
    BY <2>1, <2>2 DEF Traced
  <2> QED BY <1>1, <2>3 DEF PagesWereSent
<1> QED BY <1>1, CalcInvariant, PTL

-----------------------------------------------------------------------------
LEMMA CitedPages ==
  ASSUME NEW sent \in Seq(ChunkKinds)
  PROVE  Cited(sent) \in Seq(Nat)
<1> DEFINE T == {chunk \in ChunkKinds : chunk.page > 0}
<1>1. PICK first \in Seq(ChunkKinds) : first = Slice(sent, CalcItems)
  BY CalcAssumption, SliceFacts
<1>2. PICK cited \in Seq(ChunkKinds) : cited = Filter(first, T)
  <2> HIDE DEF T
  <2> QED BY Filtering
<1>3. \A k \in 1..Len(cited) : cited[k].page \in Nat
  BY ChunkFields
<1>4. Cited(sent) = [k \in 1..Len(cited) |-> cited[k].page]
  <2>1. DOMAIN cited = 1..Len(cited)
    OBVIOUS
  <2> QED BY <1>1, <1>2, <2>1 DEF Cited, T
<1> QED BY <1>3, <1>4

LEMMA CalcTypesStart == CalcInit => CalcTypeOK
<1> SUFFICES ASSUME CalcInit PROVE CalcTypeOK
  OBVIOUS
<1>1. payload \in Seq(ChunkKinds \union {Unreadable})
  BY CalcStart DEF CalcInv
<1>2. /\ <<>> \in Seq(ChunkKinds) /\ <<>> \in Seq(Nat)
      /\ <<>> \in Seq([kind : Kinds, conf : 0..100, page : Nat])
  OBVIOUS
<1> QED BY <1>1, <1>2 DEF CalcInit, CalcTypeOK

LEMMA CalcTypesStep ==
  ASSUME CalcInv, CalcTypeOK, [CalcNext]_calcVars
  PROVE  CalcTypeOK'
<1>1. CalcInv'
  BY CalcStep
<1>2. /\ payload' \in Seq(ChunkKinds \union {Unreadable}) /\ parsed' \in Seq(ChunkKinds)
      /\ bausteine' \in Seq(Baustein) /\ with_hf' \in BOOLEAN /\ hf_fallback' \in BOOLEAN
  BY <1>1 DEF CalcInv
<1>3. /\ backend' = backend
      /\ source_ids' \in {source_ids, Cited(parsed)}
      /\ inferring' \in {inferring, "infer", "fallback", "store", "done", "rejected", "raised"}
  <2>1. CASE ParseRows
    BY <2>1 DEF ParseRows
  <2>2. ASSUME NEW u, Infers(u)
        PROVE  /\ backend' = backend /\ source_ids' = source_ids
               /\ inferring' \in {"fallback", "store"}
    BY <2>2 DEF Infers
  <2>3. CASE InferExtractive \/ InferGranite \/ InferHf \/ InferHfApi
    BY <2>2, <2>3 DEF InferExtractive, InferGranite, InferHf, InferHfApi
  <2>4. CASE HfRaises \/ ConsultHf \/ KeepBausteine
    BY <2>4 DEF HfRaises, ConsultHf, KeepBausteine
  <2>5. CASE StoreResult
    BY <2>5 DEF StoreResult
  <2>6. CASE UNCHANGED calcVars
    BY <2>6 DEF calcVars
  <2> QED BY <2>1, <2>3, <2>4, <2>5, <2>6 DEF CalcNext
<1>4. source_ids' \in Seq(Nat)
  BY <1>3, CitedPages DEF CalcInv, CalcTypeOK
<1> QED BY <1>2, <1>3, <1>4 DEF CalcTypeOK, Baustein
=============================================================================
