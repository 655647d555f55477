--------------------------- MODULE BalancedMerge ---------------------------
(***************************************************************************)
(* _domain_balanced_merge (api/main.py): the chunks retrieved for each     *)
(* route are merged round-robin into one list of at most max_total, a      *)
(* chunk that is already there being skipped.  One step is one turn of the *)
(* for loop, its inner while loop included.                                *)
(***************************************************************************)
EXTENDS Naturals, Sequences, FiniteSets

CONSTANTS
  Routes,      \* the keys of route_chunks
  Keys,        \* (seite_id, content[:80]), by which chunks are compared
  MaxChunks,   \* bound on the chunks retrieved for a route (limit)
  MaxTotal     \* max_total

ASSUME MergeAssumption ==
  /\ IsFiniteSet(Routes)
  /\ MaxChunks \in Nat
  /\ MaxTotal \in Nat

VARIABLES
  route_chunks, \* each chunk represented by its key
  order,       \* ordered_route_ids
  at,          \* the turn of the for loop; 0 at the head of the while loop
  pointers,    \* how many chunks of a route have been looked at
  merged,      \* the routes and indices of the chunks merged so far
  seen,        \* their keys
  progressed,  \* a chunk was merged in this round
  done         \* the function has returned

input == <<route_chunks, order>>
mergeVars == <<input, at, pointers, merged, seen, progressed, done>>

Lists == UNION {[1..n -> Keys] : n \in 0..MaxChunks}
KeyOf(m) == route_chunks[m.route][m.index]

MergeTypeOK ==
  /\ route_chunks \in [Routes -> Seq(Keys)]
  /\ order \in Seq(Routes)
  /\ at \in 0 .. Len(order) + 1
  /\ pointers \in [Routes -> Nat]
  /\ \A r \in Routes : pointers[r] <= Len(route_chunks[r])
  /\ merged \in Seq([route : Routes, index : Nat \ {0}])
  /\ \A k \in 1..Len(merged) : merged[k].index <= Len(route_chunks[merged[k].route])
  /\ seen \subseteq Keys
  /\ progressed \in BOOLEAN
  /\ done \in BOOLEAN

(* The routes in the order of their best chunk, whichever order that is. *)
Orders ==
  {s \in [1..Cardinality(Routes) -> Routes] : \A r \in Routes : \E k \in DOMAIN s : s[k] = r}

MergeInit ==
  /\ route_chunks \in [Routes -> Lists]
  /\ order \in Orders
  /\ at = 0
  /\ pointers = [r \in Routes |-> 0]
  /\ merged = <<>>
  /\ seen = {}
  /\ progressed = FALSE
  /\ done = FALSE

-----------------------------------------------------------------------------
(* while len(merged) < max_total: progressed = False.  Without routes the  *)
(* function has returned before the loop.                                  *)
StartRound ==
  /\ ~ done /\ at = 0
  /\ IF Len(merged) < MaxTotal /\ order # <<>>
       THEN at' = 1 /\ progressed' = FALSE /\ UNCHANGED done
       ELSE done' = TRUE /\ UNCHANGED <<at, progressed>>
  /\ UNCHANGED <<input, pointers, merged, seen>>

(* The next chunk of a route that is not yet merged. *)
IsFresh(r, i) ==
  /\ i \in pointers[r] + 1 .. Len(route_chunks[r])
  /\ route_chunks[r][i] \notin seen
  /\ \A k \in pointers[r] + 1 .. i - 1 : route_chunks[r][k] \in seen

InRound == ~ done /\ at \in 1..Len(order)

(* Faulty variant: the turn goes on with the same route. *)
StaysWithRoute(i) ==
  LET r == order[at] IN
  /\ InRound /\ IsFresh(r, i)
  /\ pointers' = [pointers EXCEPT ![r] = i]
  /\ seen' = seen \union {route_chunks[r][i]}
  /\ merged' = Append(merged, [route |-> r, index |-> i])
  /\ progressed' = TRUE
  /\ at' = IF Len(merged') >= MaxTotal THEN Len(order) + 1 ELSE at
  /\ UNCHANGED <<input, done>>

(* Faulty variant: the bound is looked at once a round only. *)
ForgetsBound(i) ==
  LET r == order[at] IN
  /\ InRound /\ IsFresh(r, i)
  /\ pointers' = [pointers EXCEPT ![r] = i]
  /\ seen' = seen \union {route_chunks[r][i]}
  /\ merged' = Append(merged, [route |-> r, index |-> i])
  /\ progressed' = TRUE
  /\ at' = at + 1
  /\ UNCHANGED <<input, done>>

(* The route's next fresh chunk is merged; a full list ends the round. *)
Merge(i) ==
  LET r == order[at] IN
  /\ InRound /\ IsFresh(r, i)
  /\ pointers' = [pointers EXCEPT ![r] = i]
  /\ seen' = seen \union {route_chunks[r][i]}
  /\ merged' = Append(merged, [route |-> r, index |-> i])
  /\ progressed' = TRUE
  /\ at' = IF Len(merged') >= MaxTotal THEN Len(order) + 1 ELSE at + 1
  /\ UNCHANGED <<input, done>>

(* The route has nothing fresh left: its pointer goes to the end. *)
Exhaust ==
  LET r == order[at] IN
  /\ InRound
  /\ \A i \in pointers[r] + 1 .. Len(route_chunks[r]) : route_chunks[r][i] \in seen
  /\ pointers' = [pointers EXCEPT ![r] = Len(route_chunks[r])]
  /\ at' = at + 1
  /\ UNCHANGED <<input, merged, seen, progressed, done>>

(* Faulty variant: one exhausted route ends the merge. *)
StopsEarly ==
  /\ ~ done /\ at = Len(order) + 1
  /\ IF progressed /\ \A r \in Routes : pointers[r] < Len(route_chunks[r])
       THEN at' = 0 /\ UNCHANGED done
       ELSE done' = TRUE /\ UNCHANGED at
  /\ UNCHANGED <<input, pointers, merged, seen, progressed>>

(* Faulty variant: a round without progress does not end the loop. *)
ForgetsBreak ==
  /\ ~ done /\ at = Len(order) + 1
  /\ at' = 0
  /\ UNCHANGED <<input, pointers, merged, seen, progressed, done>>

(* if not progressed: break *)
EndRound ==
  /\ ~ done /\ at = Len(order) + 1
  /\ IF progressed
       THEN at' = 0 /\ UNCHANGED done
       ELSE done' = TRUE /\ UNCHANGED at
  /\ UNCHANGED <<input, pointers, merged, seen, progressed>>

MergeNext ==
  \/ StartRound
  \/ \E i \in 1..MaxChunks : Merge(i)
  \/ Exhaust
  \/ EndRound

MergeSpec == MergeInit /\ [][MergeNext]_mergeVars

-----------------------------------------------------------------------------
(* No chunk is handed to the calc services twice, whichever routes found   *)
(* it, and there are never more than max_total.                            *)
NoDuplicates ==
  /\ Len(merged) <= MaxTotal
  /\ \A k, l \in 1..Len(merged) : k # l => KeyOf(merged[k]) # KeyOf(merged[l])

(* When the merge returns, it is full or every chunk of every route is in. *)
NothingLeftOut ==
  done => \/ Len(merged) = MaxTotal
          \/ \A r \in Routes, i \in 1..MaxChunks :
               i <= Len(route_chunks[r]) => \E k \in 1..Len(merged) : KeyOf(merged[k]) = route_chunks[r][i]

Share(r) == Cardinality({k \in 1..Len(merged) : merged[k].route = r})

(* Round-robin (docs/ARCHITECTURE.md, phase 5): no route gets more than    *)
(* one chunk ahead of another one that still has chunks to offer.          *)
Balanced ==
  \A r, s \in Routes : Share(r) > Share(s) + 1 => pointers[s] = Len(route_chunks[s])
=============================================================================
