---------------------------- MODULE RankingProofs ----------------------------
(***************************************************************************)
(* Theorems about the two rankings on the way of a query: RouteSelection,  *)
(* for any configuration of routes and any matches of the query, and       *)
(* ContextRetrieval, for any library, any profiles and any limits.         *)
(***************************************************************************)
EXTENDS RouteSelection, ContextRetrieval, DataLemmas

(* A score is a number, and without a match it is the base, with the bonus *)
(* for BRUCE.                                                              *)
LEMMA ScoreType ==
  ASSUME tokens \in Nat, NEW r \in Route
  PROVE  /\ Score(r) \in Int
         /\ r.terms = 0 /\ r.keywords = 0 => Score(r) = IF r.name = Bruce THEN 120 ELSE 60
<1>1. ASSUME NEW m \in Nat PROVE Overlap(m) \in Int /\ (m = 0 => Overlap(m) = 0)
  <2>1. CASE tokens = 0
    BY <2>1 DEF Overlap
  <2>2. CASE tokens # 0
    <3> DEFINE denom == IF tokens < 4 THEN tokens ELSE 4
    <3>1. denom \in {1, 2, 3, 4}
      BY <2>2
    <3>2. (12 * m) \div denom \in Int /\ (m = 0 => (12 * m) \div denom = 0)
      <4> HIDE DEF denom
      <4> QED BY <3>1
    <3>3. Overlap(m) = IF (12 * m) \div denom < 12 THEN (12 * m) \div denom ELSE 12
      BY <2>2 DEF Overlap
    <3> HIDE DEF denom
    <3> QED BY <3>2, <3>3
  <2> QED BY <2>1, <2>2
<1>2. r.terms \in Nat /\ r.keywords \in Nat
  BY DEF Route
<1>3. /\ Overlap(r.terms) \in Int /\ (r.terms = 0 => Overlap(r.terms) = 0)
      /\ Overlap(r.keywords) \in Int /\ (r.keywords = 0 => Overlap(r.keywords) = 0)
  BY <1>1, <1>2
<1>4. PICK a \in Int, b \in Int :
        /\ a = Overlap(r.terms) /\ b = Overlap(r.keywords)
        /\ r.terms = 0 /\ r.keywords = 0 => a = 0 /\ b = 0
  BY <1>3
<1>5. Score(r) = 60 + 60 * a + 15 * b + (IF r.name = Bruce THEN 60 ELSE 0)
  BY <1>4 DEF Score
<1>6. PICK bonus \in {0, 60} : bonus = IF r.name = Bruce THEN 60 ELSE 0
  OBVIOUS
<1>7. Score(r) = 60 + 60 * a + 15 * b + bonus
  BY <1>5, <1>6
<1>8. Score(r) \in Int
  BY <1>6, <1>7
<1>9. ASSUME r.terms = 0, r.keywords = 0 PROVE Score(r) = 60 + bonus
  <2>1. a = 0 /\ b = 0
    BY <1>4, <1>9
  <2>2. 60 * a = 0 /\ 15 * b = 0
    BY <2>1
  <2>3. Score(r) = 60 + 0 + 0 + bonus
    BY <1>7, <2>2
  <2> QED BY <1>6, <2>3
<1> QED BY <1>6, <1>8, <1>9

(* More matches do not lower the overlap, and one is worth a quarter.      *)
LEMMA OverlapGrows ==
  ASSUME tokens \in Nat, NEW m \in Nat, NEW k \in Nat, k <= m
  PROVE  /\ Overlap(m) \in Int /\ Overlap(k) \in Int
         /\ 0 <= Overlap(k) /\ Overlap(k) <= Overlap(m)
         /\ tokens # 0 /\ m > 0 => Overlap(m) >= 3
<1>1. CASE tokens = 0
  BY <1>1 DEF Overlap
<1>2. CASE tokens # 0
  <2> DEFINE denom == IF tokens < 4 THEN tokens ELSE 4
             Cap(x) == IF (12 * x) \div denom < 12 THEN (12 * x) \div denom ELSE 12
  <2>1. denom \in {1, 2, 3, 4}
    BY <1>2
  <2>2. Overlap(m) = Cap(m) /\ Overlap(k) = Cap(k)
    BY <1>2 DEF Overlap
  <2> HIDE DEF denom
  <2>3. /\ (12 * m) \div denom \in Int /\ (12 * k) \div denom \in Int
        /\ 0 <= (12 * k) \div denom /\ (12 * k) \div denom <= (12 * m) \div denom
        /\ m > 0 => (12 * m) \div denom >= 3
    <3>1. CASE denom = 1
      BY <3>1
    <3>2. CASE denom = 2
      BY <3>2
    <3>3. CASE denom = 3
      BY <3>3
    <3>4. CASE denom = 4
      BY <3>4
    <3> QED BY <2>1, <3>1, <3>2, <3>3, <3>4
  <2> QED BY <2>2, <2>3
<1> QED BY <1>1, <1>2

(* A route that matches a term reaches the threshold, and one that matches *)
(* as much as another is behind it by the bonus at most.                   *)
LEMMA ScoreGrows ==
  ASSUME tokens \in Nat, NEW r \in Route
  PROVE  /\ tokens # 0 /\ r.terms > 0 => Score(r) >= 180
         /\ \A q \in Route : r.terms >= q.terms /\ r.keywords >= q.keywords =>
              Score(q) <= Score(r) + 60
<1>1. \A q \in Route : q.terms \in Nat /\ q.keywords \in Nat
  BY DEF Route
<1>2. \A q : \E bonus \in {0, 60} :
        Score(q) = 60 + 60 * Overlap(q.terms) + 15 * Overlap(q.keywords) + bonus
  BY DEF Score
<1>3. PICK a \in Int, b \in Int : a = Overlap(r.terms) /\ b = Overlap(r.keywords)
                              /\ 0 <= a /\ 0 <= b /\ (tokens # 0 /\ r.terms > 0 => a >= 3)
  BY <1>1, OverlapGrows
<1>4. PICK bonus \in {0, 60} : Score(r) = 60 + 60 * a + 15 * b + bonus
  BY <1>2, <1>3
<1>5. tokens # 0 /\ r.terms > 0 => Score(r) >= 180
  BY <1>3, <1>4
<1>6. ASSUME NEW q \in Route, r.terms >= q.terms, r.keywords >= q.keywords
      PROVE  Score(q) <= Score(r) + 60
  <2>1. PICK c \in Int, d \in Int : c = Overlap(q.terms) /\ d = Overlap(q.keywords)
                                /\ c <= a /\ d <= b
    BY <1>1, <1>3, <1>6, OverlapGrows
  <2>2. PICK extra \in {0, 60} : Score(q) = 60 + 60 * c + 15 * d + extra
    BY <1>2, <2>1
  <2> QED BY <1>3, <1>4, <2>1, <2>2
<1> QED BY <1>5, <1>6

(* The names differ, so the records do. *)
DifferentNames == \A i, j \in 1..Len(routes) : routes[i].name = routes[j].name => i = j

(* ranked lists the routes, each once and the better ones first. *)
RankedWell ==
  /\ Len(ranked) = Len(routes)
  /\ \A k \in 1..Len(ranked) : \E i \in 1..Len(routes) : ranked[k] = routes[i]
  /\ \A i \in 1..Len(routes) : \E k \in 1..Len(ranked) : ranked[k] = routes[i]
  /\ \A k, l \in 1..Len(ranked) : k < l => /\ Score(ranked[k]) >= Score(ranked[l])
                                           /\ ranked[k].name # ranked[l].name

(* A query without tokens matches nothing. *)
MatchesHaveTokens == \A i \in 1..Len(routes) : routes[i].terms > 0 => tokens # 0

SelectionInv ==
  /\ SelectionTypeOK
  /\ DifferentNames
  /\ MatchesHaveTokens
  /\ selecting \in {"rank", "select"} => Len(routes) >= 2
  /\ selecting = "select" => RankedWell
  /\ SelectsTheBest
  /\ SecondRouteFits

LEMMA SelectionInitInv == SelectionInit => SelectionInv
<1> SUFFICES ASSUME SelectionInit PROVE SelectionInv
  OBVIOUS
<1>1. routes \in Seq(Route)
  <2>1. PICK n \in 0..MaxRoutes :
          routes \in [1..n -> [name : Names, terms : Matches, keywords : Matches]]
    BY DEF SelectionInit
  <2>2. n \in Nat /\ Matches \subseteq Nat
    BY SelectionAssumption DEF SelectionInit, Matches
  <2>3. [name : Names, terms : Matches, keywords : Matches] \subseteq Route
    BY <2>2 DEF Route
  <2>4. routes \in [1..n -> Route]
    BY <2>1, <2>3
  <2> QED BY <2>2, <2>4
<1>2. SelectionTypeOK
  BY <1>1 DEF SelectionInit, SelectionTypeOK
<1>3. MatchesHaveTokens
  <2>1. \A i \in 1..Len(routes) : routes[i].terms \in Matches
    BY DEF SelectionInit
  <2>2. tokens = 0 => \A x \in Matches : x = 0
    BY DEF Matches
  <2> QED BY <2>1, <2>2 DEF MatchesHaveTokens
<1> QED BY <1>2, <1>3 DEF SelectionInit, SelectionInv, DifferentNames, SelectsTheBest, SecondRouteFits

(* Fetch: an empty configuration is replaced by BRUCE, a single route is   *)
(* taken.                                                                  *)
LEMMA FetchStep == SelectionInv /\ Fetch => SelectionInv'
<1> SUFFICES ASSUME SelectionInv, Fetch PROVE SelectionInv'
  OBVIOUS
<1> DEFINE bruce == [name |-> Bruce, terms |-> 0, keywords |-> 0]
           found == IF routes = <<>> THEN <<bruce>> ELSE routes
<1>1. routes \in Seq(Route) /\ tokens \in Tokens /\ ranked \in Seq(Route) /\ selected \in Seq(Route)
      /\ Len(selected) <= 2
  BY DEF SelectionInv, SelectionTypeOK
<1>2. routes' = found /\ UNCHANGED <<tokens, ranked>>
  BY DEF Fetch
<1>3. found \in Seq(Route) /\ found # <<>> /\ Len(found) \in Nat \ {0}
  <2>1. bruce \in Route
    BY SelectionAssumption DEF Route
  <2>2. CASE routes = <<>>
    <3>1. found = <<bruce>>
      BY <2>2
    <3> HIDE DEF bruce, found
    <3> QED BY <2>1, <3>1
  <2>3. CASE routes # <<>>
    BY <1>1, <2>3
  <2> QED BY <2>2, <2>3
<1>4. \A i, j \in 1..Len(found) : found[i].name = found[j].name => i = j
  <2>1. CASE routes = <<>>
    BY <2>1
  <2>2. CASE routes # <<>>
    BY <2>2 DEF SelectionInv, DifferentNames
  <2> QED BY <2>1, <2>2
<1>m. \A i \in 1..Len(found) : found[i].terms > 0 => tokens # 0
  <2>1. CASE routes = <<>>
    BY <2>1
  <2>2. CASE routes # <<>>
    BY <2>2 DEF SelectionInv, MatchesHaveTokens
  <2> QED BY <2>1, <2>2
<1>f. /\ IF Len(found) <= 1 THEN selecting' = "done" /\ selected' = found
                            ELSE selecting' = "rank" /\ UNCHANGED selected
  BY DEF Fetch
<1> HIDE DEF found
<1>5. CASE Len(found) <= 1
  <2>1. Len(found) = 1 /\ selecting' = "done" /\ selected' = found /\ routes' = found
    BY <1>2, <1>3, <1>5, <1>f
  <2>2. SelectionTypeOK'
    <3>1. selected' \in Seq(Route) /\ routes' \in Seq(Route) /\ Len(selected') <= 2
      BY <1>3, <2>1
    <3> QED BY <1>1, <1>2, <2>1, <3>1 DEF SelectionTypeOK
  <2>3. SelectsTheBest'
    <3>1. \A k \in 1..Len(found) : k = 1
      BY <2>1
    <3>2. /\ selected' # <<>>
          /\ \A k \in 1..Len(selected') : \E i \in 1..Len(routes') : selected'[k] = routes'[i]
          /\ \A k, l \in 1..Len(selected') : selected'[k] = selected'[l] => k = l
      BY <1>3, <2>1, <3>1
    <3>3. \A i \in 1..Len(routes') : ~ \A l \in 1..Len(selected') : selected'[l] # routes'[i]
      BY <2>1
    <3>4. (\E i \in 1..Len(routes') : routes'[i].name = Bruce)
            => Len(selected') = 1 /\ selected'[1].name = Bruce
      BY <2>1, <3>1
    <3> QED BY <3>2, <3>3, <3>4 DEF SelectsTheBest
  <2>4. SecondRouteFits'
    <3>1. Len(routes') = 1
      BY <2>1
    <3>2. ~ (Len(routes') > 1)
      BY <3>1
    <3> QED BY <3>2 DEF SecondRouteFits
  <2> QED
    BY <1>2, <1>4, <1>m, <2>1, <2>2, <2>3, <2>4 DEF SelectionInv, DifferentNames, MatchesHaveTokens
<1>6. CASE ~ (Len(found) <= 1)
  <2>1. selecting' = "rank" /\ selected' = selected /\ Len(found) >= 2
    BY <1>3, <1>6, <1>f
  <2>2. SelectionTypeOK'
    BY <1>1, <1>2, <1>3, <2>1 DEF SelectionTypeOK
  <2> QED
    BY <1>2, <1>4, <1>m, <2>1, <2>2
    DEF SelectionInv, DifferentNames, MatchesHaveTokens, SelectsTheBest, SecondRouteFits
<1> QED BY <1>5, <1>6

(* RankRoutes: the stable sort lists the routes in the order of Before. *)
LEMMA RankStep == SelectionInv /\ RankRoutes => SelectionInv'
<1> SUFFICES ASSUME SelectionInv, RankRoutes PROVE SelectionInv'
  OBVIOUS
<1> DEFINE n == Len(routes)
           B == {p \in (1..n) \X (1..n) : Before(p[1], p[2])}
           At(k) == CHOOSE i \in 1..n : Cardinality({j \in 1..n : Before(j, i)}) = k - 1
<1>1. routes \in Seq(Route) /\ n \in Nat /\ n >= 2 /\ tokens \in Nat
      /\ \A i \in 1..n : routes[i] \in Route
  BY SelectionAssumption DEF SelectionInv, SelectionTypeOK, RankRoutes
<1>2. \A i \in 1..n : Score(routes[i]) \in Int
  BY <1>1, ScoreType
<1>3. \A i, j \in 1..n : <<i, j>> \in B <=> Before(i, j)
  OBVIOUS
<1>4. /\ \A k \in 1..n : At(k) \in 1..n
      /\ \A k, l \in 1..n : k < l => Before(At(k), At(l))
      /\ \A i \in 1..n : \E k \in 1..n : At(k) = i
  <2> DEFINE BAt(k) == CHOOSE i \in 1..n : Cardinality({j \in 1..n : <<j, i>> \in B}) = k - 1
  <2>1. B \in SUBSET ((1..n) \X (1..n))
    OBVIOUS
  <2>2. \A i \in 1..n : <<i, i>> \notin B
    BY <1>2, <1>3 DEF Before
  <2>3. \A i, j, k \in 1..n : <<i, j>> \in B /\ <<j, k>> \in B => <<i, k>> \in B
    <3>1. \A i, j, k \in 1..n : Before(i, j) /\ Before(j, k) => Before(i, k)
      BY <1>2 DEF Before
    <3> QED BY <1>3, <3>1
  <2>4. \A i, j \in 1..n : i # j => <<i, j>> \in B \/ <<j, i>> \in B
    <3>1. \A i, j \in 1..n : i # j => Before(i, j) \/ Before(j, i)
      BY <1>2 DEF Before
    <3> QED BY <1>3, <3>1
  <2>5. \A k : BAt(k) = At(k)
    <3>1. \A i \in 1..n : {j \in 1..n : <<j, i>> \in B} = {j \in 1..n : Before(j, i)}
      BY <1>3
    <3> HIDE DEF B, n
    <3> QED BY <3>1
  <2>6. /\ \A k \in 1..n : BAt(k) \in 1..n
        /\ \A k, l \in 1..n : k < l => <<BAt(k), BAt(l)>> \in B
        /\ \A i \in 1..n : \E k \in 1..n : BAt(k) = i
    <3> HIDE DEF n, B
    <3> QED BY <1>1, <2>1, <2>2, <2>3, <2>4, SortedByRank DEF n
  <2> HIDE DEF BAt, At, B
  <2> QED BY <1>3, <2>5, <2>6
<1>5. /\ UNCHANGED <<tokens, routes, selected>> /\ selecting' = "select"
      /\ ranked' = [k \in 1..n |-> routes[At(k)]]
  BY DEF RankRoutes
<1> HIDE DEF At
<1>6. ranked' \in Seq(Route) /\ Len(ranked') = n /\ \A k \in 1..n : ranked'[k] = routes[At(k)]
  <2>1. \A k \in 1..n : routes[At(k)] \in Route
    BY <1>1, <1>4
  <2>2. n \in Nat /\ DOMAIN ranked' = 1..n
    BY <1>1, <1>5
  <2> HIDE DEF n
  <2>3. ranked' \in [1..n -> Route] /\ \A k \in 1..n : ranked'[k] = routes[At(k)]
    BY <1>5, <2>1
  <2> QED BY <2>2, <2>3
<1>7. SelectionTypeOK'
  BY <1>5, <1>6 DEF SelectionInv, SelectionTypeOK
<1>8. RankedWell'
  <2>1. \A k \in 1..Len(ranked') : \E i \in 1..Len(routes') : ranked'[k] = routes'[i]
    BY <1>4, <1>5, <1>6
  <2>2. ASSUME NEW i \in 1..n PROVE \E k \in 1..Len(ranked') : ranked'[k] = routes'[i]
    <3>1. PICK k \in 1..n : At(k) = i
      BY <1>4
    <3> QED BY <3>1, <1>5, <1>6
  <2>3. ASSUME NEW k \in 1..n, NEW l \in 1..n, k < l
        PROVE  Score(ranked[k])' >= Score(ranked[l])' /\ ranked'[k].name # ranked'[l].name
    <3>1. Before(At(k), At(l)) /\ At(k) \in 1..n /\ At(l) \in 1..n /\ At(k) # At(l)
      <4>1. Before(At(k), At(l)) /\ At(k) \in 1..n /\ At(l) \in 1..n
        BY <1>4, <2>3
      <4>2. At(k) # At(l)
        BY <4>1, <1>2 DEF Before
      <4> QED BY <4>1, <4>2
    <3>2. Score(routes[At(k)]) >= Score(routes[At(l)])
      BY <3>1, <1>2 DEF Before
    <3>3. \A r : Score(r)' = Score(r)
      BY <1>5 DEF Score, Overlap
    <3>4. routes[At(k)].name # routes[At(l)].name
      BY <3>1 DEF SelectionInv, DifferentNames
    <3> QED BY <3>2, <3>3, <3>4, <1>6
  <2> QED BY <2>1, <2>2, <2>3, <1>5, <1>6 DEF RankedWell
<1> QED
  BY <1>1, <1>5, <1>7, <1>8
  DEF SelectionInv, DifferentNames, MatchesHaveTokens, SelectsTheBest, SecondRouteFits

(* Select: of the first two, the second only if it is close enough. *)
LEMMA SelectStep == SelectionInv /\ Select => SelectionInv'
<1> SUFFICES ASSUME SelectionInv, Select PROVE SelectionInv'
  OBVIOUS
<1> DEFINE n == Len(routes)
<1>1. /\ routes \in Seq(Route) /\ ranked \in Seq(Route) /\ n \in Nat /\ n >= 2 /\ Len(ranked) = n
      /\ tokens \in Nat
      /\ \A i \in 1..n : routes[i] \in Route
      /\ \A k \in 1..n : ranked[k] \in Route
  <2>1. routes \in Seq(Route) /\ ranked \in Seq(Route) /\ tokens \in Nat
    BY SelectionAssumption DEF SelectionInv, SelectionTypeOK
  <2>2. Len(routes) >= 2 /\ Len(ranked) = Len(routes)
    BY DEF SelectionInv, Select, RankedWell
  <2> QED BY <2>1, <2>2
<1>2. /\ \A k \in 1..n : \E i \in 1..n : ranked[k] = routes[i]
      /\ \A i \in 1..n : \E k \in 1..n : ranked[k] = routes[i]
      /\ \A k, l \in 1..n : k < l => /\ Score(ranked[k]) >= Score(ranked[l])
                                     /\ ranked[k].name # ranked[l].name
  BY DEF SelectionInv, Select, RankedWell
<1>3. /\ \A k \in 1..n : Score(ranked[k]) \in Int
      /\ 1 \in 1..n /\ 2 \in 1..n
  BY <1>1, ScoreType
<1>4. /\ UNCHANGED <<tokens, routes, ranked>> /\ selecting' = "done"
      /\ selected' = IF KeepsSecond THEN <<ranked[1], ranked[2]>> ELSE <<ranked[1]>>
  BY DEF Select
<1>5. SelectionTypeOK'
  <2>1. ranked[1] \in Route /\ ranked[2] \in Route
    BY <1>1, <1>3
  <2>2. <<ranked[1], ranked[2]>> \in Seq(Route) /\ Len(<<ranked[1], ranked[2]>>) = 2
        /\ <<ranked[1]>> \in Seq(Route) /\ Len(<<ranked[1]>>) = 1
    BY <2>1
  <2>3. selected' \in Seq(Route) /\ Len(selected') <= 2
    BY <1>4, <2>2
  <2>4. tokens \in Tokens
    BY DEF SelectionInv, SelectionTypeOK
  <2>5. tokens' \in Tokens /\ routes' \in Seq(Route) /\ ranked' \in Seq(Route) /\ selecting' = "done"
    BY <1>1, <1>4, <2>4
  <2> QED BY <2>3, <2>5 DEF SelectionTypeOK
<1>s. \A r : Score(r)' = Score(r)
  BY <1>4 DEF Score, Overlap
<1>6. /\ selected' # <<>> /\ Len(selected') \in {1, 2} /\ selected'[1] = ranked[1]
      /\ Len(selected') = 2 => selected'[2] = ranked[2] /\ KeepsSecond
      /\ \A k \in 1..Len(selected') : k \in {1, 2} /\ k \in 1..n /\ selected'[k] = ranked[k]
  BY <1>1, <1>4
<1>7. \A k, l \in 1..Len(selected') : selected'[k] = selected'[l] => k = l
  <2>1. ranked[1].name # ranked[2].name
    BY <1>2, <1>3
  <2>2. \A k \in 1..Len(selected') : k \in {1, 2} /\ selected'[k] = ranked[k]
    BY <1>6
  <2> QED BY <2>1, <2>2
<1>8. ASSUME NEW i \in 1..n, NEW k \in 1..Len(selected'),
             \A l \in 1..Len(selected') : selected'[l] # routes[i]
      PROVE  Score(selected'[k]) >= Score(routes[i])
  <2>1. PICK m \in 1..n : ranked[m] = routes[i]
    BY <1>2
  <2>2. m > Len(selected') /\ k < m /\ k \in 1..n
    BY <1>6, <1>8, <2>1
  <2>3. Score(ranked[k]) >= Score(ranked[m])
    BY <1>2, <2>2
  <2> QED BY <1>6, <2>1, <2>3
<1>9. ASSUME \A i \in 1..n : routes[i].terms = 0 /\ routes[i].keywords = 0,
             \E i \in 1..n : routes[i].name = Bruce
      PROVE  Len(selected') = 1 /\ selected'[1].name = Bruce
  <2>1. \A k \in 1..n : Score(ranked[k]) = IF ranked[k].name = Bruce THEN 120 ELSE 60
    <3> SUFFICES ASSUME NEW k \in 1..n
                 PROVE  Score(ranked[k]) = IF ranked[k].name = Bruce THEN 120 ELSE 60
      OBVIOUS
    <3>1. ranked[k].terms = 0 /\ ranked[k].keywords = 0 /\ ranked[k] \in Route
      <4>1. PICK i \in 1..n : ranked[k] = routes[i]
        BY <1>2
      <4>2. routes[i].terms = 0 /\ routes[i].keywords = 0 /\ routes[i] \in Route
        BY <1>1, <1>9
      <4> QED BY <4>1, <4>2
    <3> QED BY <1>1, <3>1, ScoreType
  <2>2. PICK m \in 1..n : ranked[m].name = Bruce
    BY <1>2, <1>9
  <2>3. ranked[1].name = Bruce
    <3>1. CASE m = 1
      BY <2>2, <3>1
    <3>2. CASE m # 1
      <4>1. 1 < m /\ Score(ranked[m]) = 120
        BY <1>1, <2>1, <2>2, <3>2
      <4>2. Score(ranked[1]) >= 120
        BY <1>2, <1>3, <4>1
      <4>3. Score(ranked[1]) = 60 \/ ranked[1].name = Bruce
        BY <1>3, <2>1
      <4> QED BY <4>2, <4>3
    <3> QED BY <3>1, <3>2
  <2>4. ~ KeepsSecond
    <3>1. Score(ranked[2]) = 60 \/ Score(ranked[2]) = 120
      BY <1>3, <2>1
    <3> QED BY <3>1 DEF KeepsSecond
  <2> QED BY <1>6, <2>3, <2>4
<1>10. SelectsTheBest'
  <2>1. \A k \in 1..Len(selected') : \E i \in 1..Len(routes') : selected'[k] = routes'[i]
    <3>1. \A k \in 1..Len(selected') : k \in 1..n /\ selected'[k] = ranked[k]
      BY <1>6
    <3>2. routes' = routes
      BY <1>4
    <3>3. ASSUME NEW k \in 1..Len(selected') PROVE \E i \in 1..Len(routes') : selected'[k] = routes'[i]
      <4>1. k \in 1..n /\ selected'[k] = ranked[k]
        BY <3>1
      <4>2. \E i \in 1..Len(routes) : ranked[k] = routes[i]
        BY <1>2, <4>1
      <4> QED BY <3>2, <4>1, <4>2
    <3> QED BY <3>3
  <2>2. \A i \in 1..Len(routes') : \A k \in 1..Len(selected') :
          (\A l \in 1..Len(selected') : selected'[l] # routes'[i]) =>
             Score(selected[k])' >= Score(routes[i])'
    BY <1>4, <1>8, <1>s
  <2>3. (\A i \in 1..Len(routes') : routes'[i].terms = 0 /\ routes'[i].keywords = 0)
           /\ (\E i \in 1..Len(routes') : routes'[i].name = Bruce)
         => Len(selected') = 1 /\ selected'[1].name = Bruce
    BY <1>4, <1>9
  <2> QED BY <1>6, <1>7, <2>1, <2>2, <2>3 DEF SelectsTheBest
<1>11. SecondRouteFits'
  <2>1. ASSUME Len(selected') = 2 PROVE selected'[2].terms + selected'[2].keywords > 0
    <3>1. KeepsSecond /\ selected'[2] = ranked[2] /\ ranked[2] \in Route
      BY <1>1, <1>3, <1>6, <2>1
    <3>2. ~ (ranked[2].terms = 0 /\ ranked[2].keywords = 0)
      <4>1. Score(ranked[2]) >= 180
        BY <3>1 DEF KeepsSecond
      <4> QED BY <1>1, <3>1, <4>1, ScoreType
    <3>3. ranked[2].terms \in Nat /\ ranked[2].keywords \in Nat
      BY <3>1 DEF Route
    <3> QED BY <3>1, <3>2, <3>3
  <2>2. ASSUME NEW i \in 1..n, routes[i] # selected'[1], routes[i].terms > 0,
               \/ tokens >= 6
               \/ /\ routes[i].terms >= selected'[1].terms
                  /\ routes[i].keywords >= selected'[1].keywords
        PROVE  Len(selected') = 2
    <3>1. PICK m \in 1..n : ranked[m] = routes[i]
      BY <1>2
    <3>2. m # 1
      BY <1>6, <2>2, <3>1
    <3>3. Score(ranked[2]) >= Score(routes[i])
      <4>1. CASE m = 2
        BY <1>3, <3>1, <4>1
      <4>2. CASE m # 2
        BY <1>1, <1>2, <1>3, <3>1, <3>2, <4>2
      <4> QED BY <4>1, <4>2
    <3>4. routes[i] \in Route /\ ranked[1] \in Route /\ Score(ranked[1]) \in Int
          /\ Score(ranked[2]) \in Int /\ Score(routes[i]) \in Int
      BY <1>1, <1>3, ScoreType
    <3>5. Score(routes[i]) >= 180
      <4>1. tokens # 0
        BY <2>2 DEF SelectionInv, MatchesHaveTokens
      <4> QED BY <1>1, <2>2, <3>4, <4>1, ScoreGrows
    <3>6. Score(ranked[1]) - Score(ranked[2]) <= 300 \/ tokens >= 6
      <4>1. CASE tokens >= 6
        BY <4>1
      <4>2. CASE ~ (tokens >= 6)
        <5>1. routes[i].terms >= ranked[1].terms /\ routes[i].keywords >= ranked[1].keywords
          BY <1>6, <2>2, <4>2
        <5>2. Score(ranked[1]) <= Score(routes[i]) + 60
          BY <1>1, <3>4, <5>1, ScoreGrows
        <5> QED BY <3>3, <3>4, <5>2
      <4> QED BY <4>1, <4>2
    <3>7. KeepsSecond
      BY <3>3, <3>4, <3>5, <3>6 DEF KeepsSecond
    <3> QED BY <1>4, <3>7
  <2> QED BY <1>4, <2>1, <2>2 DEF SecondRouteFits
<1> QED BY <1>4, <1>5, <1>10, <1>11 DEF SelectionInv, DifferentNames, MatchesHaveTokens

LEMMA SelectionStepInv == SelectionInv /\ [SelectionNext]_selectionVars => SelectionInv'
<1>1. SelectionInv /\ UNCHANGED selectionVars => SelectionInv'
  BY DEF selectionVars, SelectionInv, SelectionTypeOK, DifferentNames, MatchesHaveTokens, RankedWell,
         SelectsTheBest, SecondRouteFits, Score, Overlap
<1> QED BY <1>1, FetchStep, RankStep, SelectStep DEF SelectionNext

LEMMA SelectionInvariant == SelectionSpec => []SelectionInv
BY SelectionStepInv, SelectionInitInv, PTL DEF SelectionSpec

(* Whatever the configuration and the query, the routes selected are the   *)
(* best of it, and a query that matches none goes to BRUCE alone.          *)
THEOREM BestRoutesSelected == SelectionSpec => []SelectsTheBest
<1>1. SelectionInv => SelectsTheBest
  BY DEF SelectionInv
<1> QED BY <1>1, SelectionInvariant, PTL

(* The second route is one the query matches, and it is not left out       *)
(* beside one that fits as well.                                           *)
THEOREM SecondRouteMatches == SelectionSpec => []SecondRouteFits
<1>1. SelectionInv => SecondRouteFits
  BY DEF SelectionInv
<1> QED BY <1>1, SelectionInvariant, PTL

-----------------------------------------------------------------------------
(* The first SELECT returns each chunk at most once, and all but those it  *)
(* cuts off.                                                               *)
ListsSnapshot ==
  /\ \A i, j \in 1..Len(candidates) : candidates[i] = candidates[j] => i = j
  /\ \A c \in snapshot : CutOff(c) \/ \E i \in 1..Len(candidates) : candidates[i] = c
  /\ snapshot # {} => candidates # <<>>

RetrievalInv ==
  /\ RetrievalTypeOK
  /\ retrieving \in {"ann", "rank", "done"} => ListsSnapshot
  /\ BestOfLibrary

LEMMA SimilarityType ==
  ASSUME profile \in [Chunks -> Profiles], NEW c \in Chunks
  PROVE  Similarity(c) \in Int
<1> DEFINE p == profile[c]
           sum == 40 * p.overlap + 20 * p.anchor + 25 * p.cosine + 15 * p.trigram
           score == IF long /\ p.overlap < 40 THEN (55 * sum) \div 100 ELSE sum
<1>1. p.overlap \in Int /\ p.anchor \in Int /\ p.cosine \in Int /\ p.trigram \in Int
  <2>1. p \in [index : Nat, overlap : 0..100, anchor : 0..100, cosine : 0..100, trigram : 0..100]
    BY RetrievalAssumption
  <2> QED BY <2>1
<1>2. sum \in Int
  <2> HIDE DEF p
  <2> QED BY <1>1
<1>3. (55 * sum) \div 100 \in Int
  <2> HIDE DEF sum
  <2> QED BY <1>2
<1>4. score \in Int
  <2> HIDE DEF sum
  <2> QED BY <1>2, <1>3
<1>5. Similarity(c) = ((IF score < 9900 THEN score ELSE 9900) + 5) \div 10
  BY DEF Similarity
<1> HIDE DEF score
<1> QED BY <1>4, <1>5

LEMMA FirstOfType ==
  ASSUME NEW n \in Nat, NEW S, IsFiniteSet(S)
  PROVE  /\ FirstOf(n, S) \in Nat /\ FirstOf(n, S) <= n
         /\ Cardinality(S) <= n => FirstOf(n, S) = Cardinality(S)
<1>1. Cardinality(S) \in Nat
  BY FS_CardinalityType
<1> QED BY <1>1 DEF FirstOf

(* The ranking of rows keeps the best of them, the better ones first. *)
LEMMA BestRanks ==
  ASSUME profile \in [Chunks -> Profiles], NEW rows \in Seq(Chunks), NEW lim \in Nat
  PROVE  LET n == Len(rows)
             m == IF n < lim THEN n ELSE lim
         IN \E At \in [1..n -> 1..n] :
              /\ Best(rows, lim) = [k \in 1..m |-> rows[At[k]]]
              /\ \A k, l \in 1..n : k < l => /\ At[k] # At[l]
                                             /\ Similarity(rows[At[k]]) >= Similarity(rows[At[l]])
              /\ \A i \in 1..n : \E k \in 1..n : At[k] = i
<1> DEFINE n == Len(rows)
           m == IF n < lim THEN n ELSE lim
           B == {p \in (1..n) \X (1..n) : RanksBefore(rows, p[1], p[2])}
           Place(k) == CHOOSE i \in 1..n : Cardinality({j \in 1..n : RanksBefore(rows, j, i)}) = k - 1
           At == [k \in 1..n |-> Place(k)]
<1>1. n \in Nat /\ m \in Nat /\ m <= n /\ \A i \in 1..n : rows[i] \in Chunks
  OBVIOUS
<1>2. \A i \in 1..n : Similarity(rows[i]) \in Int
  BY <1>1, SimilarityType
<1>3. \A i, j \in 1..n : <<i, j>> \in B <=> RanksBefore(rows, i, j)
  OBVIOUS
<1>4. /\ \A k \in 1..n : Place(k) \in 1..n
      /\ \A k, l \in 1..n : k < l => RanksBefore(rows, Place(k), Place(l))
      /\ \A i \in 1..n : \E k \in 1..n : Place(k) = i
  <2> DEFINE BPlace(k) == CHOOSE i \in 1..n : Cardinality({j \in 1..n : <<j, i>> \in B}) = k - 1
  <2>1. B \in SUBSET ((1..n) \X (1..n))
    OBVIOUS
  <2>2. \A i \in 1..n : <<i, i>> \notin B
    BY <1>2, <1>3 DEF RanksBefore
  <2>3. \A i, j, k \in 1..n : <<i, j>> \in B /\ <<j, k>> \in B => <<i, k>> \in B
    <3>1. \A i, j, k \in 1..n :
            RanksBefore(rows, i, j) /\ RanksBefore(rows, j, k) => RanksBefore(rows, i, k)
      BY <1>2 DEF RanksBefore
    <3> QED BY <1>3, <3>1
  <2>4. \A i, j \in 1..n : i # j => <<i, j>> \in B \/ <<j, i>> \in B
    <3>1. \A i, j \in 1..n : i # j => RanksBefore(rows, i, j) \/ RanksBefore(rows, j, i)
      BY <1>2 DEF RanksBefore
    <3> QED BY <1>3, <3>1
  <2>5. \A k : BPlace(k) = Place(k)
    <3>1. \A i \in 1..n : {j \in 1..n : <<j, i>> \in B} = {j \in 1..n : RanksBefore(rows, j, i)}
      BY <1>3
    <3> HIDE DEF B, n
    <3> QED BY <3>1
  <2>6. /\ \A k \in 1..n : BPlace(k) \in 1..n
        /\ \A k, l \in 1..n : k < l => <<BPlace(k), BPlace(l)>> \in B
        /\ \A i \in 1..n : \E k \in 1..n : BPlace(k) = i
    <3> HIDE DEF n, B
    <3> QED BY <1>1, <2>1, <2>2, <2>3, <2>4, SortedByRank DEF n
  <2> HIDE DEF BPlace, Place, B
  <2> QED BY <1>3, <2>5, <2>6
<1>5. Best(rows, lim) = [k \in 1..m |-> rows[Place(k)]]
  BY DEF Best
<1> HIDE DEF Place, m
<1>6. At \in [1..n -> 1..n] /\ \A k \in 1..n : At[k] = Place(k)
  BY <1>4
<1>7. Best(rows, lim) = [k \in 1..m |-> rows[At[k]]]
  <2>1. \A k \in 1..m : k \in 1..n
    BY <1>1
  <2> HIDE DEF At, n
  <2> QED BY <1>5, <1>6, <2>1
<1>8. ASSUME NEW k \in 1..n, NEW l \in 1..n, k < l
      PROVE  At[k] # At[l] /\ Similarity(rows[At[k]]) >= Similarity(rows[At[l]])
  <2>1. RanksBefore(rows, At[k], At[l]) /\ At[k] \in 1..n /\ At[l] \in 1..n
    BY <1>4, <1>6, <1>8
  <2> HIDE DEF At
  <2> QED BY <1>2, <2>1 DEF RanksBefore
<1>9. \A i \in 1..n : \E k \in 1..n : At[k] = i
  BY <1>4, <1>6
<1> HIDE DEF At
<1> QED BY <1>6, <1>7, <1>8, <1>9 DEF m

LEMMA RetrievalInitInv == RetrievalInit => RetrievalInv
<1> SUFFICES ASSUME RetrievalInit PROVE RetrievalInv
  OBVIOUS
<1>1. db \subseteq Chunks
  BY RetrievalAssumption DEF RetrievalInit
<1>2. snapshot = {} /\ candidates = <<>> /\ annRows = {} /\ result = <<>> /\ retrieving = "trigram"
  BY DEF RetrievalInit
<1>3. Cardinality(annRows) <= AnnLimit /\ Len(candidates) <= TrigramLimit
  BY <1>2, FS_EmptySet, RetrievalAssumption
<1>4. RetrievalTypeOK
  BY <1>1, <1>2, <1>3 DEF RetrievalInit, RetrievalTypeOK
<1> QED BY <1>2, <1>4 DEF RetrievalInv, BestOfLibrary

(* The trigram SELECT. *)
LEMMA TrigramStep == RetrievalInv /\ SelectTrigram => RetrievalInv'
<1> SUFFICES ASSUME RetrievalInv, SelectTrigram PROVE RetrievalInv'
  OBVIOUS
<1> DEFINE n == FirstOf(TrigramLimit, db)
<1>1. /\ db \subseteq Chunks /\ IsFiniteSet(db) /\ Cardinality(db) \in Nat /\ TrigramLimit \in Nat
  <2>1. db \in SUBSET Chunks
    BY DEF RetrievalInv, RetrievalTypeOK
  <2> QED BY <2>1, FS_Subset, FS_CardinalityType, RetrievalAssumption
<1>e. db # {} => n \in Nat \ {0}
  BY <1>1, FS_EmptySet, RetrievalAssumption DEF FirstOf
<1>2. n \in Nat /\ n <= TrigramLimit /\ (Cardinality(db) <= TrigramLimit => n = Cardinality(db))
  BY <1>1, FirstOfType
<1>3. /\ snapshot' = db /\ retrieving' = "ann" /\ UNCHANGED <<db, profile, long, annRows, result>>
      /\ candidates' \in [1..n -> db]
      /\ \A i, j \in 1..n : i < j => candidates'[i] # candidates'[j]
      /\ \A i \in 1..n : \A c \in db :
           Precedes(c, candidates'[i]) => \E j \in 1..i : candidates'[j] = c
  BY DEF SelectTrigram, Ordered
<1>n. n = TrigramLimit \/ n = Cardinality(db)
  BY <1>1 DEF FirstOf
<1> HIDE DEF n
<1>4. candidates' \in Seq(db) /\ Len(candidates') = n
  BY <1>2, <1>3
<1>5. RetrievalTypeOK'
  <2>1. result' \in Seq(snapshot' \union {Synthetic})
    <3>1. result \in Seq(snapshot \union {Synthetic}) /\ snapshot \subseteq db
      BY DEF RetrievalInv, RetrievalTypeOK
    <3> QED BY <1>3, <3>1
  <2>2. db' \subseteq Chunks /\ snapshot' \subseteq db' /\ candidates' \in Seq(snapshot')
        /\ Len(candidates') <= TrigramLimit
    BY <1>1, <1>2, <1>3, <1>4
  <2> QED BY <1>3, <2>1, <2>2 DEF RetrievalInv, RetrievalTypeOK
<1>6. ListsSnapshot'
  <2> DEFINE R == {candidates'[i] : i \in 1..n}
  <2>2. \A i, j \in 1..n : candidates'[i] = candidates'[j] => i = j
    BY <1>2, <1>3
  <2>3. candidates' \in [1..n -> R] /\ DOMAIN candidates' = 1..n
    BY <1>3
  <2>4. candidates' \in Bijection(1..n, R)
    BY <2>2, <2>3 DEF Bijection, Injection, Surjection, IsInjective
  <2>5. IsFiniteSet(R) /\ Cardinality(R) = n /\ R \subseteq db
    <3>1. IsFiniteSet(R) /\ Cardinality(R) = n
      <4>1. IsFiniteSet(1..n) /\ Cardinality(1..n) = n
        BY <1>2, FS_Interval
      <4>2. ExistsBijection(1..n, R)
        BY <2>4 DEF ExistsBijection
      <4> HIDE DEF R
      <4> QED BY <4>1, <4>2, FS_Bijection
    <3>2. R \subseteq db
      BY <1>3
    <3> QED BY <3>1, <3>2
  <2>6. ASSUME NEW c \in db, ~ \E i \in 1..n : candidates'[i] = c
        PROVE  CutOff(c)'
    <3> DEFINE D == {d \in db \ {c} : ~ Precedes(c, d)}
    <3>1. c \notin R
      BY <2>6
    <3>2. R \subseteq D
      <4>1. ASSUME NEW i \in 1..n PROVE candidates'[i] \in D
        <5>1. ~ Precedes(c, candidates'[i])
          <6>1. \A j \in 1..i : j \in 1..n
            BY <1>2
          <6> QED BY <1>3, <2>6, <6>1
        <5>2. candidates'[i] \in db \ {c}
          BY <1>3, <2>6
        <5> QED BY <5>1, <5>2
      <4> QED BY <4>1
    <3>3. IsFiniteSet(D) /\ Cardinality(R) <= Cardinality(D) /\ Cardinality(D) \in Nat
      <4>1. D \subseteq db
        OBVIOUS
      <4> HIDE DEF D, R
      <4>2. IsFiniteSet(D)
        BY <1>1, <4>1, FS_Subset
      <4> QED BY <3>2, <4>2, FS_Subset, FS_CardinalityType
    <3>4. n = TrigramLimit
      <4>1. ASSUME n = Cardinality(db) PROVE FALSE
        <5>1. Cardinality(R) = Cardinality(db)
          BY <2>5, <4>1
        <5> HIDE DEF R
        <5>2. R = db
          BY <1>1, <2>5, <5>1, FS_Subset
        <5> QED BY <3>1, <5>2
      <4> QED BY <1>n, <4>1
    <3>5. CutOff(c)' <=> Cardinality(D) >= TrigramLimit
      <4>1. \A d : Precedes(c, d)' <=> Precedes(c, d)
        BY <1>3 DEF Precedes
      <4>2. {d \in snapshot' \ {c} : ~ Precedes(c, d)'} = D
        BY <1>3, <4>1
      <4> HIDE DEF D
      <4> QED BY <4>2 DEF CutOff
    <3> HIDE DEF D, R
    <3> QED BY <1>1, <2>5, <3>3, <3>4, <3>5
  <2>7. db # {} => candidates' # <<>>
    BY <1>4, <1>e
  <2> QED BY <1>3, <1>4, <2>2, <2>6, <2>7 DEF ListsSnapshot
<1> QED BY <1>3, <1>5, <1>6 DEF RetrievalInv, BestOfLibrary

(* What is cut off depends on the first SELECT only. *)
LEMMA SameCut ==
  ASSUME UNCHANGED <<snapshot, profile>>
  PROVE  \A c : CutOff(c)' <=> CutOff(c)
BY DEF CutOff, Precedes

(* The ANN SELECT, an import and an exception leave the candidates alone.  *)
LEMMA AnnStep == RetrievalInv /\ SelectAnn => RetrievalInv'
<1> SUFFICES ASSUME RetrievalInv, SelectAnn PROVE RetrievalInv'
  OBVIOUS
<1>1. IsFiniteSet(db) /\ AnnLimit \in Nat
  <2>1. db \in SUBSET Chunks
    BY DEF RetrievalInv, RetrievalTypeOK
  <2> QED BY <2>1, FS_Subset, RetrievalAssumption
<1>2. /\ UNCHANGED <<db, profile, long, snapshot, candidates, result>> /\ retrieving = "ann"
      /\ retrieving' = "rank" /\ annRows' \subseteq db
      /\ Cardinality(annRows') = FirstOf(AnnLimit, db)
  BY DEF SelectAnn
<1>3. Cardinality(annRows') <= AnnLimit
  BY <1>1, <1>2, FirstOfType
<1>4. RetrievalTypeOK'
  BY <1>2, <1>3 DEF RetrievalInv, RetrievalTypeOK
<1>5. ListsSnapshot'
  BY <1>2, SameCut DEF RetrievalInv, ListsSnapshot
<1> QED BY <1>2, <1>4, <1>5 DEF RetrievalInv, BestOfLibrary

LEMMA PageStep == RetrievalInv /\ (ImportPage \/ AnnRefused \/ Raise) => RetrievalInv'
<1> SUFFICES ASSUME RetrievalInv, ImportPage \/ AnnRefused \/ Raise PROVE RetrievalInv'
  OBVIOUS
<1>1. CASE ImportPage
  <2>1. /\ UNCHANGED <<profile, long, retrieving, snapshot, candidates, annRows, result>>
        /\ retrieving # "done" /\ db \subseteq db' /\ db' \subseteq Chunks
    BY <1>1, RetrievalAssumption DEF ImportPage, RetrievalInv, RetrievalTypeOK, Returns
  <2>2. RetrievalTypeOK'
    BY <2>1 DEF RetrievalInv, RetrievalTypeOK
  <2>3. ListsSnapshot <=> ListsSnapshot'
    BY <2>1, SameCut DEF ListsSnapshot
  <2> QED BY <2>1, <2>2, <2>3 DEF RetrievalInv, BestOfLibrary
<1>2. CASE AnnRefused \/ Raise
  BY <1>2 DEF AnnRefused, Raise, Returns, RetrievalInv, RetrievalTypeOK, BestOfLibrary
<1> QED BY <1>1, <1>2

(* The ranking. *)
LEMMA ChunksStep == RetrievalInv /\ RankChunks => RetrievalInv'
<1> SUFFICES ASSUME RetrievalInv, RankChunks PROVE RetrievalInv'
  OBVIOUS
<1>1. /\ profile \in [Chunks -> Profiles] /\ snapshot \subseteq Chunks /\ candidates \in Seq(snapshot)
      /\ candidates \in Seq(Chunks)
      /\ Limit \in Nat \ {0} /\ Synthetic \notin Chunks
      /\ ListsSnapshot
  BY RetrievalAssumption DEF RetrievalInv, RetrievalTypeOK, RankChunks
<1>2. /\ UNCHANGED <<db, profile, long, snapshot, candidates, annRows>> /\ retrieving' = "done"
      /\ result' = IF candidates = <<>> THEN <<Synthetic>> ELSE Best(candidates, Limit)
  BY DEF RankChunks, Scored
<1>l. ListsSnapshot'
  BY <1>1, <1>2, SameCut DEF ListsSnapshot
<1>3. CASE candidates = <<>>
  <2>1. result' = <<Synthetic>> /\ Len(result') = 1 /\ Returned' = {Synthetic}
    BY <1>2, <1>3 DEF Returned
  <2>2. RetrievalTypeOK'
    <3>1. result' \in Seq(snapshot' \union {Synthetic})
      <4>1. PICK T : T = snapshot \union {Synthetic}
        OBVIOUS
      <4>2. PICK x \in T : x = Synthetic
        BY <4>1
      <4>3. <<x>> \in Seq(T)
        OBVIOUS
      <4> QED BY <1>2, <2>1, <4>1, <4>2, <4>3, Zenon
    <3> QED BY <1>2, <3>1 DEF RetrievalInv, RetrievalTypeOK, Returns
  <2>3. snapshot = {}
    BY <1>1, <1>3 DEF ListsSnapshot
  <2>4. Cardinality(Returned') = 1
    BY <2>1, FS_Singleton
  <2>5. BestOfLibrary'
    BY <1>1, <1>2, <2>1, <2>3, <2>4 DEF BestOfLibrary
  <2> QED BY <1>l, <1>2, <2>2, <2>5 DEF RetrievalInv
<1>4. CASE candidates # <<>>
  <2> DEFINE n == Len(candidates)
             m == IF n < Limit THEN n ELSE Limit
  <2>1. n \in Nat \ {0} /\ m \in 1..Limit /\ m \in 1..n /\ (m = n \/ (m = Limit /\ m < n))
    BY <1>1, <1>4
  <2>2. PICK At \in [1..n -> 1..n] :
          /\ Best(candidates, Limit) = [k \in 1..m |-> candidates[At[k]]]
          /\ \A k, l \in 1..n : k < l => /\ At[k] # At[l]
                                         /\ Similarity(candidates[At[k]]) >= Similarity(candidates[At[l]])
          /\ \A i \in 1..n : \E k \in 1..n : At[k] = i
    BY <1>1, BestRanks
  <2>3. result' = [k \in 1..m |-> candidates[At[k]]]
    BY <1>2, <1>4, <2>2
  <2>4. \A i \in 1..n : candidates[i] \in snapshot
    BY <1>1
  <2> HIDE DEF n, m
  <2>m. m \in Nat /\ \A k \in 1..m : k \in 1..n
    BY <2>1
  <2>5. \A k \in 1..m : At[k] \in 1..n /\ candidates[At[k]] \in snapshot
    BY <2>m, <2>2, <2>4
  <2>6. result' \in [1..m -> snapshot] /\ \A k \in 1..m : result'[k] = candidates[At[k]]
    BY <2>3, <2>5
  <2>7. Len(result') = m /\ result' \in Seq(snapshot)
    BY <2>m, <2>6
  <2>8. RetrievalTypeOK'
    <3>1. result' \in Seq(snapshot' \union {Synthetic})
      <4>1. PICK T : T = snapshot \union {Synthetic}
        OBVIOUS
      <4>2. result' \in [1..m -> T]
        BY <2>6, <4>1
      <4>3. result' \in Seq(T)
        BY <2>m, <4>2
      <4> QED BY <1>2, <4>1, <4>3
    <3> QED BY <1>2, <3>1 DEF RetrievalInv, RetrievalTypeOK, Returns
  <2>9. BestOfLibrary'
    <3>1. /\ \A i, j \in 1..n : candidates[i] = candidates[j] => i = j
          /\ \A c \in snapshot : CutOff(c) \/ \E i \in 1..n : candidates[i] = c
      BY <1>1 DEF ListsSnapshot, n
    <3>2. Returned' = {result'[k] : k \in 1..m}
      BY <2>7 DEF Returned
    <3>3. Cardinality(Returned') = m
      <4>1. ASSUME NEW k \in 1..m, NEW l \in 1..m, result'[k] = result'[l] PROVE k = l
        <5>1. candidates[At[k]] = candidates[At[l]] /\ At[k] \in 1..n /\ At[l] \in 1..n
          BY <2>5, <2>6, <4>1
        <5>2. At[k] = At[l] /\ k \in 1..n /\ l \in 1..n
          BY <2>m, <3>1, <5>1
        <5> QED BY <2>1, <2>2, <5>2
      <4>2. result' \in [1..m -> Returned'] /\ DOMAIN result' = 1..m
        BY <2>6, <3>2
      <4>3. result' \in Bijection(1..m, Returned')
        BY <3>2, <4>1, <4>2 DEF Bijection, Injection, Surjection, IsInjective
      <4> QED BY <2>m, <4>3, FS_CountingElements DEF ExistsBijection
    <3>4. Synthetic \notin Returned' /\ snapshot # {}
      BY <1>1, <2>1, <2>5, <2>6, <3>2
    <3>5. ASSUME NEW c \in snapshot \ Returned', ~ CutOff(c), NEW d \in Returned'
          PROVE  m = Limit /\ Similarity(d) >= Similarity(c)
      <4>1. PICK i \in 1..n : candidates[i] = c
        BY <3>1, <3>5
      <4>2. PICK k \in 1..n : At[k] = i
        BY <2>2
      <4>3. PICK l \in 1..m : d = result'[l]
        BY <3>2
      <4>4. k \notin 1..m
        BY <2>6, <3>2, <3>5, <4>1, <4>2
      <4>5. l < k /\ l \in 1..n /\ m = Limit
        BY <2>1, <2>m, <4>4
      <4>6. Similarity(candidates[At[l]]) >= Similarity(candidates[At[k]])
        BY <2>2, <4>5
      <4> QED BY <2>6, <4>1, <4>2, <4>3, <4>5, <4>6
    <3>6. \E d : d \in Returned'
      BY <2>1, <3>2
    <3>7. \A c : Similarity(c)' = Similarity(c)
      BY <1>2 DEF Similarity
    <3>8. Len(result') \in 1..Limit
      BY <2>1, <2>7
    <3>9. \A c \in snapshot' \ Returned' :
            \/ CutOff(c)'
            \/ /\ Len(result') = Limit
               /\ \A d \in Returned' : Similarity(d)' >= Similarity(c)'
      BY <1>2, <2>7, <3>5, <3>6, <3>7, SameCut
    <3> QED BY <1>2, <2>7, <3>3, <3>4, <3>8, <3>9 DEF BestOfLibrary
  <2> QED BY <1>l, <1>2, <2>8, <2>9 DEF RetrievalInv
<1> QED BY <1>3, <1>4

LEMMA RetrievalStepInv == RetrievalInv /\ [RetrievalNext]_retrievalVars => RetrievalInv'
<1>1. RetrievalInv /\ UNCHANGED retrievalVars => RetrievalInv'
  <2> SUFFICES ASSUME RetrievalInv, UNCHANGED retrievalVars PROVE RetrievalInv'
    OBVIOUS
  <2>1. UNCHANGED <<db, profile, long, retrieving, snapshot, candidates, annRows, result>>
    BY DEF retrievalVars
  <2>2. RetrievalTypeOK' /\ (ListsSnapshot' <=> ListsSnapshot)
    BY <2>1, SameCut DEF RetrievalInv, RetrievalTypeOK, ListsSnapshot
  <2>3. Returned' = Returned /\ \A c : Similarity(c)' = Similarity(c)
    BY <2>1 DEF Returned, Similarity
  <2>4. BestOfLibrary'
    BY <2>1, <2>3, SameCut DEF RetrievalInv, BestOfLibrary
  <2> QED BY <2>1, <2>2, <2>4 DEF RetrievalInv
<1> QED BY <1>1, TrigramStep, AnnStep, PageStep, ChunksStep DEF RetrievalNext

LEMMA RetrievalInvariant == RetrievalSpec => []RetrievalInv
BY RetrievalStepInv, RetrievalInitInv, PTL DEF RetrievalSpec

(* Whatever the library, the limits and the imports that commit meanwhile: *)
(* the result is the best of what the first SELECT does not cut off, each  *)
(* chunk once, and empty-handed never.                                     *)
THEOREM BestChunksReturned == RetrievalSpec => []BestOfLibrary
<1>1. RetrievalInv => BestOfLibrary
  BY DEF RetrievalInv
<1> QED BY <1>1, RetrievalInvariant, PTL
=============================================================================
