--------------------------- MODULE RouteSelection ---------------------------
(***************************************************************************)
(* Which routes a query is sent to: the active ones or the built-in        *)
(* fallback, ranked by intent and cut to one or two (fetch_active_routes,  *)
(* _score_route_intent, _select_routes).  Words are abstracted to how many *)
(* tokens of the query match a route's name and tags, and how many match   *)
(* the keywords of its domain.  Scores are counted in 1/1200, which makes  *)
(* every weight and every ratio with a denominator up to 4 an integer.     *)
(***************************************************************************)
EXTENDS Integers, Sequences, FiniteSets

CONSTANTS
  Names,      \* names of routes
  Bruce,      \* the name that gets a bonus
  MaxRoutes,  \* bound on the routes of a configuration
  Tokens      \* numbers of tokens a query may have

ASSUME SelectionAssumption ==
  /\ Bruce \in Names
  /\ MaxRoutes \in Nat
  /\ Tokens \subseteq Nat

VARIABLES
  tokens,    \* len(query_tokens)
  routes,    \* fetch_active_routes
  ranked,    \* the routes, best first
  selected,
  selecting

selectionVars == <<tokens, routes, ranked, selected, selecting>>

Route == [name : Names, terms : Nat, keywords : Nat]

SelectionTypeOK ==
  /\ tokens \in Tokens
  /\ routes \in Seq(Route)
  /\ ranked \in Seq(Route)
  /\ selected \in Seq(Route)
  /\ Len(selected) <= 2
  /\ selecting \in {"fetch", "rank", "select", "done"}

(* More than four matches count like four. *)
Matches == 0..(IF tokens < 4 THEN tokens ELSE 4)

(* Every configuration of routes with different names, and every number of *)
(* matches the query may have with them.                                   *)
SelectionInit ==
  /\ tokens \in Tokens
  /\ routes \in UNION {[1..n -> [name : Names, terms : Matches, keywords : Matches]] :
                         n \in 0..MaxRoutes}
  /\ \A i, j \in 1..Len(routes) : routes[i].name = routes[j].name => i = j
  /\ ranked = <<>>
  /\ selected = <<>>
  /\ selecting = "fetch"

-----------------------------------------------------------------------------
(* _soft_overlap_ratio in twelfths: at most four matches count. *)
Overlap(matched) ==
  IF tokens = 0 THEN 0
  ELSE LET denom == IF tokens < 4 THEN tokens ELSE 4
           ratio == (12 * matched) \div denom
       IN IF ratio < 12 THEN ratio ELSE 12

(* 0.05 + 0.6 overlap with the terms + 0.15 with the keywords + 0.05. *)
Score(r) ==
  60 + 60 * Overlap(r.terms) + 15 * Overlap(r.keywords) + (IF r.name = Bruce THEN 60 ELSE 0)

(* Without an active configuration there is the local BRUCE route; a       *)
(* single route is taken as it is.                                         *)
Fetch ==
  /\ selecting = "fetch"
  /\ LET found == IF routes = <<>> THEN <<[name |-> Bruce, terms |-> 0, keywords |-> 0]>>
                                   ELSE routes IN
       /\ routes' = found
       /\ IF Len(found) <= 1
            THEN selecting' = "done" /\ selected' = found
            ELSE selecting' = "rank" /\ UNCHANGED selected
  /\ UNCHANGED <<tokens, ranked>>

Before(i, j) ==
  Score(routes[i]) > Score(routes[j]) \/ (Score(routes[i]) = Score(routes[j]) /\ i < j)

(* Faulty variant: ranks in ascending order. *)
RanksAscending ==
  /\ selecting = "rank"
  /\ ranked' = [k \in 1..Len(routes) |->
                  routes[CHOOSE i \in 1..Len(routes) :
                           Cardinality({j \in 1..Len(routes) : Before(i, j)}) = k - 1]]
  /\ selecting' = "select"
  /\ UNCHANGED <<tokens, routes, selected>>

(* sorted(..., reverse=True) is stable. *)
RankRoutes ==
  /\ selecting = "rank"
  /\ ranked' = [k \in 1..Len(routes) |->
                  routes[CHOOSE i \in 1..Len(routes) :
                           Cardinality({j \in 1..Len(routes) : Before(j, i)}) = k - 1]]
  /\ selecting' = "select"
  /\ UNCHANGED <<tokens, routes, selected>>

(* Faulty variant: the second route needs no more than the bonus of BRUCE. *)
KeepsMatchless ==
  /\ Score(ranked[2]) >= 120
  /\ Score(ranked[1]) - Score(ranked[2]) <= 300 \/ tokens >= 6

(* The second route stays if the intent is mixed or close. *)
KeepsSecond ==
  /\ Score(ranked[2]) >= 180
  /\ Score(ranked[1]) - Score(ranked[2]) <= 300 \/ tokens >= 6

Select ==
  /\ selecting = "select"
  /\ selected' = IF KeepsSecond THEN <<ranked[1], ranked[2]>> ELSE <<ranked[1]>>
  /\ selecting' = "done"
  /\ UNCHANGED <<tokens, routes, ranked>>

SelectionNext == Fetch \/ RankRoutes \/ Select

SelectionSpec == SelectionInit /\ [][SelectionNext]_selectionVars

-----------------------------------------------------------------------------
(* The query goes to routes of the configuration, each at most once, and   *)
(* no route that is left out fits better than one that is selected.  A     *)
(* query that matches no route at all goes to BRUCE alone, wherever it     *)
(* stands in the configuration.                                            *)
SelectsTheBest ==
  selecting = "done" =>
    /\ selected # <<>>
    /\ \A k \in 1..Len(selected) : \E i \in 1..Len(routes) : selected[k] = routes[i]
    /\ \A k, l \in 1..Len(selected) : selected[k] = selected[l] => k = l
    /\ \A i \in 1..Len(routes) : \A k \in 1..Len(selected) :
         (\A l \in 1..Len(selected) : selected[l] # routes[i]) =>
           Score(selected[k]) >= Score(routes[i])
    /\ (\A i \in 1..Len(routes) : routes[i].terms = 0 /\ routes[i].keywords = 0)
         /\ (\E i \in 1..Len(routes) : routes[i].name = Bruce)
       => Len(selected) = 1 /\ selected[1].name = Bruce

(* The second service is asked only if the query matches its route, and a  *)
(* route does not stay alone beside one that matches a term and is, but    *)
(* for the bonus of BRUCE, as good; nor beside any that matches a term, if *)
(* the query is long (whatever the distance of the scores is).             *)
SecondRouteFits ==
  selecting = "done" /\ Len(routes) > 1 =>
    /\ Len(selected) = 2 => selected[2].terms + selected[2].keywords > 0
    /\ \A i \in 1..Len(routes) :
         /\ routes[i] # selected[1] /\ routes[i].terms > 0
         /\ \/ tokens >= 6
            \/ /\ routes[i].terms >= selected[1].terms
               /\ routes[i].keywords >= selected[1].keywords
         => Len(selected) = 2
=============================================================================
