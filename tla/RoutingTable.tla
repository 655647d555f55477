---------------------------- MODULE RoutingTable ----------------------------
(***************************************************************************)
(* Which routes bruce_core dispatches a query to: the zone of its first    *)
(* dimension becomes a library (cpp/bruce_core.cpp), and the routes of the *)
(* active configuration that cover it, or the built-in one, are taken in   *)
(* the order of their priority (cpp/routing_table.cpp).                    *)
(***************************************************************************)
EXTENDS Integers, Sequences, FiniteSets, Loops

CONSTANTS
  RouteRows,  \* what a routes element may be: [id, priority, first, last]
  BuiltIn,    \* Route{}
  MaxTable    \* bound on the routes of a configuration

ASSUME RoutingAssumption ==
  /\ RouteRows \union {BuiltIn} \subseteq [id : Nat, priority : Int, first : Int, last : Int]
  /\ BuiltIn.first = 2000 /\ BuiltIn.last = 2999
  /\ MaxTable  \in Nat

VARIABLES
  zone,      \* state[0]
  active,    \* the rows of the active version, in no order
  loaded,    \* routes_
  resolved,  \* resolve(bibliothek_id)
  resolving

tableVars == <<zone, active, loaded, resolved, resolving>>

TableTypeOK ==
  /\ zone \in 0..26
  /\ active \subseteq RouteRows
  /\ loaded \in Seq(RouteRows)
  /\ resolved \in Seq(RouteRows \union {BuiltIn})
  /\ resolving \in {"reload", "resolve", "done"}

TableInit ==
  /\ zone \in 0..26
  /\ active \in {S \in SUBSET RouteRows : IsFiniteSet(S) /\ Cardinality(S) <= MaxTable}
  /\ loaded = <<>> /\ resolved = <<>>
  /\ resolving = "reload"

-----------------------------------------------------------------------------
(* map_state_to_bibliothek_id *)
BibliothekId == 2000 + (IF zone * 37 < 999 THEN zone * 37 ELSE 999)

(* ORDER BY priority, and std::sort: equal priorities in any order. *)
InPriorityOrder(rows) ==
  {s \in [1..Cardinality(rows) -> rows] :
     \A i, j \in DOMAIN s : i < j => s[i] # s[j] /\ s[i].priority <= s[j].priority}

(* reload_from_database replaces the table if it found any route. *)
ReloadTable ==
  /\ resolving = "reload"
  /\ active # {}
  /\ loaded' \in InPriorityOrder(active)
  /\ resolving' = "resolve"
  /\ UNCHANGED <<zone, active, resolved>>

(* No connection, a failed query, no active version or one without routes: *)
(* the table stays empty.                                                  *)
ReloadFails ==
  /\ resolving = "reload"
  /\ resolving' = "resolve"
  /\ UNCHANGED <<zone, active, loaded, resolved>>

Covers(row) == row.first <= BibliothekId /\ BibliothekId <= row.last

(* Faulty variant: the upper end of a range is left out. *)
BelowLast == Filter(loaded, {row \in RouteRows : Covers(row) /\ BibliothekId # row.last})

(* The loop over routes_. *)
Selected == Filter(loaded, {row \in RouteRows : Covers(row)})

ResolveTable ==
  /\ resolving = "resolve"
  /\ resolved' = IF Selected = <<>> THEN <<BuiltIn>> ELSE Selected
  /\ resolving' = "done"
  /\ UNCHANGED <<zone, active, loaded>>

TableNext == ReloadTable \/ ReloadFails \/ ResolveTable

TableSpec == TableInit /\ [][TableNext]_tableVars

-----------------------------------------------------------------------------
(* docs/ARCHITECTURE.md: resolve returns all routes whose range includes   *)
(* the library.  They come in the order of their priority; the built-in    *)
(* route stands in only for a table without them, and every library of a   *)
(* zone lies in its range, so no query of the core is without a route that *)
(* covers it, whatever the database held or failed to answer.              *)
EveryZoneIsCovered ==
  resolving = "done" =>
    /\ resolved # <<>>
    /\ \A k \in DOMAIN resolved : Covers(resolved[k])
    /\ resolved = <<BuiltIn>> \/ \A k \in DOMAIN resolved : resolved[k] \in active
    /\ \A i, j \in DOMAIN resolved : i < j => resolved[i].priority <= resolved[j].priority
    /\ loaded # <<>> => \A row \in active :
         Covers(row) => \E k \in DOMAIN resolved : resolved[k] = row
=============================================================================
