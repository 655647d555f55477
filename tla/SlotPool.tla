------------------------------ MODULE SlotPool ------------------------------
(***************************************************************************)
(* What the backpressure of the C++ core promises (docs/ARCHITECTURE.md,   *)
(* HierarchicalGuard and IPCClient): at most MaxPending jobs hold a slot,  *)
(* a job takes one slot and gives back the one it took.  How the counter   *)
(* is read and updated is left to HierarchicalGuard.tla and BruceCore.tla, *)
(* which implement this.                                                   *)
(***************************************************************************)
EXTENDS Naturals

CONSTANTS
  Takers,     \* whoever may hold a slot: threads, dispatched requests
  MaxPending  \* max_pending_jobs

VARIABLES
  holders,  \* who holds a slot
  free      \* how many more may

vars == <<holders, free>>

Init ==
  /\ holders = {}
  /\ free = MaxPending

Take(t) ==
  /\ t \notin holders
  /\ free > 0
  /\ holders' = holders \union {t}
  /\ free' = free - 1

GiveBack(t) ==
  /\ t \in holders
  /\ holders' = holders \ {t}
  /\ free' = free + 1

Next == \E t \in Takers : Take(t) \/ GiveBack(t)

Spec == Init /\ [][Next]_vars
=============================================================================
