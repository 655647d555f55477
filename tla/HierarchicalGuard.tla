------------------------- MODULE HierarchicalGuard -------------------------
(***************************************************************************)
(* The slot counter of HierarchicalGuard (cpp/hierarchical_guard.cpp):     *)
(* reserve_slot and release_slot, called by any number of threads, load    *)
(* the atomic counter and then try compare_exchange_weak until it succeeds *)
(* or the loaded value says there is nothing to do.  A thread releases     *)
(* only a slot it has reserved.  All accesses are to one atomic object, so *)
(* relaxed ordering leaves them in a single order; the loaded value is     *)
(* kept in the model as the stale local it is in the code.                 *)
(***************************************************************************)
EXTENDS Integers, FiniteSets

CONSTANTS
  Callers,  \* the callers
  MaxPending  \* cfg_.max_pending_jobs, a uint16_t

Word == 65536  \* 2^16

ASSUME GuardAssumption ==
  /\ IsFiniteSet(Callers)
  /\ MaxPending \in 0 .. Word - 1

VARIABLES
  pending,  \* pending_jobs_, an atomic uint16_t
  guarding,  \* where a thread is: outside, in a call, or holding a slot
  current   \* its local copy of the counter

guardVars == <<pending, guarding, current>>

GuardTypeOK ==
  /\ pending \in 0 .. Word - 1
  /\ guarding \in [Callers -> {"idle", "reserve", "held", "release"}]
  /\ current \in [Callers -> 0 .. Word - 1]

GuardInit ==
  /\ pending = 0
  /\ guarding = [t \in Callers |-> "idle"]
  /\ current = [t \in Callers |-> 0]

-----------------------------------------------------------------------------
(* pending_jobs_.load, at the head of either function. *)
Load(t) ==
  /\ \/ guarding[t] = "idle" /\ guarding' = [guarding EXCEPT ![t] = "reserve"]
     \/ guarding[t] = "held" /\ guarding' = [guarding EXCEPT ![t] = "release"]
  /\ current' = [current EXCEPT ![t] = pending]
  /\ UNCHANGED pending

(* compare_exchange_weak fails, spuriously or because the counter moved,   *)
(* and reloads it; the loop condition held for the old copy.               *)
Reload(t) ==
  /\ \/ guarding[t] = "reserve" /\ current[t] < MaxPending
     \/ guarding[t] = "release" /\ current[t] > 0
  /\ current' = [current EXCEPT ![t] = pending]
  /\ UNCHANGED <<pending, guarding>>

(* Faulty variant: a plain load, compare and store. *)
StoresBlindly(t) ==
  /\ guarding[t] = "reserve"
  /\ current[t] < MaxPending
  /\ pending' = (current[t] + 1) % Word
  /\ guarding' = [guarding EXCEPT ![t] = "held"]
  /\ UNCHANGED current

(* Faulty variant: the limit itself is still admitted. *)
AdmitsOneMore(t) ==
  /\ guarding[t] = "reserve"
  /\ current[t] <= MaxPending
  /\ pending = current[t]
  /\ pending' = (current[t] + 1) % Word
  /\ guarding' = [guarding EXCEPT ![t] = "held"]
  /\ UNCHANGED current

(* reserve_slot returns true. *)
Reserve(t) ==
  /\ guarding[t] = "reserve"
  /\ current[t] < MaxPending
  /\ pending = current[t]
  /\ pending' = (current[t] + 1) % Word
  /\ guarding' = [guarding EXCEPT ![t] = "held"]
  /\ UNCHANGED current

(* Faulty variant: no check for zero, and the caller releases once more. *)
ReleasesTwice(t) ==
  /\ guarding[t] = "release"
  /\ pending = current[t]
  /\ pending' = current[t] - 1
  /\ guarding' = [guarding EXCEPT ![t] = "held"]
  /\ UNCHANGED current

(* release_slot decrements. *)
Release(t) ==
  /\ guarding[t] = "release"
  /\ current[t] > 0
  /\ pending = current[t]
  /\ pending' = current[t] - 1
  /\ guarding' = [guarding EXCEPT ![t] = "idle"]
  /\ UNCHANGED current

(* The loop ends without an exchange: reserve_slot found no free slot and  *)
(* returns false, release_slot found the counter at zero.                  *)
GiveUp(t) ==
  /\ guarding[t] \in {"reserve", "release"}
  /\ IF guarding[t] = "reserve" THEN current[t] >= MaxPending ELSE current[t] = 0
  /\ guarding' = [guarding EXCEPT ![t] = "idle"]
  /\ UNCHANGED <<pending, current>>

GuardNext ==
  \E t \in Callers :
    Load(t) \/ Reload(t) \/ Reserve(t) \/ Release(t) \/ GiveUp(t)

GuardSpec == GuardInit /\ [][GuardNext]_guardVars

-----------------------------------------------------------------------------
Holders == {t \in Callers : guarding[t] \in {"held", "release"}}

(* The counter is the number of threads that hold a slot, never above the  *)
(* limit, however loads and exchanges interleave: no update is lost and    *)
(* the 16-bit counter does not wrap.                                       *)
CountsHolders == pending = Cardinality(Holders) /\ pending <= MaxPending

(* A release never takes the branch that drops it: even a copy of the      *)
(* counter read long ago is at least the releasing thread's own slot.      *)
ReleaseFindsItsSlot == \A t \in Callers : guarding[t] = "release" => current[t] > 0

(* The guard implements the slots of SlotPool.tla. *)
Slots == INSTANCE SlotPool
  WITH Takers <- Callers, holders <- Holders, free <- MaxPending - pending

ImplementsSlots == Slots!Spec
=============================================================================
