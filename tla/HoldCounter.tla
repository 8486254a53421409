---------------------------- MODULE HoldCounter ----------------------------
(***************************************************************************)
(* What a TTLLock promises its callers: a counter of the holds that are    *)
(* still in force.  lock() adds a hold, unlock() gives one back and never  *)
(* goes below zero, is_locked() asks whether any hold is left, and the TTL *)
(* may take every hold away at once (so may reset()).                      *)
(*                                                                         *)
(* Neither the clock nor the stale counter value of an expired lock can be *)
(* observed through this interface; TTLLock.tla shows that the C++ class   *)
(* implements it when its calls are serialized, as L1Manager does.         *)
(***************************************************************************)
EXTENDS Naturals

CONSTANT Threads      \* the callers

VARIABLES
    held,             \* the holds in force
    answer            \* the last is_locked() answer of every caller

Lock == held' = held + 1 /\ UNCHANGED answer

Unlock == held > 0 /\ held' = held - 1 /\ UNCHANGED answer

\* Expiration of the TTL, or reset().
Drop == held' = 0 /\ UNCHANGED answer

IsLocked(t) == answer' = [answer EXCEPT ![t] = held > 0] /\ UNCHANGED held

HoldInit(h) == held = h /\ answer = [t \in Threads |-> FALSE]

HoldNext == Lock \/ Unlock \/ Drop \/ \E t \in Threads : IsLocked(t)
=============================================================================
