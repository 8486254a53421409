------------------------------ MODULE TTLLock ------------------------------
(***************************************************************************)
(* csrc/storage_manager/ttl_lock.cpp: a counter with a time to live, made  *)
(* of two independent atomics.  One action per atomic access; the clock    *)
(* advances between any two of them.                                       *)
(*                                                                         *)
(* A setting says how the callers share the lock.  serialized = TRUE       *)
(* models the only caller in the repository, L1Manager, which makes every  *)
(* call under its own mutex; FALSE models the free concurrency the header  *)
(* promises to support.                                                    *)
(***************************************************************************)
EXTENDS Integers, FiniteSets

CONSTANTS
    Threads,      \* the callers
    Settings,     \* the ways of sharing the lock that are considered
    TTL,          \* ttl_ms_
    MaxTime,      \* bound on the clock
    MaxHolds      \* bound on the holds a thread keeps at a time

ASSUME TTLLockAssumption ==
    /\ Settings \subseteq
         [ops : SUBSET {"lock", "unlock", "is_locked", "reset"},
          serialized : BOOLEAN,    \* is there a common mutex around each call?
          first_locks : {0, 1}]    \* lock() calls completed before the lock is shared
    /\ IsFiniteSet(Threads)
    /\ TTL \in Nat \ {0} /\ MaxTime \in Nat /\ MaxHolds \in Nat

VARIABLES
    setting,          \* the one in force
    now,              \* steady_clock, in milliseconds
    counter,          \* counter_
    expiration,       \* expiration_ms_
    pc,               \* where each thread is, "idle" outside a call
    current_time,     \* the local variables of the calls
    old_expiration,
    old_counter,
    answer,           \* what is_locked() last returned to each thread
    holds             \* ghost: lock() calls that returned, less unlock() calls

lock_vars == <<setting, now, counter, expiration, pc, current_time, old_expiration,
          old_counter, answer, holds>>

Locals == <<current_time, old_expiration, old_counter>>

Labels == {"idle", "lock_exp", "lock_ctr", "lock_test", "lock_store_ctr",
           "lock_store_exp", "unlock_cas", "unlock_retry", "isl_exp", "isl_ctr",
           "reset_exp"}

LockInit ==
    /\ setting \in Settings
    /\ now = 0
    /\ counter = setting.first_locks
    /\ expiration = IF setting.first_locks = 0 THEN 0 ELSE TTL
    /\ pc = [t \in Threads |-> "idle"]
    /\ current_time = [t \in Threads |-> 0]
    /\ old_expiration = [t \in Threads |-> 0]
    /\ old_counter = [t \in Threads |-> 0]
    /\ answer = [t \in Threads |-> FALSE]
    /\ holds = [t \in Threads |-> 0]

----------------------------------------------------------------------------
\* A thread may enter a method: under the mutex, when nobody else is inside.
MayCall(op, t) ==
    /\ op \in setting.ops
    /\ pc[t] = "idle"
    /\ setting.serialized => \A u \in Threads : pc[u] = "idle"

Goto(t, label) == pc' = [pc EXCEPT ![t] = label]

\* A call that returns drops its local variables.
Return(t) ==
    /\ Goto(t, "idle")
    /\ current_time' = [current_time EXCEPT ![t] = 0]
    /\ old_expiration' = [old_expiration EXCEPT ![t] = 0]
    /\ old_counter' = [old_counter EXCEPT ![t] = 0]

\* lock() reads the clock once, before its loop.
LockReadClock(t) ==
    /\ MayCall("lock", t)
    /\ holds[t] < MaxHolds
    /\ current_time' = [current_time EXCEPT ![t] = now]
    /\ Goto(t, "lock_exp")
    /\ UNCHANGED <<now, counter, expiration, old_expiration, old_counter, answer, holds>>

LockLoadExpiration(t) ==
    /\ pc[t] = "lock_exp"
    /\ old_expiration' = [old_expiration EXCEPT ![t] = expiration]
    /\ Goto(t, "lock_ctr")
    /\ UNCHANGED <<now, counter, expiration, current_time, old_counter, answer, holds>>

LockLoadCounter(t) ==
    /\ pc[t] = "lock_ctr"
    /\ old_counter' = [old_counter EXCEPT ![t] = counter]
    /\ Goto(t, "lock_test")
    /\ UNCHANGED <<now, counter, expiration, current_time, old_expiration, answer, holds>>

\* The expired branch: swing expiration_ms_, or go round the loop again.
LockSwapExpiration(t) ==
    /\ pc[t] = "lock_test"
    /\ current_time[t] >= old_expiration[t]
    /\ IF expiration = old_expiration[t]
         THEN expiration' = current_time[t] + TTL /\ Goto(t, "lock_store_ctr")
         ELSE UNCHANGED expiration /\ Goto(t, "lock_exp")
    /\ UNCHANGED <<now, counter, Locals, answer, holds>>

\* Mutant: the expired branch keeps the stale holds and adds one to them.
LockKeepStaleCounter(t) ==
    /\ pc[t] = "lock_store_ctr"
    /\ counter' = counter + 1
    /\ holds' = [holds EXCEPT ![t] = @ + 1]
    /\ Return(t)
    /\ UNCHANGED <<now, expiration, answer>>

LockStoreCounter(t) ==
    /\ pc[t] = "lock_store_ctr"
    /\ counter' = 1
    /\ holds' = [holds EXCEPT ![t] = @ + 1]
    /\ Return(t)
    /\ UNCHANGED <<now, expiration, answer>>

\* Mutant: the counter is bumped without comparing it with the value loaded.
LockSwapCounterBlindly(t) ==
    /\ pc[t] = "lock_test"
    /\ current_time[t] < old_expiration[t]
    /\ counter' = old_counter[t] + 1
    /\ Goto(t, "lock_store_exp")
    /\ UNCHANGED <<now, expiration, Locals, answer, holds>>

\* The live branch: add one to the counter, or go round the loop again.
LockSwapCounter(t) ==
    /\ pc[t] = "lock_test"
    /\ current_time[t] < old_expiration[t]
    /\ IF counter = old_counter[t]
         THEN counter' = counter + 1 /\ Goto(t, "lock_store_exp")
         ELSE UNCHANGED counter /\ Goto(t, "lock_exp")
    /\ UNCHANGED <<now, expiration, Locals, answer, holds>>

LockStoreExpiration(t) ==
    /\ pc[t] = "lock_store_exp"
    /\ expiration' = current_time[t] + TTL
    /\ holds' = [holds EXCEPT ![t] = @ + 1]
    /\ Return(t)
    /\ UNCHANGED <<now, counter, answer>>

----------------------------------------------------------------------------
\* A thread gives back only what it took.  A counter already at zero (the
\* hold was lost to an expiration) ends the call.
UnlockLoad(t) ==
    /\ \/ MayCall("unlock", t) /\ holds[t] > 0
       \/ pc[t] = "unlock_retry"
    /\ IF counter <= 0
         THEN Return(t) /\ holds' = [holds EXCEPT ![t] = @ - 1]
         ELSE /\ old_counter' = [old_counter EXCEPT ![t] = counter]
              /\ Goto(t, "unlock_cas")
              /\ UNCHANGED <<current_time, old_expiration, holds>>
    /\ UNCHANGED <<now, counter, expiration, answer>>

UnlockSwap(t) ==
    /\ pc[t] = "unlock_cas"
    /\ IF counter = old_counter[t]
         THEN /\ counter' = counter - 1
              /\ holds' = [holds EXCEPT ![t] = @ - 1]
              /\ Return(t)
         ELSE UNCHANGED <<counter, holds, Locals>> /\ Goto(t, "unlock_retry")
    /\ UNCHANGED <<now, expiration, answer>>

----------------------------------------------------------------------------
IsLockedReadClock(t) ==
    /\ MayCall("is_locked", t)
    /\ current_time' = [current_time EXCEPT ![t] = now]
    /\ Goto(t, "isl_exp")
    /\ UNCHANGED <<now, counter, expiration, old_expiration, old_counter, answer, holds>>

IsLockedLoadExpiration(t) ==
    /\ pc[t] = "isl_exp"
    /\ old_expiration' = [old_expiration EXCEPT ![t] = expiration]
    /\ Goto(t, "isl_ctr")
    /\ UNCHANGED <<now, counter, expiration, current_time, old_counter, answer, holds>>

IsLockedLoadCounter(t) ==
    /\ pc[t] = "isl_ctr"
    /\ answer' = [answer EXCEPT ![t] = counter > 0 /\ current_time[t] < old_expiration[t]]
    /\ Return(t)
    /\ UNCHANGED <<now, counter, expiration, holds>>

\* Whoever resets the lock takes every hold away from its owner.
ResetStoreCounter(t) ==
    /\ MayCall("reset", t)
    /\ counter' = 0
    /\ Goto(t, "reset_exp")
    /\ UNCHANGED <<now, expiration, Locals, answer, holds>>

ResetStoreExpiration(t) ==
    /\ pc[t] = "reset_exp"
    /\ expiration' = 0
    /\ Return(t)
    /\ UNCHANGED <<now, counter, answer, holds>>

Tick ==
    /\ now < MaxTime
    /\ now' = now + 1
    /\ UNCHANGED <<counter, expiration, pc, Locals, answer, holds>>

Step(t) ==
    \/ LockReadClock(t) \/ LockLoadExpiration(t) \/ LockLoadCounter(t)
    \/ LockSwapExpiration(t) \/ LockStoreCounter(t)
    \/ LockSwapCounter(t) \/ LockStoreExpiration(t)
    \/ UnlockLoad(t) \/ UnlockSwap(t)
    \/ IsLockedReadClock(t) \/ IsLockedLoadExpiration(t) \/ IsLockedLoadCounter(t)
    \/ ResetStoreCounter(t) \/ ResetStoreExpiration(t)

LockNext == (Tick \/ \E t \in Threads : Step(t)) /\ UNCHANGED setting

LockSpec == LockInit /\ [][LockNext]_lock_vars

----------------------------------------------------------------------------
LockTypeOK ==
    /\ setting \in Settings
    /\ now \in 0..MaxTime
    /\ counter \in Int
    /\ expiration \in 0..(MaxTime + TTL)
    /\ pc \in [Threads -> Labels]
    /\ current_time \in [Threads -> 0..MaxTime]
    /\ old_expiration \in [Threads -> 0..(MaxTime + TTL)]
    /\ old_counter \in [Threads -> Int]
    /\ answer \in [Threads -> BOOLEAN]
    /\ holds \in [Threads -> 0..MaxHolds]

\* The holds of all threads, one pair for each.
Held(h) == {p \in Threads \X (1..MaxHolds) : p[2] <= h[p[1]]}
SumHolds == Cardinality(Held(holds))

\* Whatever the interleaving of the loads and swaps of lock() and unlock(), the
\* counter never goes below zero (ttl_lock.h: "The counter will not go below 0"),
\* and on a lock that is live when it is shared or whose callers share a mutex,
\* while the TTL has not run out and nobody resets, the counter of a quiet lock
\* is exactly the number of lock() calls that have not been given back.
NoHoldLost ==
    /\ counter >= 0
    /\ (\A t \in Threads : pc[t] = "idle") /\ now < TTL /\ "reset" \notin setting.ops
       /\ (setting.serialized \/ setting.first_locks = 1)
        => counter = setting.first_locks + SumHolds

----------------------------------------------------------------------------
(* Refinement.  A lock() takes effect when it reads the clock: from then on *)
(* the outcome of its loop is settled, because its caller holds the mutex.  *)
(* is_locked() answers for that moment too, and reset() acts at its first   *)
(* store.                                                                   *)

Trying == {"lock_exp", "lock_ctr", "lock_test"}

\* The holds at time n, from where the threads are (p), the clock values their
\* calls read (ct), expiration_ms_ (e) and counter_ (c).
InForce(p, ct, n, e, c) ==
    LET Until(h, deadline) == IF n < deadline THEN h ELSE 0
    IN  IF \E t \in Threads : p[t] \in Trying
          THEN LET t == CHOOSE t \in Threads : p[t] \in Trying
               IN  Until(IF ct[t] >= e THEN 1 ELSE c + 1, ct[t] + TTL)
        ELSE IF \E t \in Threads : p[t] = "lock_store_ctr"
          THEN Until(1, ct[CHOOSE t \in Threads : p[t] = "lock_store_ctr"] + TTL)
        ELSE IF \E t \in Threads : p[t] = "lock_store_exp"
          THEN Until(c, ct[CHOOSE t \in Threads : p[t] = "lock_store_exp"] + TTL)
        ELSE Until(c, e)

HoldsInForce == InForce(pc, current_time, now, expiration, counter)

SettledAnswer ==
    [t \in Threads |->
        CASE pc[t] = "isl_exp" -> counter > 0 /\ current_time[t] < expiration
          [] pc[t] = "isl_ctr" -> counter > 0 /\ current_time[t] < old_expiration[t]
          [] OTHER -> answer[t]]

HC == INSTANCE HoldCounter WITH held <- HoldsInForce, answer <- SettledAnswer

\* With its calls serialized, TTLLock behaves as a plain counter of holds that
\* the TTL may drop: the clock, the two separate atomics and the stale count
\* an expired lock keeps are invisible to L1Manager.
ImplementsHoldCounter ==
    /\ HC!HoldInit(setting.first_locks)
    /\ [][setting.serialized => HC!HoldNext]_<<HoldsInForce, SettledAnswer>>
=============================================================================
