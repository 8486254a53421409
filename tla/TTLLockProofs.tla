---------------------------- MODULE TTLLockProofs ----------------------------
(***************************************************************************)
(* For any threads, TTL and settings: NoHoldLost, and the refinement of    *)
(* HoldCounter.                                                            *)
(*                                                                         *)
(* Neither is inductive.  CallsConsistent says what a call in progress     *)
(* relies on whoever else is inside; CallAlone what it may rely on when    *)
(* the callers share a mutex: the values it has loaded are still current.  *)
(* LiveCount carries the count through the middle of the calls: a lock()   *)
(* that has bumped the counter has not returned yet, and on a fresh lock   *)
(* the first one still has to store its 1.                                 *)
(***************************************************************************)
EXTENDS TTLLock, FiniteSetTheorems, TLAPS

Locking == {"lock_exp", "lock_ctr", "lock_test", "lock_store_ctr", "lock_store_exp"}

CallsConsistent ==
    \A t \in Threads :
        /\ current_time[t] <= now
        /\ pc[t] \in Locking => holds[t] < MaxHolds
        /\ pc[t] \in {"unlock_cas", "unlock_retry"} => holds[t] > 0
        /\ pc[t] = "unlock_cas" => old_counter[t] > 0
        /\ pc[t] = "reset_exp" => "reset" \in setting.ops

CallAlone ==
    setting.serialized =>
        /\ \A t, u \in Threads : pc[t] # "idle" /\ pc[u] # "idle" => t = u
        /\ \A t \in Threads :
            /\ pc[t] \in {"lock_ctr", "lock_test", "isl_ctr"} => old_expiration[t] = expiration
            /\ pc[t] \in {"lock_test", "unlock_cas"} => old_counter[t] = counter
            /\ pc[t] = "lock_store_ctr" => expiration = current_time[t] + TTL
            /\ pc[t] # "unlock_retry"

\* The count NoHoldLost is about is kept.
Counted ==
    /\ now < TTL /\ "reset" \notin setting.ops
    /\ setting.serialized \/ setting.first_locks = 1

\* An expiration_ms_ that is set is not before TTL; a lock that was live when
\* it was shared has one.
Set(e) == e >= TTL \/ (e = 0 /\ setting.first_locks = 0)

Storing(p) == {t \in Threads : p[t] = "lock_store_exp"}

LiveCount ==
    Counted =>
        /\ Set(expiration)
        /\ \A t \in Threads : pc[t] \in {"lock_ctr", "lock_test"} => Set(old_expiration[t])
        /\ counter = setting.first_locks + SumHolds + Cardinality(Storing(pc))
        /\ expiration = 0 => counter = 0
        /\ \A t \in Threads : pc[t] = "lock_store_ctr" =>
              expiration >= TTL /\ counter = 0 /\ setting.first_locks = 0

LockInv == LockTypeOK /\ counter >= 0 /\ CallsConsistent /\ CallAlone /\ LiveCount

-----------------------------------------------------------------------------
(* Counting                                                                *)

\* The holds of all threads are finitely many, and one holder is enough for
\* the count not to be zero.
LEMMA HeldFinite ==
    ASSUME NEW h \in [Threads -> 0..MaxHolds]
    PROVE  /\ IsFiniteSet(Held(h)) /\ Cardinality(Held(h)) \in Nat
           /\ \A t \in Threads : h[t] > 0 => Cardinality(Held(h)) > 0
<1>1. IsFiniteSet(Threads \X (1..MaxHolds))
  <2>1. IsFiniteSet(1..MaxHolds)
    BY FS_Interval, TTLLockAssumption
  <2> QED BY <2>1, FS_Product, TTLLockAssumption
<1>2. IsFiniteSet(Held(h))
  BY <1>1, FS_Subset DEF Held
<1>3. Cardinality(Held(h)) \in Nat
  BY <1>2, FS_CardinalityType
<1>4. ASSUME NEW t \in Threads, h[t] > 0 PROVE Cardinality(Held(h)) > 0
  <2>1. <<t, 1>> \in Held(h)
    BY <1>4, TTLLockAssumption DEF Held
  <2> QED BY <2>1, <1>2, <1>3, FS_EmptySet
<1> QED BY <1>2, <1>3, <1>4

\* lock() adds one to the count of one thread, unlock() takes one away.
LEMMA HeldGrows ==
    ASSUME NEW h \in [Threads -> 0..MaxHolds], NEW t \in Threads, h[t] < MaxHolds
    PROVE  Cardinality(Held([h EXCEPT ![t] = @ + 1])) = Cardinality(Held(h)) + 1
<1>1. Held([h EXCEPT ![t] = @ + 1]) = Held(h) \cup {<<t, h[t] + 1>>}
  BY TTLLockAssumption DEF Held
<1>2. <<t, h[t] + 1>> \notin Held(h)
  BY DEF Held
<1> QED BY <1>1, <1>2, HeldFinite, FS_AddElement

LEMMA HeldShrinks ==
    ASSUME NEW h \in [Threads -> 0..MaxHolds], NEW t \in Threads, h[t] > 0
    PROVE  Cardinality(Held([h EXCEPT ![t] = @ - 1])) = Cardinality(Held(h)) - 1
<1>1. Held([h EXCEPT ![t] = @ - 1]) = Held(h) \ {<<t, h[t]>>}
  BY TTLLockAssumption DEF Held
<1>2. <<t, h[t]>> \in Held(h)
  BY TTLLockAssumption DEF Held
<1> QED BY <1>1, <1>2, HeldFinite, FS_RemoveElement, ZenonT(60)

\* The threads between the swap of the counter and the return of lock().
LEMMA StoringFinite ==
    ASSUME NEW p \in [Threads -> Labels]
    PROVE  IsFiniteSet(Storing(p)) /\ Cardinality(Storing(p)) \in Nat
BY FS_Subset, FS_CardinalityType, TTLLockAssumption DEF Storing

LEMMA StoringMoves ==
    ASSUME NEW p \in [Threads -> Labels], NEW q \in [Threads -> Labels], NEW t \in Threads,
           \A u \in Threads : u # t => q[u] = p[u]
    PROVE  Cardinality(Storing(q)) =
              Cardinality(Storing(p)) + (IF q[t] = "lock_store_exp" THEN 1 ELSE 0)
                                      - (IF p[t] = "lock_store_exp" THEN 1 ELSE 0)
<1>0. Cardinality(Storing(p)) \in Nat /\ IsFiniteSet(Storing(p))
  BY StoringFinite
<1>1. CASE q[t] = "lock_store_exp" /\ p[t] # "lock_store_exp"
  <2>1. Storing(q) = Storing(p) \cup {t} /\ t \notin Storing(p)
    BY <1>1 DEF Storing
  <2>2. Cardinality(Storing(q)) = Cardinality(Storing(p)) + 1
    BY <1>0, <2>1, FS_AddElement
  <2> QED BY <1>0, <1>1, <2>2
<1>2. CASE q[t] # "lock_store_exp" /\ p[t] = "lock_store_exp"
  <2>1. Storing(q) = Storing(p) \ {t} /\ t \in Storing(p)
    BY <1>2 DEF Storing
  <2>2. Cardinality(Storing(q)) = Cardinality(Storing(p)) - 1
    <3>1. Cardinality(Storing(p) \ {t}) = Cardinality(Storing(p)) - 1
      BY <1>0, <2>1, FS_RemoveElement, Zenon
    <3> QED BY <2>1, <3>1
  <2> QED BY <1>0, <1>2, <2>2
<1>3. CASE (q[t] = "lock_store_exp") <=> (p[t] = "lock_store_exp")
  <2>1. Storing(q) = Storing(p)
    BY <1>3 DEF Storing
  <2> QED BY <1>0, <1>3, <2>1
<1> QED BY <1>1, <1>2, <1>3

-----------------------------------------------------------------------------
(* The invariant                                                           *)

LEMMA LockInvInit == LockInit => LockInv
<1> SUFFICES ASSUME LockInit PROVE LockInv
  OBVIOUS
<1> USE TTLLockAssumption
<1>1. /\ setting.first_locks \in {0, 1} /\ setting.serialized \in BOOLEAN /\ setting \in Settings
  BY DEF LockInit
<1>2. LockTypeOK /\ counter >= 0
  BY <1>1 DEF LockInit, LockTypeOK, Labels
<1>3. CallsConsistent /\ CallAlone
  BY DEF LockInit, CallsConsistent, CallAlone, Locking
<1>4. Held(holds) = {} /\ Storing(pc) = {}
  BY DEF LockInit, Held, Storing
<1>5. SumHolds = 0 /\ Cardinality(Storing(pc)) = 0
  BY <1>4, FS_EmptySet DEF SumHolds
<1>6. LiveCount
  BY <1>1, <1>5 DEF LockInit, LiveCount, Set
<1> QED BY <1>2, <1>3, <1>6 DEF LockInv

\* Every atomic step of a call, and the clock, keep the invariant.
LEMMA LockInvStep == LockInv /\ [LockNext]_lock_vars => LockInv'
<1> SUFFICES ASSUME LockInv, [LockNext]_lock_vars PROVE LockInv'
  OBVIOUS
<1> USE TTLLockAssumption DEF LockInv
<1> DEFINE f == setting.first_locks
<1>1. f \in {0, 1} /\ setting.serialized \in BOOLEAN
  BY DEF LockTypeOK
<1>2. /\ SumHolds \in Nat /\ Cardinality(Storing(pc)) \in Nat
      /\ \A t \in Threads : holds[t] > 0 => SumHolds > 0
  BY HeldFinite, StoringFinite DEF LockTypeOK, SumHolds
<1>3. CASE UNCHANGED lock_vars
  <2>1. SumHolds' = SumHolds
    BY <1>3 DEF lock_vars, SumHolds, Held
  <2> QED BY <1>3, <2>1 DEF lock_vars, LockTypeOK, CallsConsistent, CallAlone, LiveCount, Counted, Set, Storing
<1>4. CASE Tick /\ UNCHANGED setting
  <2>1. SumHolds' = SumHolds
    BY <1>4 DEF Tick, SumHolds, Held
  <2>2. LockTypeOK' /\ (counter >= 0)' /\ CallsConsistent' /\ CallAlone'
    BY <1>4 DEF Tick, Locals, LockTypeOK, CallsConsistent, CallAlone
  <2>3. LiveCount'
    BY <1>4, <2>1 DEF Tick, Locals, LockTypeOK, LiveCount, Counted, Set, Storing
  <2> QED BY <2>2, <2>3
<1>5. ASSUME NEW t \in Threads, LockReadClock(t), UNCHANGED setting PROVE LockInv'
  <2> USE <1>5 DEF LockReadClock, MayCall, Goto, Return, Locals
  <2>1. LockTypeOK' /\ (counter >= 0)'
    BY DEF LockTypeOK, Labels, CallsConsistent, Locking
  <2>2. CallsConsistent'
    BY DEF LockTypeOK, CallsConsistent, Locking
  <2>3. CallAlone'
    BY DEF LockTypeOK, CallAlone
  <2>4. LiveCount'
    <3>1. SumHolds' = SumHolds
      BY DEF SumHolds
    <3>2. Storing(pc') = Storing(pc)
      BY DEF LockTypeOK, Storing
    <3> QED BY <1>1, <1>2, <3>1, <3>2 DEF LockTypeOK, LiveCount, Counted, Set, CallsConsistent, CallAlone
  <2> QED BY <2>1, <2>2, <2>3, <2>4
<1>6. ASSUME NEW t \in Threads, LockLoadExpiration(t), UNCHANGED setting PROVE LockInv'
  <2> USE <1>6 DEF LockLoadExpiration, MayCall, Goto, Return, Locals
  <2>1. LockTypeOK' /\ (counter >= 0)'
    BY DEF LockTypeOK, Labels, CallsConsistent, Locking
  <2>2. CallsConsistent'
    BY DEF LockTypeOK, CallsConsistent, Locking
  <2>3. CallAlone'
    BY DEF LockTypeOK, CallAlone
  <2>4. LiveCount'
    <3>1. SumHolds' = SumHolds
      BY DEF SumHolds
    <3>2. Storing(pc') = Storing(pc)
      BY DEF LockTypeOK, Storing
    <3> QED BY <1>1, <1>2, <3>1, <3>2 DEF LockTypeOK, LiveCount, Counted, Set, CallsConsistent, CallAlone
  <2> QED BY <2>1, <2>2, <2>3, <2>4
<1>7. ASSUME NEW t \in Threads, LockLoadCounter(t), UNCHANGED setting PROVE LockInv'
  <2> USE <1>7 DEF LockLoadCounter, MayCall, Goto, Return, Locals
  <2>1. LockTypeOK' /\ (counter >= 0)'
    BY DEF LockTypeOK, Labels, CallsConsistent, Locking
  <2>2. CallsConsistent'
    BY DEF LockTypeOK, CallsConsistent, Locking
  <2>3. CallAlone'
    BY DEF LockTypeOK, CallAlone
  <2>4. LiveCount'
    <3>1. SumHolds' = SumHolds
      BY DEF SumHolds
    <3>2. Storing(pc') = Storing(pc)
      BY DEF LockTypeOK, Storing
    <3> QED BY <1>1, <1>2, <3>1, <3>2 DEF LockTypeOK, LiveCount, Counted, Set, CallsConsistent, CallAlone
  <2> QED BY <2>1, <2>2, <2>3, <2>4
<1>8. ASSUME NEW t \in Threads, LockSwapExpiration(t), UNCHANGED setting PROVE LockInv'
  <2> USE <1>8 DEF LockSwapExpiration, MayCall, Goto, Return, Locals
  <2>1. LockTypeOK' /\ (counter >= 0)'
    BY DEF LockTypeOK, Labels, CallsConsistent, Locking
  <2>2. CallsConsistent'
    BY DEF LockTypeOK, CallsConsistent, Locking
  <2>3. CallAlone'
    BY DEF LockTypeOK, CallAlone
  <2>4. LiveCount'
    <3>1. SumHolds' = SumHolds
      BY DEF SumHolds
    <3>2. Storing(pc') = Storing(pc)
      BY DEF LockTypeOK, Storing
    <3> SUFFICES ASSUME Counted' PROVE LiveCount'
      BY DEF LiveCount
    <3>3. Counted /\ LiveCount!2
      BY DEF Counted, LiveCount
    <3>4. Set(expiration)' /\ \A u \in Threads : pc'[u] \in {"lock_ctr", "lock_test"} => Set(old_expiration[u])'
      BY <1>1, <3>3 DEF LockTypeOK, Counted, Set, CallsConsistent, CallAlone
    <3>5. counter' = setting'.first_locks + SumHolds' + Cardinality(Storing(pc'))
      BY <1>1, <1>2, <3>1, <3>2, <3>3 DEF LockTypeOK, Counted, Set, CallsConsistent, CallAlone
    <3>6. expiration' = 0 => counter' = 0
      BY <1>1, <1>2, <3>3 DEF LockTypeOK, Counted, Set, CallsConsistent, CallAlone
    <3>7. \A u \in Threads : pc'[u] = "lock_store_ctr" =>
              expiration' >= TTL /\ counter' = 0 /\ setting'.first_locks = 0
      BY <1>1, <1>2, <3>3 DEF LockTypeOK, Counted, Set, CallsConsistent, CallAlone
    <3> QED BY <3>4, <3>5, <3>6, <3>7 DEF LiveCount
  <2> QED BY <2>1, <2>2, <2>3, <2>4
<1>9. ASSUME NEW t \in Threads, LockStoreCounter(t), UNCHANGED setting PROVE LockInv'
  <2> USE <1>9 DEF LockStoreCounter, MayCall, Goto, Return, Locals
  <2>1. LockTypeOK' /\ (counter >= 0)'
    BY DEF LockTypeOK, Labels, CallsConsistent, Locking
  <2>2. CallsConsistent'
    BY DEF LockTypeOK, CallsConsistent, Locking
  <2>3. CallAlone'
    BY DEF LockTypeOK, CallAlone
  <2>4. LiveCount'
    <3>1. SumHolds' = SumHolds + 1
      BY HeldGrows DEF LockTypeOK, SumHolds, CallsConsistent, Locking
    <3>2. Storing(pc') = Storing(pc)
      BY DEF LockTypeOK, Storing
    <3> SUFFICES ASSUME Counted' PROVE LiveCount'
      BY DEF LiveCount
    <3>3. Counted /\ LiveCount!2
      BY DEF Counted, LiveCount
    <3>4. Set(expiration)' /\ \A u \in Threads : pc'[u] \in {"lock_ctr", "lock_test"} => Set(old_expiration[u])'
      BY <1>1, <3>3 DEF LockTypeOK, Counted, Set, CallsConsistent, CallAlone
    <3>5. counter' = setting'.first_locks + SumHolds' + Cardinality(Storing(pc'))
      BY <1>1, <1>2, <3>1, <3>2, <3>3 DEF LockTypeOK, Counted, Set, CallsConsistent, CallAlone
    <3>6. expiration' = 0 => counter' = 0
      BY <1>1, <1>2, <3>3 DEF LockTypeOK, Counted, Set, CallsConsistent, CallAlone
    <3>7. \A u \in Threads : pc'[u] = "lock_store_ctr" =>
              expiration' >= TTL /\ counter' = 0 /\ setting'.first_locks = 0
      BY <1>1, <1>2, <3>3 DEF LockTypeOK, Counted, Set, CallsConsistent, CallAlone
    <3> QED BY <3>4, <3>5, <3>6, <3>7 DEF LiveCount
  <2> QED BY <2>1, <2>2, <2>3, <2>4
<1>10. ASSUME NEW t \in Threads, LockSwapCounter(t), UNCHANGED setting PROVE LockInv'
  <2> USE <1>10 DEF LockSwapCounter, MayCall, Goto, Return, Locals
  <2>1. LockTypeOK' /\ (counter >= 0)'
    BY DEF LockTypeOK, Labels, CallsConsistent, Locking
  <2>2. CallsConsistent'
    BY DEF LockTypeOK, CallsConsistent, Locking
  <2>3. CallAlone'
    BY DEF LockTypeOK, CallAlone
  <2>4. LiveCount'
    <3>1. SumHolds' = SumHolds
      BY DEF SumHolds
    <3>2. Cardinality(Storing(pc')) = Cardinality(Storing(pc)) + (IF counter = old_counter[t] THEN 1 ELSE 0)
      BY StoringMoves, <1>2, <2>1 DEF LockTypeOK
    <3> SUFFICES ASSUME Counted' PROVE LiveCount'
      BY DEF LiveCount
    <3>3. Counted /\ LiveCount!2
      BY DEF Counted, LiveCount
    <3>4. Set(expiration)' /\ \A u \in Threads : pc'[u] \in {"lock_ctr", "lock_test"} => Set(old_expiration[u])'
      BY <1>1, <3>3 DEF LockTypeOK, Counted, Set, CallsConsistent, CallAlone
    <3>5. counter' = setting'.first_locks + SumHolds' + Cardinality(Storing(pc'))
      BY <1>1, <1>2, <3>1, <3>2, <3>3 DEF LockTypeOK, Counted, Set, CallsConsistent, CallAlone
    <3>6. expiration' = 0 => counter' = 0
      BY <1>1, <1>2, <3>3 DEF LockTypeOK, Counted, Set, CallsConsistent, CallAlone
    <3>7. \A u \in Threads : pc'[u] = "lock_store_ctr" =>
              expiration' >= TTL /\ counter' = 0 /\ setting'.first_locks = 0
      <4>1. \A u \in Threads : pc[u] # "lock_store_ctr"
        BY <1>1, <3>3 DEF Counted, CallAlone
      <4> QED BY <4>1 DEF LockTypeOK
    <3> QED BY <3>4, <3>5, <3>6, <3>7 DEF LiveCount
  <2> QED BY <2>1, <2>2, <2>3, <2>4
<1>11. ASSUME NEW t \in Threads, LockStoreExpiration(t), UNCHANGED setting PROVE LockInv'
  <2> USE <1>11 DEF LockStoreExpiration, MayCall, Goto, Return, Locals
  <2>1. LockTypeOK' /\ (counter >= 0)'
    BY DEF LockTypeOK, Labels, CallsConsistent, Locking
  <2>2. CallsConsistent'
    BY DEF LockTypeOK, CallsConsistent, Locking
  <2>3. CallAlone'
    BY DEF LockTypeOK, CallAlone
  <2>4. LiveCount'
    <3>1. SumHolds' = SumHolds + 1
      BY HeldGrows DEF LockTypeOK, SumHolds, CallsConsistent, Locking
    <3>2. Cardinality(Storing(pc')) = Cardinality(Storing(pc)) - 1
      <4>1. pc \in [Threads -> Labels] /\ pc' \in [Threads -> Labels]
        BY <2>1 DEF LockTypeOK
      <4>2. /\ \A u \in Threads : u # t => pc'[u] = pc[u]
            /\ pc[t] = "lock_store_exp" /\ pc'[t] = "idle"
        BY DEF LockTypeOK
      <4> HIDE <1>11 DEF LockStoreExpiration, LockInv
      <4> QED BY <4>1, <4>2, StoringMoves, StoringFinite
    <3> QED BY <1>1, <1>2, <3>1, <3>2 DEF LockTypeOK, LiveCount, Counted, Set, CallsConsistent, CallAlone
  <2> QED BY <2>1, <2>2, <2>3, <2>4
<1>12. ASSUME NEW t \in Threads, UnlockLoad(t), UNCHANGED setting PROVE LockInv'
  <2> USE <1>12 DEF UnlockLoad, MayCall, Goto, Return, Locals
  <2>1. LockTypeOK' /\ (counter >= 0)'
    BY DEF LockTypeOK, Labels, CallsConsistent, Locking
  <2>2. CallsConsistent'
    BY DEF LockTypeOK, CallsConsistent, Locking
  <2>3. CallAlone'
    BY DEF LockTypeOK, CallAlone
  <2>4. LiveCount'
    <3>1. counter > 0 => SumHolds' = SumHolds
      BY DEF SumHolds, LockTypeOK
    <3>2. Storing(pc') = Storing(pc)
      BY DEF LockTypeOK, Storing
    <3> QED BY <1>1, <1>2, <3>1, <3>2 DEF LockTypeOK, LiveCount, Counted, Set, CallsConsistent, CallAlone
  <2> QED BY <2>1, <2>2, <2>3, <2>4
<1>13. ASSUME NEW t \in Threads, UnlockSwap(t), UNCHANGED setting PROVE LockInv'
  <2> USE <1>13 DEF UnlockSwap, MayCall, Goto, Return, Locals
  <2>1. LockTypeOK' /\ (counter >= 0)'
    BY DEF LockTypeOK, Labels, CallsConsistent, Locking
  <2>2. CallsConsistent'
    BY DEF LockTypeOK, CallsConsistent, Locking
  <2>3. CallAlone'
    BY DEF LockTypeOK, CallAlone
  <2>4. LiveCount'
    <3>1. SumHolds' = IF counter = old_counter[t] THEN SumHolds - 1 ELSE SumHolds
      BY HeldShrinks DEF LockTypeOK, SumHolds, CallsConsistent
    <3>2. Storing(pc') = Storing(pc)
      BY DEF LockTypeOK, Storing
    <3> SUFFICES ASSUME Counted' PROVE LiveCount'
      BY DEF LiveCount
    <3>3. Counted /\ LiveCount!2
      BY DEF Counted, LiveCount
    <3>4. Set(expiration)' /\ \A u \in Threads : pc'[u] \in {"lock_ctr", "lock_test"} => Set(old_expiration[u])'
      BY <1>1, <3>3 DEF LockTypeOK, Counted, Set, CallsConsistent, CallAlone
    <3>5. counter' = setting'.first_locks + SumHolds' + Cardinality(Storing(pc'))
      BY <1>1, <1>2, <3>1, <3>2, <3>3 DEF LockTypeOK, Counted, Set, CallsConsistent, CallAlone
    <3>6. expiration' = 0 => counter' = 0
      BY <1>1, <1>2, <3>3 DEF LockTypeOK, Counted, Set, CallsConsistent, CallAlone
    <3>7. \A u \in Threads : pc'[u] = "lock_store_ctr" =>
              expiration' >= TTL /\ counter' = 0 /\ setting'.first_locks = 0
      BY <1>1, <1>2, <3>3 DEF LockTypeOK, Counted, Set, CallsConsistent, CallAlone
    <3> QED BY <3>4, <3>5, <3>6, <3>7 DEF LiveCount
  <2> QED BY <2>1, <2>2, <2>3, <2>4
<1>14. ASSUME NEW t \in Threads, IsLockedReadClock(t), UNCHANGED setting PROVE LockInv'
  <2> USE <1>14 DEF IsLockedReadClock, MayCall, Goto, Return, Locals
  <2>1. LockTypeOK' /\ (counter >= 0)'
    BY DEF LockTypeOK, Labels, CallsConsistent, Locking
  <2>2. CallsConsistent'
    BY DEF LockTypeOK, CallsConsistent, Locking
  <2>3. CallAlone'
    BY DEF LockTypeOK, CallAlone
  <2>4. LiveCount'
    <3>1. SumHolds' = SumHolds
      BY DEF SumHolds
    <3>2. Storing(pc') = Storing(pc)
      BY DEF LockTypeOK, Storing
    <3> QED BY <1>1, <1>2, <3>1, <3>2 DEF LockTypeOK, LiveCount, Counted, Set, CallsConsistent, CallAlone
  <2> QED BY <2>1, <2>2, <2>3, <2>4
<1>15. ASSUME NEW t \in Threads, IsLockedLoadExpiration(t), UNCHANGED setting PROVE LockInv'
  <2> USE <1>15 DEF IsLockedLoadExpiration, MayCall, Goto, Return, Locals
  <2>1. LockTypeOK' /\ (counter >= 0)'
    BY DEF LockTypeOK, Labels, CallsConsistent, Locking
  <2>2. CallsConsistent'
    BY DEF LockTypeOK, CallsConsistent, Locking
  <2>3. CallAlone'
    BY DEF LockTypeOK, CallAlone
  <2>4. LiveCount'
    <3>1. SumHolds' = SumHolds
      BY DEF SumHolds
    <3>2. Storing(pc') = Storing(pc)
      BY DEF LockTypeOK, Storing
    <3> QED BY <1>1, <1>2, <3>1, <3>2 DEF LockTypeOK, LiveCount, Counted, Set, CallsConsistent, CallAlone
  <2> QED BY <2>1, <2>2, <2>3, <2>4
<1>16. ASSUME NEW t \in Threads, IsLockedLoadCounter(t), UNCHANGED setting PROVE LockInv'
  <2> USE <1>16 DEF IsLockedLoadCounter, MayCall, Goto, Return, Locals
  <2>1. LockTypeOK' /\ (counter >= 0)'
    BY DEF LockTypeOK, Labels, CallsConsistent, Locking
  <2>2. CallsConsistent'
    BY DEF LockTypeOK, CallsConsistent, Locking
  <2>3. CallAlone'
    BY DEF LockTypeOK, CallAlone
  <2>4. LiveCount'
    <3>1. SumHolds' = SumHolds
      BY DEF SumHolds
    <3>2. Storing(pc') = Storing(pc)
      BY DEF LockTypeOK, Storing
    <3> QED BY <1>1, <1>2, <3>1, <3>2 DEF LockTypeOK, LiveCount, Counted, Set, CallsConsistent, CallAlone
  <2> QED BY <2>1, <2>2, <2>3, <2>4
<1>17. ASSUME NEW t \in Threads, ResetStoreCounter(t), UNCHANGED setting PROVE LockInv'
  <2> USE <1>17 DEF ResetStoreCounter, MayCall, Goto, Return, Locals
  <2>1. LockTypeOK' /\ (counter >= 0)'
    BY DEF LockTypeOK, Labels, CallsConsistent, Locking
  <2>2. CallsConsistent'
    BY DEF LockTypeOK, CallsConsistent, Locking
  <2>3. CallAlone'
    BY DEF LockTypeOK, CallAlone
  <2>4. LiveCount'
    <3>1. SumHolds' = SumHolds
      BY DEF SumHolds
    <3>2. Storing(pc') = Storing(pc)
      BY DEF LockTypeOK, Storing
    <3> QED BY <1>1, <1>2, <3>1, <3>2 DEF LockTypeOK, LiveCount, Counted, Set, CallsConsistent, CallAlone
  <2> QED BY <2>1, <2>2, <2>3, <2>4
<1>18. ASSUME NEW t \in Threads, ResetStoreExpiration(t), UNCHANGED setting PROVE LockInv'
  <2> USE <1>18 DEF ResetStoreExpiration, MayCall, Goto, Return, Locals
  <2>1. LockTypeOK' /\ (counter >= 0)'
    BY DEF LockTypeOK, Labels, CallsConsistent, Locking
  <2>2. CallsConsistent'
    BY DEF LockTypeOK, CallsConsistent, Locking
  <2>3. CallAlone'
    BY DEF LockTypeOK, CallAlone
  <2>4. LiveCount'
    <3>1. SumHolds' = SumHolds
      BY DEF SumHolds
    <3>2. Storing(pc') = Storing(pc)
      BY DEF LockTypeOK, Storing
    <3> QED BY <1>1, <1>2, <3>1, <3>2 DEF LockTypeOK, LiveCount, Counted, Set, CallsConsistent, CallAlone
  <2> QED BY <2>1, <2>2, <2>3, <2>4
<1> QED BY <1>3, <1>4, <1>5, <1>6, <1>7, <1>8, <1>9, <1>10, <1>11, <1>12, <1>13, <1>14, <1>15, <1>16, <1>17, <1>18 DEF LockNext, Step

\* For any number of threads and any TTL: lock() and unlock() lose no hold and
\* count none twice, under a mutex or on a lock that is live when it is shared
\* (ttl_lock.cpp, the retry loops of lock and unlock).
THEOREM HoldsAreKept == LockSpec => []NoHoldLost
<1>1. LockInv => NoHoldLost
  <2> SUFFICES ASSUME LockInv, \A t \in Threads : pc[t] = "idle", Counted
               PROVE  counter = setting.first_locks + SumHolds
    BY DEF NoHoldLost, Counted, LockInv
  <2>1. Storing(pc) = {}
    BY DEF Storing
  <2>2. Cardinality(Storing(pc)) = 0
    BY <2>1, FS_EmptySet
  <2>3. setting.first_locks \in Nat /\ SumHolds \in Nat
    BY HeldFinite, TTLLockAssumption DEF LockInv, LockTypeOK, SumHolds
  <2> QED BY <2>2, <2>3 DEF LockInv, LiveCount
<1> QED BY <1>1, LockInvInit, LockInvStep, PTL DEF LockSpec

-----------------------------------------------------------------------------
(* The refinement                                                          *)

\* The holds in force when nobody is inside lock().
LEMMA NobodyLocks ==
    ASSUME NEW p, NEW ct, NEW n, NEW e, NEW c, \A u \in Threads : p[u] \notin Locking
    PROVE  InForce(p, ct, n, e, c) = IF n < e THEN c ELSE 0
<1>1. \A u \in Threads : p[u] \notin Trying /\ p[u] # "lock_store_ctr" /\ p[u] # "lock_store_exp"
  BY DEF Locking, Trying
<1> QED BY <1>1 DEF InForce

\* The holds in force when thread t is inside lock(), alone.
LEMMA OneLocks ==
    ASSUME NEW p, NEW ct, NEW n, NEW e, NEW c,
           NEW t \in Threads, \A u \in Threads : u # t => p[u] = "idle"
    PROVE  /\ p[t] \in Trying =>
                InForce(p, ct, n, e, c) =
                    IF n < ct[t] + TTL THEN IF ct[t] >= e THEN 1 ELSE c + 1 ELSE 0
           /\ p[t] = "lock_store_ctr" => InForce(p, ct, n, e, c) = IF n < ct[t] + TTL THEN 1 ELSE 0
           /\ p[t] = "lock_store_exp" => InForce(p, ct, n, e, c) = IF n < ct[t] + TTL THEN c ELSE 0
<1>1. ASSUME p[t] \in Trying
      PROVE  InForce(p, ct, n, e, c) = IF n < ct[t] + TTL THEN IF ct[t] >= e THEN 1 ELSE c + 1 ELSE 0
  <2>1. (CHOOSE u \in Threads : p[u] \in Trying) = t
    BY <1>1 DEF Trying
  <2> QED BY <1>1, <2>1 DEF InForce
<1>2. ASSUME p[t] = "lock_store_ctr"
      PROVE  InForce(p, ct, n, e, c) = IF n < ct[t] + TTL THEN 1 ELSE 0
  <2>1. ~\E u \in Threads : p[u] \in Trying
    BY <1>2 DEF Trying
  <2>2. (CHOOSE u \in Threads : p[u] = "lock_store_ctr") = t
    BY <1>2
  <2> QED BY <1>2, <2>1, <2>2 DEF InForce
<1>3. ASSUME p[t] = "lock_store_exp"
      PROVE  InForce(p, ct, n, e, c) = IF n < ct[t] + TTL THEN c ELSE 0
  <2>1. /\ ~\E u \in Threads : p[u] \in Trying
        /\ ~\E u \in Threads : p[u] = "lock_store_ctr"
    BY <1>3 DEF Trying
  <2>2. (CHOOSE u \in Threads : p[u] = "lock_store_exp") = t
    BY <1>3
  <2> QED BY <1>3, <2>1, <2>2 DEF InForce
<1> QED BY <1>1, <1>2, <1>3

\* Outside is_locked() the settled answers are the ones given.
Asking == {"isl_exp", "isl_ctr"}

\* Under the mutex every step of a call adds a hold, gives one back, drops them
\* all, answers for the holds in force, or shows nothing.
LEMMA HoldCounterStep ==
    LockInv /\ LockInv' /\ [LockNext]_lock_vars /\ setting.serialized
        => [HC!HoldNext]_<<HoldsInForce, SettledAnswer>>
<1> SUFFICES ASSUME LockInv, LockInv', [LockNext]_lock_vars, setting.serialized
             PROVE  HC!HoldNext \/ UNCHANGED <<HoldsInForce, SettledAnswer>>
  OBVIOUS
<1>a. HC!HoldNext <=> \/ HoldsInForce' = HoldsInForce + 1 /\ UNCHANGED SettledAnswer
                      \/ HoldsInForce > 0 /\ HoldsInForce' = HoldsInForce - 1 /\ UNCHANGED SettledAnswer
                      \/ HoldsInForce' = 0 /\ UNCHANGED SettledAnswer
                      \/ \E t \in Threads : /\ SettledAnswer' = [SettledAnswer EXCEPT ![t] = HoldsInForce > 0]
                                            /\ UNCHANGED HoldsInForce
  BY DEF HC!HoldNext, HC!Lock, HC!Unlock, HC!Drop, HC!IsLocked
<1>b. /\ TTL \in Nat /\ TTL > 0 /\ now \in Nat /\ counter \in Int /\ expiration \in Nat /\ counter >= 0
      /\ pc \in [Threads -> Labels] /\ current_time \in [Threads -> Nat]
      /\ old_expiration \in [Threads -> Nat] /\ answer \in [Threads -> BOOLEAN]
  BY TTLLockAssumption DEF LockInv, LockTypeOK
<1>c. \A t, u \in Threads : pc[t] # "idle" /\ pc[u] # "idle" => t = u
  BY DEF LockInv, CallAlone
<1>d. ASSUME \A u \in Threads : pc[u] \notin Asking
      PROVE  SettledAnswer = [u \in Threads |-> answer[u]]
  BY <1>d DEF SettledAnswer, Asking
<1>e. ASSUME \A u \in Threads : pc'[u] \notin Asking
      PROVE  SettledAnswer' = [u \in Threads |-> answer'[u]]
  BY <1>e DEF SettledAnswer, Asking
<1>1. CASE UNCHANGED lock_vars
  BY <1>1 DEF lock_vars, HoldsInForce, SettledAnswer
<1>2. CASE Tick /\ UNCHANGED setting
  <2>1. SettledAnswer' = SettledAnswer
    BY <1>2 DEF Tick, Locals, SettledAnswer
  <2>2. HoldsInForce' = HoldsInForce \/ HoldsInForce' = 0
    <3>1. CASE \A u \in Threads : pc[u] \notin Locking
      <4>1. /\ HoldsInForce = IF now < expiration THEN counter ELSE 0
            /\ HoldsInForce' = IF now' < expiration' THEN counter' ELSE 0
        BY <1>2, <3>1, NobodyLocks DEF HoldsInForce, Tick
      <4> QED BY <1>2, <1>b, <4>1 DEF Tick
    <3>2. ASSUME NEW t \in Threads, pc[t] \in Locking
          PROVE  HoldsInForce' = HoldsInForce \/ HoldsInForce' = 0
      <4>1. \A u \in Threads : u # t => pc[u] = "idle"
        BY <3>2, <1>c DEF Locking
      <4>2. pc' = pc /\ current_time' = current_time /\ expiration' = expiration /\ counter' = counter
        BY <1>2 DEF Tick, Locals
      <4>3. pc[t] \in Trying \/ pc[t] = "lock_store_ctr" \/ pc[t] = "lock_store_exp"
        BY <3>2 DEF Locking, Trying
      <4>4. now' = now + 1
        BY <1>2 DEF Tick
      <4>5. CASE pc[t] \in Trying
        <5>1. /\ HoldsInForce = IF now < current_time[t] + TTL
                                THEN IF current_time[t] >= expiration THEN 1 ELSE counter + 1 ELSE 0
              /\ HoldsInForce' = IF now' < current_time[t] + TTL
                                 THEN IF current_time[t] >= expiration THEN 1 ELSE counter + 1 ELSE 0
          BY <4>1, <4>2, <4>5, OneLocks DEF HoldsInForce
        <5> QED BY <1>b, <4>4, <5>1
      <4>6. CASE pc[t] = "lock_store_ctr"
        <5>1. /\ HoldsInForce = IF now < current_time[t] + TTL THEN 1 ELSE 0
              /\ HoldsInForce' = IF now' < current_time[t] + TTL THEN 1 ELSE 0
          BY <4>1, <4>2, <4>6, OneLocks DEF HoldsInForce
        <5> QED BY <1>b, <4>4, <5>1
      <4>7. CASE pc[t] = "lock_store_exp"
        <5>1. /\ HoldsInForce = IF now < current_time[t] + TTL THEN counter ELSE 0
              /\ HoldsInForce' = IF now' < current_time[t] + TTL THEN counter ELSE 0
          BY <4>1, <4>2, <4>7, OneLocks DEF HoldsInForce
        <5> QED BY <1>b, <4>4, <5>1
      <4> QED BY <4>3, <4>5, <4>6, <4>7
    <3> QED BY <3>1, <3>2
  <2> QED BY <1>a, <2>1, <2>2
<1>3. ASSUME NEW t \in Threads, LockReadClock(t), UNCHANGED setting
      PROVE  HC!HoldNext \/ UNCHANGED <<HoldsInForce, SettledAnswer>>
  <2>1. /\ \A u \in Threads : u # t => pc[u] = "idle" /\ pc'[u] = "idle"
        /\ pc[t] \notin Locking /\ pc'[t] \in Trying /\ pc[t] \notin Asking /\ pc'[t] \notin Asking
    BY <1>3, <1>b, <1>c DEF LockReadClock, MayCall, Goto, Return, Locals, Locking, Trying, Asking, LockInv, CallAlone
  <2>2. now' = now /\ answer' = answer
    BY <1>3 DEF LockReadClock, MayCall, Goto, Return, Locals
  <2>3. UNCHANGED SettledAnswer
    BY <1>d, <1>e, <2>1, <2>2 DEF Asking
  <2>4. HoldsInForce =
            IF now < expiration THEN counter ELSE 0
    BY <2>1, NobodyLocks DEF HoldsInForce, Locking
  <2>5. HoldsInForce' =
            IF now < current_time'[t] + TTL
            THEN IF current_time'[t] >= expiration' THEN 1 ELSE counter' + 1 ELSE 0
    BY <2>1, <2>2, OneLocks DEF HoldsInForce
  <2>6. HoldsInForce' = HoldsInForce + 1
    BY <1>3, <1>b, <2>1, <2>4, <2>5 DEF LockReadClock, MayCall, Goto, Return, Locals, LockInv, CallAlone, CallsConsistent, Trying
  <2> QED BY <1>a, <2>3, <2>6
<1>4. ASSUME NEW t \in Threads, LockLoadExpiration(t), UNCHANGED setting
      PROVE  HC!HoldNext \/ UNCHANGED <<HoldsInForce, SettledAnswer>>
  <2>1. /\ \A u \in Threads : u # t => pc[u] = "idle" /\ pc'[u] = "idle"
        /\ pc[t] \in Trying /\ pc'[t] \in Trying /\ pc[t] \notin Asking /\ pc'[t] \notin Asking
    BY <1>4, <1>b, <1>c DEF LockLoadExpiration, MayCall, Goto, Return, Locals, Locking, Trying, Asking, LockInv, CallAlone
  <2>2. now' = now /\ answer' = answer
    BY <1>4 DEF LockLoadExpiration, MayCall, Goto, Return, Locals
  <2>3. UNCHANGED SettledAnswer
    BY <1>d, <1>e, <2>1, <2>2 DEF Asking
  <2>4. HoldsInForce =
            IF now < current_time[t] + TTL
            THEN IF current_time[t] >= expiration THEN 1 ELSE counter + 1 ELSE 0
    BY <2>1, OneLocks DEF HoldsInForce
  <2>5. HoldsInForce' =
            IF now < current_time'[t] + TTL
            THEN IF current_time'[t] >= expiration' THEN 1 ELSE counter' + 1 ELSE 0
    BY <2>1, <2>2, OneLocks DEF HoldsInForce
  <2>6. UNCHANGED HoldsInForce
    BY <1>4, <1>b, <2>1, <2>4, <2>5 DEF LockLoadExpiration, MayCall, Goto, Return, Locals, LockInv, CallAlone, CallsConsistent, Trying
  <2> QED BY <1>a, <2>3, <2>6
<1>5. ASSUME NEW t \in Threads, LockLoadCounter(t), UNCHANGED setting
      PROVE  HC!HoldNext \/ UNCHANGED <<HoldsInForce, SettledAnswer>>
  <2>1. /\ \A u \in Threads : u # t => pc[u] = "idle" /\ pc'[u] = "idle"
        /\ pc[t] \in Trying /\ pc'[t] \in Trying /\ pc[t] \notin Asking /\ pc'[t] \notin Asking
    BY <1>5, <1>b, <1>c DEF LockLoadCounter, MayCall, Goto, Return, Locals, Locking, Trying, Asking, LockInv, CallAlone
  <2>2. now' = now /\ answer' = answer
    BY <1>5 DEF LockLoadCounter, MayCall, Goto, Return, Locals
  <2>3. UNCHANGED SettledAnswer
    BY <1>d, <1>e, <2>1, <2>2 DEF Asking
  <2>4. HoldsInForce =
            IF now < current_time[t] + TTL
            THEN IF current_time[t] >= expiration THEN 1 ELSE counter + 1 ELSE 0
    BY <2>1, OneLocks DEF HoldsInForce
  <2>5. HoldsInForce' =
            IF now < current_time'[t] + TTL
            THEN IF current_time'[t] >= expiration' THEN 1 ELSE counter' + 1 ELSE 0
    BY <2>1, <2>2, OneLocks DEF HoldsInForce
  <2>6. UNCHANGED HoldsInForce
    BY <1>5, <1>b, <2>1, <2>4, <2>5 DEF LockLoadCounter, MayCall, Goto, Return, Locals, LockInv, CallAlone, CallsConsistent, Trying
  <2> QED BY <1>a, <2>3, <2>6
<1>6. ASSUME NEW t \in Threads, LockSwapExpiration(t), UNCHANGED setting
      PROVE  HC!HoldNext \/ UNCHANGED <<HoldsInForce, SettledAnswer>>
  <2>1. /\ \A u \in Threads : u # t => pc[u] = "idle" /\ pc'[u] = "idle"
        /\ pc[t] \in Trying /\ pc'[t] = "lock_store_ctr" /\ pc[t] \notin Asking /\ pc'[t] \notin Asking
    BY <1>6, <1>b, <1>c DEF LockSwapExpiration, MayCall, Goto, Return, Locals, Locking, Trying, Asking, LockInv, CallAlone
  <2>2. now' = now /\ answer' = answer
    BY <1>6 DEF LockSwapExpiration, MayCall, Goto, Return, Locals
  <2>3. UNCHANGED SettledAnswer
    BY <1>d, <1>e, <2>1, <2>2 DEF Asking
  <2>4. HoldsInForce =
            IF now < current_time[t] + TTL
            THEN IF current_time[t] >= expiration THEN 1 ELSE counter + 1 ELSE 0
    BY <2>1, OneLocks DEF HoldsInForce
  <2>5. HoldsInForce' =
            IF now < current_time'[t] + TTL THEN 1 ELSE 0
    BY <2>1, <2>2, OneLocks DEF HoldsInForce
  <2>6. UNCHANGED HoldsInForce
    BY <1>6, <1>b, <2>1, <2>4, <2>5 DEF LockSwapExpiration, MayCall, Goto, Return, Locals, LockInv, CallAlone, CallsConsistent, Trying
  <2> QED BY <1>a, <2>3, <2>6
<1>7. ASSUME NEW t \in Threads, LockStoreCounter(t), UNCHANGED setting
      PROVE  HC!HoldNext \/ UNCHANGED <<HoldsInForce, SettledAnswer>>
  <2>1. /\ \A u \in Threads : u # t => pc[u] = "idle" /\ pc'[u] = "idle"
        /\ pc[t] = "lock_store_ctr" /\ pc'[t] \notin Locking /\ pc[t] \notin Asking /\ pc'[t] \notin Asking
    BY <1>7, <1>b, <1>c DEF LockStoreCounter, MayCall, Goto, Return, Locals, Locking, Trying, Asking, LockInv, CallAlone
  <2>2. now' = now /\ answer' = answer
    BY <1>7 DEF LockStoreCounter, MayCall, Goto, Return, Locals
  <2>3. UNCHANGED SettledAnswer
    BY <1>d, <1>e, <2>1, <2>2 DEF Asking
  <2>4. HoldsInForce =
            IF now < current_time[t] + TTL THEN 1 ELSE 0
    BY <2>1, OneLocks DEF HoldsInForce
  <2>5. HoldsInForce' =
            IF now < expiration' THEN counter' ELSE 0
    BY <2>1, <2>2, NobodyLocks DEF HoldsInForce, Locking
  <2>6. UNCHANGED HoldsInForce
    BY <1>7, <1>b, <2>1, <2>4, <2>5 DEF LockStoreCounter, MayCall, Goto, Return, Locals, LockInv, CallAlone, CallsConsistent, Trying
  <2> QED BY <1>a, <2>3, <2>6
<1>8. ASSUME NEW t \in Threads, LockSwapCounter(t), UNCHANGED setting
      PROVE  HC!HoldNext \/ UNCHANGED <<HoldsInForce, SettledAnswer>>
  <2>1. /\ \A u \in Threads : u # t => pc[u] = "idle" /\ pc'[u] = "idle"
        /\ pc[t] \in Trying /\ pc'[t] = "lock_store_exp" /\ pc[t] \notin Asking /\ pc'[t] \notin Asking
    BY <1>8, <1>b, <1>c DEF LockSwapCounter, MayCall, Goto, Return, Locals, Locking, Trying, Asking, LockInv, CallAlone
  <2>2. now' = now /\ answer' = answer
    BY <1>8 DEF LockSwapCounter, MayCall, Goto, Return, Locals
  <2>3. UNCHANGED SettledAnswer
    BY <1>d, <1>e, <2>1, <2>2 DEF Asking
  <2>4. HoldsInForce =
            IF now < current_time[t] + TTL
            THEN IF current_time[t] >= expiration THEN 1 ELSE counter + 1 ELSE 0
    BY <2>1, OneLocks DEF HoldsInForce
  <2>5. HoldsInForce' =
            IF now < current_time'[t] + TTL THEN counter' ELSE 0
    BY <2>1, <2>2, OneLocks DEF HoldsInForce
  <2>6. UNCHANGED HoldsInForce
    BY <1>8, <1>b, <2>1, <2>4, <2>5 DEF LockSwapCounter, MayCall, Goto, Return, Locals, LockInv, CallAlone, CallsConsistent, Trying
  <2> QED BY <1>a, <2>3, <2>6
<1>9. ASSUME NEW t \in Threads, LockStoreExpiration(t), UNCHANGED setting
      PROVE  HC!HoldNext \/ UNCHANGED <<HoldsInForce, SettledAnswer>>
  <2>1. /\ \A u \in Threads : u # t => pc[u] = "idle" /\ pc'[u] = "idle"
        /\ pc[t] = "lock_store_exp" /\ pc'[t] \notin Locking /\ pc[t] \notin Asking /\ pc'[t] \notin Asking
    BY <1>9, <1>b, <1>c DEF LockStoreExpiration, MayCall, Goto, Return, Locals, Locking, Trying, Asking, LockInv, CallAlone
  <2>2. now' = now /\ answer' = answer
    BY <1>9 DEF LockStoreExpiration, MayCall, Goto, Return, Locals
  <2>3. UNCHANGED SettledAnswer
    BY <1>d, <1>e, <2>1, <2>2 DEF Asking
  <2>4. HoldsInForce =
            IF now < current_time[t] + TTL THEN counter ELSE 0
    BY <2>1, OneLocks DEF HoldsInForce
  <2>5. HoldsInForce' =
            IF now < expiration' THEN counter' ELSE 0
    BY <2>1, <2>2, NobodyLocks DEF HoldsInForce, Locking
  <2>6. UNCHANGED HoldsInForce
    BY <1>9, <1>b, <2>1, <2>4, <2>5 DEF LockStoreExpiration, MayCall, Goto, Return, Locals, LockInv, CallAlone, CallsConsistent, Trying
  <2> QED BY <1>a, <2>3, <2>6
<1>10. ASSUME NEW t \in Threads, UnlockLoad(t), UNCHANGED setting
      PROVE  HC!HoldNext \/ UNCHANGED <<HoldsInForce, SettledAnswer>>
  <2>1. /\ \A u \in Threads : u # t => pc[u] = "idle" /\ pc'[u] = "idle"
        /\ pc[t] \notin Locking /\ pc'[t] \notin Locking /\ pc[t] \notin Asking /\ pc'[t] \notin Asking
    BY <1>10, <1>b, <1>c DEF UnlockLoad, MayCall, Goto, Return, Locals, Locking, Trying, Asking, LockInv, CallAlone
  <2>2. now' = now /\ answer' = answer
    BY <1>10 DEF UnlockLoad, MayCall, Goto, Return, Locals
  <2>3. UNCHANGED SettledAnswer
    BY <1>d, <1>e, <2>1, <2>2 DEF Asking
  <2>4. HoldsInForce =
            IF now < expiration THEN counter ELSE 0
    BY <2>1, NobodyLocks DEF HoldsInForce, Locking
  <2>5. HoldsInForce' =
            IF now < expiration' THEN counter' ELSE 0
    BY <2>1, <2>2, NobodyLocks DEF HoldsInForce, Locking
  <2>6. UNCHANGED HoldsInForce
    BY <1>10, <1>b, <2>1, <2>4, <2>5 DEF UnlockLoad, MayCall, Goto, Return, Locals, LockInv, CallAlone, CallsConsistent, Trying
  <2> QED BY <1>a, <2>3, <2>6
<1>11. ASSUME NEW t \in Threads, UnlockSwap(t), UNCHANGED setting
      PROVE  HC!HoldNext \/ UNCHANGED <<HoldsInForce, SettledAnswer>>
  <2>1. /\ \A u \in Threads : u # t => pc[u] = "idle" /\ pc'[u] = "idle"
        /\ pc[t] \notin Locking /\ pc'[t] \notin Locking /\ pc[t] \notin Asking /\ pc'[t] \notin Asking
    BY <1>11, <1>b, <1>c DEF UnlockSwap, MayCall, Goto, Return, Locals, Locking, Trying, Asking, LockInv, CallAlone
  <2>2. now' = now /\ answer' = answer
    BY <1>11 DEF UnlockSwap, MayCall, Goto, Return, Locals
  <2>3. UNCHANGED SettledAnswer
    BY <1>d, <1>e, <2>1, <2>2 DEF Asking
  <2>4. HoldsInForce =
            IF now < expiration THEN counter ELSE 0
    BY <2>1, NobodyLocks DEF HoldsInForce, Locking
  <2>5. HoldsInForce' =
            IF now < expiration' THEN counter' ELSE 0
    BY <2>1, <2>2, NobodyLocks DEF HoldsInForce, Locking
  <2>6. \/ HoldsInForce > 0 /\ HoldsInForce' = HoldsInForce - 1
        \/ UNCHANGED HoldsInForce
    BY <1>11, <1>b, <2>1, <2>4, <2>5 DEF UnlockSwap, MayCall, Goto, Return, Locals, LockInv, CallAlone, CallsConsistent, Trying
  <2> QED BY <1>a, <2>3, <2>6
<1>12. ASSUME NEW t \in Threads, ResetStoreCounter(t), UNCHANGED setting
      PROVE  HC!HoldNext \/ UNCHANGED <<HoldsInForce, SettledAnswer>>
  <2>1. /\ \A u \in Threads : u # t => pc[u] = "idle" /\ pc'[u] = "idle"
        /\ pc[t] \notin Locking /\ pc'[t] \notin Locking /\ pc[t] \notin Asking /\ pc'[t] \notin Asking
    BY <1>12, <1>b, <1>c DEF ResetStoreCounter, MayCall, Goto, Return, Locals, Locking, Trying, Asking, LockInv, CallAlone
  <2>2. now' = now /\ answer' = answer
    BY <1>12 DEF ResetStoreCounter, MayCall, Goto, Return, Locals
  <2>3. UNCHANGED SettledAnswer
    BY <1>d, <1>e, <2>1, <2>2 DEF Asking
  <2>4. HoldsInForce =
            IF now < expiration THEN counter ELSE 0
    BY <2>1, NobodyLocks DEF HoldsInForce, Locking
  <2>5. HoldsInForce' =
            IF now < expiration' THEN counter' ELSE 0
    BY <2>1, <2>2, NobodyLocks DEF HoldsInForce, Locking
  <2>6. HoldsInForce' = 0
    BY <1>12, <1>b, <2>1, <2>4, <2>5 DEF ResetStoreCounter, MayCall, Goto, Return, Locals, LockInv, CallAlone, CallsConsistent, Trying
  <2> QED BY <1>a, <2>3, <2>6
<1>13. ASSUME NEW t \in Threads, ResetStoreExpiration(t), UNCHANGED setting
      PROVE  HC!HoldNext \/ UNCHANGED <<HoldsInForce, SettledAnswer>>
  <2>1. /\ \A u \in Threads : u # t => pc[u] = "idle" /\ pc'[u] = "idle"
        /\ pc[t] \notin Locking /\ pc'[t] \notin Locking /\ pc[t] \notin Asking /\ pc'[t] \notin Asking
    BY <1>13, <1>b, <1>c DEF ResetStoreExpiration, MayCall, Goto, Return, Locals, Locking, Trying, Asking, LockInv, CallAlone
  <2>2. now' = now /\ answer' = answer
    BY <1>13 DEF ResetStoreExpiration, MayCall, Goto, Return, Locals
  <2>3. UNCHANGED SettledAnswer
    BY <1>d, <1>e, <2>1, <2>2 DEF Asking
  <2>4. HoldsInForce =
            IF now < expiration THEN counter ELSE 0
    BY <2>1, NobodyLocks DEF HoldsInForce, Locking
  <2>5. HoldsInForce' =
            IF now < expiration' THEN counter' ELSE 0
    BY <2>1, <2>2, NobodyLocks DEF HoldsInForce, Locking
  <2>6. HoldsInForce' = 0
    BY <1>13, <1>b, <2>1, <2>4, <2>5 DEF ResetStoreExpiration, MayCall, Goto, Return, Locals, LockInv, CallAlone, CallsConsistent, Trying
  <2> QED BY <1>a, <2>3, <2>6
<1>14. ASSUME NEW t \in Threads, IsLockedReadClock(t), UNCHANGED setting
      PROVE  HC!HoldNext \/ UNCHANGED <<HoldsInForce, SettledAnswer>>
  <2>1. /\ \A u \in Threads : pc[u] = "idle"
        /\ pc' = [pc EXCEPT ![t] = "isl_exp"] /\ current_time' = [current_time EXCEPT ![t] = now]
        /\ now' = now /\ answer' = answer /\ counter' = counter /\ expiration' = expiration
    BY <1>14, <1>b, <1>c DEF IsLockedReadClock, MayCall, Goto, Return, Locals
  <2>2. /\ \A u \in Threads : pc[u] \notin Locking /\ pc'[u] \notin Locking
        /\ \A u \in Threads : pc[u] \notin Asking
    BY <2>1, <1>b DEF Locking, Asking
  <2>3. /\ HoldsInForce = IF now < expiration THEN counter ELSE 0
        /\ HoldsInForce' = IF now < expiration THEN counter ELSE 0
    BY <2>1, <2>2, NobodyLocks DEF HoldsInForce
  <2>4. SettledAnswer = [u \in Threads |-> answer[u]]
    BY <1>d, <2>2
  <2>5. SettledAnswer' = [u \in Threads |-> IF u = t THEN counter > 0 /\ now < expiration ELSE answer[u]]
    BY <1>b, <2>1 DEF SettledAnswer
  <2>6. (HoldsInForce > 0) = (counter > 0 /\ now < expiration)
    BY <1>b, <2>3
  <2>7. SettledAnswer' = [SettledAnswer EXCEPT ![t] = HoldsInForce > 0]
    BY <2>4, <2>5, <2>6
  <2> QED BY <1>a, <2>3, <2>7
<1>15. ASSUME NEW t \in Threads, IsLockedLoadExpiration(t), UNCHANGED setting
      PROVE  HC!HoldNext \/ UNCHANGED <<HoldsInForce, SettledAnswer>>
  <2>1. /\ \A u \in Threads : u # t => pc[u] = "idle" /\ pc'[u] = "idle"
        /\ now' = now /\ counter' = counter /\ expiration' = expiration
    BY <1>15, <1>b, <1>c DEF IsLockedLoadExpiration, MayCall, Goto, Return, Locals
  <2>2. \A u \in Threads : pc[u] \notin Locking /\ pc'[u] \notin Locking
    BY <1>15, <2>1, <1>b DEF IsLockedLoadExpiration, MayCall, Goto, Return, Locals, Locking
  <2>3. UNCHANGED HoldsInForce
    BY <2>1, <2>2, NobodyLocks DEF HoldsInForce
  <2>4. UNCHANGED SettledAnswer
    BY <1>15, <1>b, <2>1 DEF IsLockedLoadExpiration, MayCall, Goto, Return, Locals, SettledAnswer
  <2> QED BY <2>3, <2>4
<1>16. ASSUME NEW t \in Threads, IsLockedLoadCounter(t), UNCHANGED setting
      PROVE  HC!HoldNext \/ UNCHANGED <<HoldsInForce, SettledAnswer>>
  <2>1. /\ \A u \in Threads : u # t => pc[u] = "idle" /\ pc'[u] = "idle"
        /\ now' = now /\ counter' = counter /\ expiration' = expiration
    BY <1>16, <1>b, <1>c DEF IsLockedLoadCounter, MayCall, Goto, Return, Locals
  <2>2. \A u \in Threads : pc[u] \notin Locking /\ pc'[u] \notin Locking
    BY <1>16, <2>1, <1>b DEF IsLockedLoadCounter, MayCall, Goto, Return, Locals, Locking
  <2>3. UNCHANGED HoldsInForce
    BY <2>1, <2>2, NobodyLocks DEF HoldsInForce
  <2>4. UNCHANGED SettledAnswer
    BY <1>16, <1>b, <2>1 DEF IsLockedLoadCounter, MayCall, Goto, Return, Locals, SettledAnswer
  <2> QED BY <2>3, <2>4
<1> QED BY <1>1, <1>2, <1>3, <1>4, <1>5, <1>6, <1>7, <1>8, <1>9, <1>10, <1>11, <1>12, <1>13, <1>14, <1>15, <1>16 DEF LockNext, Step

\* For any threads, TTL and settings: to callers that share a mutex, as those of
\* L1Manager do, a TTLLock is a plain counter of holds that the TTL may drop.
THEOREM LockImplementsCounter == LockSpec => ImplementsHoldCounter
<1>1. LockInit => HC!HoldInit(setting.first_locks)
  <2> SUFFICES ASSUME LockInit PROVE HC!HoldInit(setting.first_locks)
    OBVIOUS
  <2>1. setting.first_locks \in {0, 1} /\ TTL \in Nat /\ TTL > 0
    BY TTLLockAssumption DEF LockInit
  <2>2. HoldsInForce = IF now < expiration THEN counter ELSE 0
    BY NobodyLocks DEF LockInit, HoldsInForce, Locking
  <2>3. HoldsInForce = setting.first_locks
    BY <2>1, <2>2 DEF LockInit
  <2>4. SettledAnswer = [t \in Threads |-> FALSE]
    BY DEF LockInit, SettledAnswer
  <2> QED BY <2>3, <2>4 DEF HC!HoldInit
<1>2. LockInv /\ LockInv' /\ [LockNext]_lock_vars
        => [setting.serialized => HC!HoldNext]_<<HoldsInForce, SettledAnswer>>
  BY HoldCounterStep
<1> QED BY <1>1, <1>2, LockInvInit, LockInvStep, PTL DEF LockSpec, ImplementsHoldCounter
=============================================================================
