------------------------------ MODULE L1Proofs ------------------------------
(***************************************************************************)
(* The safety of L1Manager for any set of keys, any number of buffers and  *)
(* any extra_count arguments, and of its LRU listener.  The invariants TLC *)
(* checks on L1Manager are not inductive one by one: a buffer freed by     *)
(* DropObjects is accounted for only if no other key shares it, and a      *)
(* fresh reservation excludes readers only if an absent key carries no     *)
(* lock.  Their conjunction L1Inv is; CacheInv adds what the listeners     *)
(* keep: every way in and out of the cache reaches the order of the LRU    *)
(* policy.                                                                 *)
(***************************************************************************)
EXTENDS L1Cache, FiniteSetTheorems, SequenceTheorems, TLAPS

L1Inv ==
    /\ L1TypeOK
    /\ ReadersExcludeWriters
    /\ NoBufferShared
    /\ NoBufferLeaked
    /\ LocksOnResidentKeys

----------------------------------------------------------------------------
\* Clamping (validate_extra_count) keeps the number of locks a call takes or
\* gives back per key between 1 and MAX_READ_LOCK_COUNT.
LEMMA TotalBounded ==
    ASSUME NEW n \in Int
    PROVE  Total(n) \in 1..MAX_READ_LOCK_COUNT
  BY L1Assumption DEF Total, validate_extra_count

\* Unlocking n times leaves a natural number of holds, none when n covers them.
LEMMA ReleasedNat ==
    ASSUME NEW h \in Nat, NEW n \in Nat
    PROVE  /\ Released(h, n) \in Nat
           /\ Released(h, n) <= h
  BY DEF Released

\* Dropping unlocked or no longer locked keys (DropObjects, the tail of finish_read,
\* delete and clear) keeps the accounting of buffers exact.
LEMMA RemoveAccounts ==
    ASSUME L1TypeOK, NoBufferShared, NoBufferLeaked,
           NEW S \in SUBSET Resident, DropObjects(S)
    PROVE  /\ memory_obj' \in [Keys -> MemObjs \cup {NoObj}]
           /\ is_temporary' \in [Keys -> BOOLEAN]
           /\ allocated' \in SUBSET MemObjs
           /\ Resident' = Resident \ S
           /\ NoBufferShared'
           /\ NoBufferLeaked'
<1>1. /\ memory_obj' \in [Keys -> MemObjs \cup {NoObj}]
      /\ is_temporary' \in [Keys -> BOOLEAN]
      /\ allocated' \in SUBSET MemObjs
  BY DEF L1TypeOK, DropObjects
<1>2. Resident' = Resident \ S
  BY DEF L1TypeOK, DropObjects, Resident
<1>3. \A k \in Resident' : memory_obj'[k] = memory_obj[k]
  BY <1>2 DEF DropObjects, Resident
<1>4. NoBufferShared'
  BY <1>2, <1>3 DEF NoBufferShared
<1>5. NoBufferLeaked'
  <2>1. allocated' = {memory_obj[k] : k \in Resident} \ {memory_obj[k] : k \in S}
    BY DEF DropObjects, NoBufferLeaked
  <2>2. {memory_obj[k] : k \in Resident} \ {memory_obj[k] : k \in S}
          = {memory_obj[k] : k \in Resident \ S}
    BY DEF NoBufferShared
  <2>3. {memory_obj[k] : k \in Resident \ S} = {memory_obj'[k] : k \in Resident'}
    BY <1>2, <1>3
  <2>4. QED BY <2>1, <2>2, <2>3 DEF NoBufferLeaked
<1>6. QED BY <1>1, <1>2, <1>4, <1>5

\* A step that leaves the objects and their buffers alone keeps the accounting.
LEMMA SameBuffersAccount ==
    ASSUME NoBufferShared, NoBufferLeaked, UNCHANGED <<memory_obj, allocated>>
    PROVE  Resident' = Resident /\ NoBufferShared' /\ NoBufferLeaked'
  BY DEF Resident, NoBufferShared, NoBufferLeaked

----------------------------------------------------------------------------
\* Taking read locks: only keys that are not write-locked are touched.
LEMMA ReserveReadPreserves ==
    ASSUME L1Inv, NEW keys, NEW n \in Int,
           reserve_read(keys, n)
    PROVE  L1Inv'
<1>1. Total(n) \in Nat
  BY TotalBounded, L1Assumption
<1>2. Resident' = Resident /\ NoBufferShared' /\ NoBufferLeaked'
  BY SameBuffersAccount DEF L1Inv, reserve_read
<1>3. L1TypeOK'
  BY <1>1 DEF L1Inv, L1TypeOK, reserve_read
<1>4. ReadersExcludeWriters'
  BY <1>1 DEF L1Inv, L1TypeOK, ReadersExcludeWriters, reserve_read, reserve_read_done,
              available_for_read, WriteLocked, ReadLocked
<1>5. LocksOnResidentKeys'
  BY <1>1, <1>2 DEF L1Inv, L1TypeOK, LocksOnResidentKeys, reserve_read,
              reserve_read_done, Locked, WriteLocked, ReadLocked
<1>6. QED BY <1>2, <1>3, <1>4, <1>5 DEF L1Inv

\* Giving read locks back, with the deletion of temporary objects: the ones
\* deleted have lost all their locks in this very step.
LEMMA FinishReadPreserves ==
    ASSUME L1Inv, NEW keys, NEW n \in Int,
           finish_read(keys, n)
    PROVE  L1Inv'
<1> DEFINE S == finish_read_deleted(keys, n)
<1>1. Total(n) \in Nat
  BY TotalBounded, L1Assumption
<1>2. S \in SUBSET Resident
  BY DEF finish_read_deleted, finish_read_done
<1>3. DropObjects(S)
  BY DEF finish_read
<1>4. /\ memory_obj' \in [Keys -> MemObjs \cup {NoObj}]
      /\ is_temporary' \in [Keys -> BOOLEAN]
      /\ allocated' \in SUBSET MemObjs
      /\ Resident' = Resident \ S /\ NoBufferShared' /\ NoBufferLeaked'
  <2>. HIDE DEF S
  <2>1. QED BY <1>2, <1>3, RemoveAccounts DEF L1Inv
<1>5. /\ write_lock' = write_lock
      /\ read_lock' \in [Keys -> Nat]
      /\ \A k \in Keys : read_lock'[k] <= read_lock[k]
  BY <1>1, ReleasedNat DEF finish_read, L1Inv, L1TypeOK
<1>6. L1TypeOK'
  BY <1>4, <1>5 DEF L1Inv, L1TypeOK
<1>7. ReadersExcludeWriters'
  BY <1>5 DEF L1Inv, L1TypeOK, ReadersExcludeWriters, WriteLocked, ReadLocked
<1>8. \A k \in S : write_lock'[k] = 0 /\ read_lock'[k] = 0
  BY <1>5 DEF finish_read, finish_read_deleted, finish_read_done, WriteLocked,
              L1Inv, L1TypeOK, Resident
<1>9. LocksOnResidentKeys'
  <2>. HIDE DEF S
  <2>1. QED BY <1>4, <1>5, <1>8 DEF L1Inv, L1TypeOK, LocksOnResidentKeys, Locked,
                                     WriteLocked, ReadLocked
<1>10. QED BY <1>4, <1>6, <1>7, <1>9 DEF L1Inv

\* Reserving for write: the keys locked had no lock of either kind, and the
\* buffers handed out were free.
LEMMA ReserveWritePreserves ==
    ASSUME L1Inv, NEW keys \in SUBSET Keys, NEW temporary \in SUBSET keys,
           NEW mode \in Modes, reserve_write(keys, temporary, mode)
    PROVE  L1Inv'
<1> DEFINE existing == reserve_write_existing(keys, mode)
           absent == reserve_write_absent(keys, mode)
<1>1. /\ existing \subseteq Resident
      /\ \A k \in existing : write_lock[k] = 0 /\ read_lock[k] = 0
  BY DEF reserve_write_existing, available_for_write, WriteLocked, ReadLocked,
         L1Inv, L1TypeOK, Resident
<1>2. /\ absent \subseteq Keys
      /\ absent \cap Resident = {}
      /\ \A k \in absent : write_lock[k] = 0 /\ read_lock[k] = 0
  BY DEF reserve_write_absent, L1Inv, L1TypeOK, LocksOnResidentKeys, Locked,
         WriteLocked, ReadLocked
<1>3. CASE reserve_write_allocated(keys, temporary, mode)
  <2>1. PICK buf \in Injection(absent, MemObjs \ allocated) :
            /\ memory_obj' = [k \in Keys |-> IF k \in absent THEN buf[k] ELSE memory_obj[k]]
            /\ write_lock' = [k \in Keys |-> IF k \in existing \cup absent
                                               THEN write_lock[k] + 1 ELSE write_lock[k]]
            /\ is_temporary' = [k \in Keys |-> IF k \in absent THEN k \in temporary
                                                                ELSE is_temporary[k]]
            /\ allocated' = allocated \cup Range(buf)
            /\ read_lock' = read_lock
    BY <1>3 DEF reserve_write_allocated
  <2>. HIDE DEF existing, absent
  <2>2. /\ buf \in [absent -> MemObjs \ allocated]
        /\ \A j, k \in absent : buf[j] = buf[k] => j = k
        /\ Range(buf) = {buf[k] : k \in absent}
    BY DEF Injection, IsInjective, Range
  <2>3. L1TypeOK'
    <3>1. \A k \in Keys : (k \in temporary) \in BOOLEAN
      OBVIOUS
    <3>2. is_temporary' \in [Keys -> BOOLEAN]
      BY <2>1, <3>1, Zenon DEF L1Inv, L1TypeOK
    <3>3. QED BY <1>2, <2>1, <2>2, <3>2 DEF L1Inv, L1TypeOK
  <2>4. Resident' = Resident \cup absent
    BY <1>2, <2>1, <2>2, L1Assumption DEF Resident, L1Inv, L1TypeOK
  <2>5. /\ \A k \in Resident : memory_obj'[k] = memory_obj[k] /\ memory_obj[k] \in allocated
        /\ \A k \in absent : memory_obj'[k] = buf[k] /\ buf[k] \notin allocated
    BY <1>2, <2>1, <2>2 DEF L1Inv, NoBufferLeaked, Resident
  <2>6. NoBufferShared'
    BY <2>2, <2>4, <2>5 DEF L1Inv, NoBufferShared
  <2>7. NoBufferLeaked'
    <3>1. allocated' = {memory_obj[k] : k \in Resident} \cup {buf[k] : k \in absent}
      BY <2>1, <2>2 DEF L1Inv, NoBufferLeaked
    <3>2. {memory_obj'[k] : k \in Resident \cup absent}
            = {memory_obj[k] : k \in Resident} \cup {buf[k] : k \in absent}
      BY <2>5
    <3>3. QED BY <2>4, <3>1, <3>2 DEF NoBufferLeaked
  <2>8. ReadersExcludeWriters'
    BY <1>1, <1>2, <2>1 DEF L1Inv, L1TypeOK, ReadersExcludeWriters, WriteLocked, ReadLocked
  <2>9. LocksOnResidentKeys'
    BY <1>1, <2>1, <2>4 DEF L1Inv, L1TypeOK, LocksOnResidentKeys, Locked, WriteLocked, ReadLocked
  <2>10. QED BY <2>3, <2>6, <2>7, <2>8, <2>9 DEF L1Inv
<1>4. CASE reserve_write_oom(keys, mode)
  <2>1. /\ write_lock' = [k \in Keys |-> IF k \in existing THEN write_lock[k] + 1 ELSE write_lock[k]]
        /\ UNCHANGED <<memory_obj, read_lock, is_temporary, allocated>>
    BY <1>4 DEF reserve_write_oom
  <2>. HIDE DEF existing, absent
  <2>2. Resident' = Resident /\ NoBufferShared' /\ NoBufferLeaked'
    BY <2>1, SameBuffersAccount DEF L1Inv
  <2>3. L1TypeOK'
    BY <2>1 DEF L1Inv, L1TypeOK
  <2>4. ReadersExcludeWriters'
    BY <1>1, <2>1 DEF L1Inv, L1TypeOK, ReadersExcludeWriters, WriteLocked, ReadLocked
  <2>5. LocksOnResidentKeys'
    BY <1>1, <2>1, <2>2 DEF L1Inv, L1TypeOK, LocksOnResidentKeys, Locked, WriteLocked, ReadLocked
  <2>6. QED BY <2>2, <2>3, <2>4, <2>5 DEF L1Inv
<1>5. QED BY <1>3, <1>4 DEF reserve_write

\* Giving up the write lock, with or without taking read locks in its place.
LEMMA FinishWritePreserves ==
    ASSUME L1Inv, NEW keys,
           \/ finish_write(keys)
           \/ \E n \in Int : finish_write_and_reserve_read(keys, n)
    PROVE  L1Inv'
<1> DEFINE W == finish_write_done(keys)
<1>1. /\ W \subseteq Resident
      /\ \A k \in W : write_lock[k] = 1 /\ read_lock[k] = 0
  BY DEF finish_write_done, Resident, WriteLocked, ReadLocked, L1Inv, L1TypeOK,
         ReadersExcludeWriters
<1>2. PICK n \in Nat :
        /\ write_lock' = [k \in Keys |-> IF k \in W THEN write_lock[k] - 1 ELSE write_lock[k]]
        /\ read_lock' = [k \in Keys |-> IF k \in W THEN read_lock[k] + n ELSE read_lock[k]]
        /\ UNCHANGED <<memory_obj, is_temporary, allocated>>
  <2>1. CASE finish_write(keys)
    <3>1. read_lock' = [k \in Keys |-> IF k \in W THEN read_lock[k] + 0 ELSE read_lock[k]]
      BY <1>1, <2>1 DEF finish_write, L1Inv, L1TypeOK
    <3>2. QED BY <2>1, <3>1 DEF finish_write
  <2>2. CASE \E n \in Int : finish_write_and_reserve_read(keys, n)
    <3>1. PICK m \in Int : finish_write_and_reserve_read(keys, m)
      BY <2>2
    <3>2. Total(m) \in Nat
      BY TotalBounded, L1Assumption
    <3>3. QED BY <3>1, <3>2 DEF finish_write_and_reserve_read
  <2>3. QED BY <2>1, <2>2
<1>. HIDE DEF W
<1>3. Resident' = Resident /\ NoBufferShared' /\ NoBufferLeaked'
  BY <1>2, SameBuffersAccount DEF L1Inv
<1>4. L1TypeOK'
  BY <1>1, <1>2 DEF L1Inv, L1TypeOK
<1>5. ReadersExcludeWriters'
  BY <1>1, <1>2 DEF L1Inv, L1TypeOK, ReadersExcludeWriters, WriteLocked, ReadLocked
<1>6. LocksOnResidentKeys'
  BY <1>1, <1>2, <1>3 DEF L1Inv, L1TypeOK, LocksOnResidentKeys, Locked, WriteLocked, ReadLocked
<1>7. QED BY <1>3, <1>4, <1>5, <1>6 DEF L1Inv

\* Deleting keys: the ones deleted carried no lock.
LEMMA DeletePreserves ==
    ASSUME L1Inv, NEW keys, delete(keys)
    PROVE  L1Inv'
<1> DEFINE S == delete_done(keys)
<1>1. S \in SUBSET Resident /\ DropObjects(S) /\ UNCHANGED <<write_lock, read_lock>>
  BY DEF delete, delete_done
<1>2. \A k \in S : ~Locked(k)
  BY DEF delete_done
<1>. HIDE DEF S
<1>3. /\ memory_obj' \in [Keys -> MemObjs \cup {NoObj}]
      /\ is_temporary' \in [Keys -> BOOLEAN]
      /\ allocated' \in SUBSET MemObjs
      /\ Resident' = Resident \ S /\ NoBufferShared' /\ NoBufferLeaked'
  BY <1>1, RemoveAccounts DEF L1Inv
<1>4. L1TypeOK' /\ ReadersExcludeWriters'
  BY <1>1, <1>3 DEF L1Inv, L1TypeOK, ReadersExcludeWriters, WriteLocked, ReadLocked
<1>5. LocksOnResidentKeys'
  BY <1>1, <1>2, <1>3 DEF L1Inv, LocksOnResidentKeys, Locked, WriteLocked, ReadLocked
<1>6. QED BY <1>3, <1>4, <1>5 DEF L1Inv

\* Clearing the cache, gently or by force: a key dropped loses its locks.
LEMMA ClearPreserves ==
    ASSUME L1Inv, NEW force \in BOOLEAN, clear(force)
    PROVE  L1Inv'
<1> DEFINE S == clear_done(force)
<1>1. /\ S \in SUBSET Resident /\ DropObjects(S)
      /\ write_lock' = [k \in Keys |-> IF k \in S THEN 0 ELSE write_lock[k]]
      /\ read_lock' = [k \in Keys |-> IF k \in S THEN 0 ELSE read_lock[k]]
  BY DEF clear, clear_done
<1>. HIDE DEF S
<1>2. /\ memory_obj' \in [Keys -> MemObjs \cup {NoObj}]
      /\ is_temporary' \in [Keys -> BOOLEAN]
      /\ allocated' \in SUBSET MemObjs
      /\ Resident' = Resident \ S /\ NoBufferShared' /\ NoBufferLeaked'
  BY <1>1, RemoveAccounts DEF L1Inv
<1>3. L1TypeOK' /\ ReadersExcludeWriters'
  BY <1>1, <1>2 DEF L1Inv, L1TypeOK, ReadersExcludeWriters, WriteLocked, ReadLocked
<1>4. LocksOnResidentKeys'
  BY <1>1, <1>2 DEF L1Inv, L1TypeOK, LocksOnResidentKeys, Locked, WriteLocked, ReadLocked
<1>5. QED BY <1>2, <1>3, <1>4 DEF L1Inv

\* A lock whose TTL runs out.
LEMMA ExpirePreserves ==
    ASSUME L1Inv, NEW k \in Keys, ExpireWrite(k) \/ ExpireRead(k)
    PROVE  L1Inv'
<1>1. Resident' = Resident /\ NoBufferShared' /\ NoBufferLeaked'
  BY SameBuffersAccount DEF L1Inv, ExpireWrite, ExpireRead
<1>2. L1TypeOK' /\ ReadersExcludeWriters'
  BY DEF L1Inv, L1TypeOK, ReadersExcludeWriters, WriteLocked, ReadLocked, ExpireWrite, ExpireRead
<1>3. LocksOnResidentKeys'
  BY <1>1 DEF L1Inv, L1TypeOK, LocksOnResidentKeys, Locked, WriteLocked, ReadLocked,
              ExpireWrite, ExpireRead
<1>4. QED BY <1>1, <1>2, <1>3 DEF L1Inv

----------------------------------------------------------------------------
\* Every call, with any arguments, and every expiration preserve L1Inv.
LEMMA NextPreserves == L1Inv /\ [L1Next]_l1vars => L1Inv'
<1> SUFFICES ASSUME L1Inv, [L1Next]_l1vars PROVE L1Inv'
  OBVIOUS
<1>1. ASSUME NEW keys \in SUBSET Keys, NEW n \in ExtraCounts,
             \/ reserve_read(keys, n)
             \/ finish_read(keys, n)
             \/ finish_write_and_reserve_read(keys, n)
      PROVE  L1Inv'
  BY <1>1, ReserveReadPreserves, FinishReadPreserves, FinishWritePreserves, L1Assumption
<1>2. ASSUME NEW keys \in SUBSET Keys, NEW temporary \in SUBSET keys,
             NEW mode \in Modes, reserve_write(keys, temporary, mode)
      PROVE  L1Inv'
  BY <1>2, ReserveWritePreserves
<1>3. ASSUME NEW keys \in SUBSET Keys, finish_write(keys) \/ delete(keys)
      PROVE  L1Inv'
  BY <1>3, FinishWritePreserves, DeletePreserves
<1>4. ASSUME NEW force \in BOOLEAN, clear(force) PROVE L1Inv'
  BY <1>4, ClearPreserves
<1>5. ASSUME NEW k \in Keys, ExpireWrite(k) \/ ExpireRead(k) PROVE L1Inv'
  BY <1>5, ExpirePreserves
<1>6. CASE UNCHANGED l1vars
  BY <1>6 DEF l1vars, L1Inv, L1TypeOK, ReadersExcludeWriters, NoBufferShared,
              NoBufferLeaked, LocksOnResidentKeys, Locked, WriteLocked, ReadLocked, Resident
<1>7. QED BY <1>1, <1>2, <1>3, <1>4, <1>5, <1>6 DEF L1Next

\* The inductive invariant holds of every behaviour.
LEMMA L1InvHolds == L1Spec => []L1Inv
<1>1. L1Init => L1Inv
  BY L1Assumption DEF L1Init, L1Inv, L1TypeOK, ReadersExcludeWriters, NoBufferShared,
         NoBufferLeaked, LocksOnResidentKeys, Locked, WriteLocked, ReadLocked, Resident
<1>2. QED BY <1>1, NextPreserves, PTL DEF L1Spec

\* L1Manager is type correct, whatever its callers do.
THEOREM L1TypeCorrect == L1Spec => []L1TypeOK
<1>1. L1Inv => L1TypeOK
  BY DEF L1Inv
<1>2. QED BY <1>1, L1InvHolds, PTL

\* At most one writer per key, and none beside a reader, for any number of
\* callers, keys and lock counts, with locks expiring at any moment.
THEOREM L1Exclusion == L1Spec => []ReadersExcludeWriters
<1>1. L1Inv => ReadersExcludeWriters
  BY DEF L1Inv
<1>2. QED BY <1>1, L1InvHolds, PTL

\* The buffers handed out are exactly those of the resident keys, each owned by
\* one key: no leak, no double free, no aliasing, in an L1 memory of any size.
THEOREM L1BuffersAccounted == L1Spec => [](NoBufferShared /\ NoBufferLeaked)
<1>1. L1Inv => NoBufferShared /\ NoBufferLeaked
  BY DEF L1Inv
<1>2. QED BY <1>1, L1InvHolds, PTL

\* No object leaves the cache with a lock still on its key.
THEOREM L1NoOrphanLock == L1Spec => []LocksOnResidentKeys
<1>1. L1Inv => LocksOnResidentKeys
  BY DEF L1Inv
<1>2. QED BY <1>1, L1InvHolds, PTL

\* The buffer of a locked key stays where it is: only the reader that gives up
\* the last lock of a temporary object, or a forced clear, takes it away.
THEOREM L1BuffersStayPinned == L1Spec => BuffersPinned
<1>1. L1Inv /\ [L1Next]_l1vars => [BufferPinnedStep]_l1vars
  <2> SUFFICES ASSUME L1Inv, L1Next, NEW k \in Keys,
                      Locked(k), memory_obj'[k] # memory_obj[k]
               PROVE  \/ is_temporary[k] /\ ReadLocked(k) /\ read_lock'[k] = 0
                      \/ clear(TRUE)
    BY DEF BufferPinnedStep
  <2>1. k \in Resident
    BY DEF L1Inv, LocksOnResidentKeys
  <2>2. ASSUME NEW keys \in SUBSET Keys, NEW n \in ExtraCounts, finish_read(keys, n)
        PROVE  is_temporary[k] /\ ReadLocked(k) /\ read_lock'[k] = 0
    BY <2>2 DEF finish_read, finish_read_deleted, finish_read_done, DropObjects, L1Inv, L1TypeOK
  <2>3. ASSUME NEW keys \in SUBSET Keys, NEW temporary \in SUBSET keys,
               NEW mode \in Modes, reserve_write(keys, temporary, mode)
        PROVE  FALSE
    BY <2>1, <2>3 DEF reserve_write, reserve_write_allocated, reserve_write_oom,
                      reserve_write_absent, L1Inv, L1TypeOK
  <2>4. ASSUME NEW keys \in SUBSET Keys, delete(keys)
        PROVE  FALSE
    BY <2>4 DEF delete, delete_done, DropObjects, L1Inv, L1TypeOK
  <2>5. ASSUME NEW force \in BOOLEAN, clear(force)
        PROVE  clear(TRUE)
    <3>1. CASE force = FALSE
      BY <2>5, <3>1 DEF clear, clear_done, DropObjects, L1Inv, L1TypeOK
    <3>2. CASE force = TRUE
      BY <2>5, <3>2
    <3>3. QED BY <3>1, <3>2
  <2>6. ASSUME NEW keys \in SUBSET Keys,
               \/ \E n \in ExtraCounts : \/ reserve_read(keys, n)
                                          \/ finish_write_and_reserve_read(keys, n)
               \/ finish_write(keys)
        PROVE  FALSE
    BY <2>6 DEF reserve_read, finish_write_and_reserve_read, finish_write
  <2>7. ASSUME NEW j \in Keys, ExpireWrite(j) \/ ExpireRead(j)
        PROVE  FALSE
    BY <2>7 DEF ExpireWrite, ExpireRead
  <2>8. QED BY <2>2, <2>3, <2>4, <2>5, <2>6, <2>7 DEF L1Next
<1>2. QED BY <1>1, L1InvHolds, PTL DEF L1Spec, BuffersPinned

----------------------------------------------------------------------------
(* The LRU order.  It is made by filtering and sorting; both are orderings  *)
(* of a finite set of numbers by rank.                                      *)

\* Every element of a finite set of numbers has a rank of its own, and every
\* rank up to the size of the set is taken.
LEMMA RanksAreTaken ==
    ASSUME NEW S, IsFiniteSet(S), \A x \in S : x \in Nat
    PROVE  /\ Cardinality(S) \in Nat
           /\ \A x \in S : Cardinality({y \in S : y <= x}) \in 1..Cardinality(S)
           /\ \A n \in 1..Cardinality(S) : \E x \in S : Cardinality({y \in S : y <= x}) = n
           /\ \A x, z \in S : Cardinality({y \in S : y <= x}) = Cardinality({y \in S : y <= z}) => x = z
<1> DEFINE below(x) == {y \in S : y <= x}
           rank == [x \in S |-> Cardinality(below(x))]
<1>1. Cardinality(S) \in Nat
  BY FS_CardinalityType
<1>2. ASSUME NEW x \in S PROVE IsFiniteSet(below(x)) /\ Cardinality(below(x)) \in 1..Cardinality(S)
  <2>1. below(x) \in SUBSET S /\ x \in below(x)
    OBVIOUS
  <2>2. IsFiniteSet(below(x)) /\ Cardinality(below(x)) <= Cardinality(S)
    BY <2>1, FS_Subset
  <2>3. Cardinality(below(x)) \in Nat /\ Cardinality(below(x)) # 0
    BY <2>1, <2>2, FS_CardinalityType, FS_EmptySet
  <2>4. QED BY <1>1, <2>2, <2>3
<1>3. ASSUME NEW x \in S, NEW z \in S, Cardinality(below(x)) = Cardinality(below(z)) PROVE x = z
  <2>1. ASSUME NEW u \in S, NEW v \in S, u < v, Cardinality(below(u)) = Cardinality(below(v))
        PROVE  FALSE
    <3>1. below(u) \in SUBSET below(v) /\ v \in below(v) /\ v \notin below(u)
      BY <2>1
    <3>2. below(v) = below(u)
      BY <1>2, <2>1, <3>1, FS_Subset
    <3>3. QED BY <3>1, <3>2
  <2>2. x < z \/ z < x \/ x = z
    OBVIOUS
  <2>3. QED BY <1>3, <2>1, <2>2
<1>4. rank \in Injection(S, 1..Cardinality(S))
  BY <1>2, <1>3 DEF Injection, IsInjective
<1>5. IsFiniteSet(1..Cardinality(S)) /\ Cardinality(1..Cardinality(S)) = Cardinality(S)
  BY <1>1, FS_Interval
<1>6. rank \in Surjection(S, 1..Cardinality(S))
  <2> HIDE DEF rank
  <2>1. QED BY <1>4, <1>5, FS_Injection
<1>7. \A n \in 1..Cardinality(S) : \E x \in S : rank[x] = n
  <2> HIDE DEF rank
  <2>1. QED BY <1>6 DEF Surjection
<1>8. QED BY <1>1, <1>2, <1>3, <1>7

\* Ascending lists every element of the set once.
LEMMA AscendingLists ==
    ASSUME NEW S, IsFiniteSet(S), \A x \in S : x \in Nat
    PROVE  /\ Ascending(S) \in Seq(S)
           /\ ToSet(Ascending(S)) = S
           /\ IsInjective(Ascending(S))
<1>1. PICK s : s = Ascending(S)
  OBVIOUS
<1>2. PICK m \in Nat : m = Cardinality(S)
  BY RanksAreTaken
<1>3. DOMAIN s = 1..m /\ \A n \in 1..m : s[n] = CHOOSE x \in S : Cardinality({y \in S : y <= x}) = n
  BY <1>1, <1>2 DEF Ascending
<1>4. ASSUME NEW n \in 1..m PROVE s[n] \in S /\ Cardinality({y \in S : y <= s[n]}) = n
  <2>1. \E x \in S : Cardinality({y \in S : y <= x}) = n
    BY <1>2, RanksAreTaken
  <2>2. s[n] = CHOOSE x \in S : Cardinality({y \in S : y <= x}) = n
    BY <1>3
  <2>3. QED BY <2>1, <2>2, Zenon
<1>5. s \in [1..m -> S]
  <2>1. s = [n \in 1..m |-> CHOOSE x \in S : Cardinality({y \in S : y <= x}) = n]
    BY <1>1, <1>2, Zenon DEF Ascending
  <2>2. s = [n \in 1..m |-> s[n]]
    BY <1>3, <2>1, Zenon
  <2>3. QED BY <1>4, <2>2, Zenon
<1>6. s \in Seq(S)
  BY <1>5
<1>7. ASSUME NEW x \in S PROVE \E n \in 1..m : s[n] = x
  <2>1. PICK n \in 1..m : n = Cardinality({y \in S : y <= x})
    BY <1>2, RanksAreTaken
  <2>2. s[n] \in S /\ Cardinality({y \in S : y <= s[n]}) = Cardinality({y \in S : y <= x})
    BY <1>4, <2>1
  <2>3. s[n] = x
    BY <2>2, RanksAreTaken
  <2>4. QED BY <2>3
<1>8. ToSet(s) = S
  <2>1. ToSet(s) = {s[n] : n \in 1..m}
    BY <1>3 DEF ToSet
  <2>2. (\A n \in 1..m : s[n] \in S) /\ \A x \in S : \E n \in 1..m : s[n] = x
    BY <1>4, <1>7
  <2>3. QED BY <2>1, <2>2
<1>9. IsInjective(s)
  <2>1. \A a, b \in 1..m : s[a] = s[b] => a = b
    BY <1>4
  <2>2. QED BY <1>3, <2>1 DEF IsInjective
<1>10. QED BY <1>1, <1>6, <1>8, <1>9

\* A list of keys that names none of them twice.
Listing(s) == s \in Seq(Keys) /\ IsInjective(s)

\* Dropping keys keeps the others.
LEMMA DroppedLists ==
    ASSUME NEW o, Listing(o), NEW keys
    PROVE  Listing(Dropped(o, keys)) /\ ToSet(Dropped(o, keys)) = ToSet(o) \ keys
<1>1. PICK stay : stay = {i \in DOMAIN o : o[i] \notin keys}
  OBVIOUS
<1>2. PICK kept : kept = Ascending(stay)
  OBVIOUS
<1>3. PICK d : d = Dropped(o, keys)
  OBVIOUS
<1>4. DOMAIN o = 1..Len(o) /\ Len(o) \in Nat /\ \A i \in 1..Len(o) : o[i] \in Keys
  BY DEF Listing
<1>5. IsFiniteSet(stay) /\ \A i \in stay : i \in Nat
  <2>1. stay \in SUBSET (1..Len(o)) /\ \A i \in stay : i \in Nat
    BY <1>1, <1>4
  <2>2. IsFiniteSet(1..Len(o))
    BY <1>4, FS_Interval
  <2>3. QED BY <2>1, <2>2, FS_Subset
<1>6. kept \in Seq(stay) /\ ToSet(kept) = stay /\ IsInjective(kept)
  BY <1>2, <1>5, AscendingLists
<1>7. d = [n \in DOMAIN kept |-> o[kept[n]]]
  BY <1>1, <1>2, <1>3, Zenon DEF Dropped
<1>8. DOMAIN kept = 1..Len(kept) /\ Len(kept) \in Nat /\ \A n \in 1..Len(kept) : kept[n] \in stay
  BY <1>6
<1>9. /\ DOMAIN d = 1..Len(kept)
      /\ \A n \in 1..Len(kept) : d[n] = o[kept[n]] /\ kept[n] \in 1..Len(o) /\ d[n] \notin keys
  BY <1>1, <1>4, <1>7, <1>8
<1>10. d \in Seq(Keys)
  BY <1>4, <1>7, <1>8, <1>9
<1>11. IsInjective(d)
  <2>1. ASSUME NEW a \in 1..Len(kept), NEW b \in 1..Len(kept), d[a] = d[b] PROVE a = b
    <3>1. kept[a] = kept[b]
      BY <1>4, <1>9, <2>1 DEF Listing, IsInjective
    <3>2. QED BY <1>6, <1>8, <3>1 DEF IsInjective
  <2>2. QED BY <1>9, <2>1 DEF IsInjective
<1>12. ToSet(d) = ToSet(o) \ keys
  <2>1. ASSUME NEW i \in 1..Len(o), o[i] \notin keys PROVE \E n \in 1..Len(kept) : d[n] = o[i]
    <3>1. i \in ToSet(kept)
      BY <1>1, <1>4, <1>6, <2>1
    <3>2. PICK n \in 1..Len(kept) : kept[n] = i
      BY <1>8, <3>1 DEF ToSet
    <3>3. QED BY <1>9, <3>2
  <2>2. ToSet(d) = {d[n] : n \in 1..Len(kept)} /\ ToSet(o) = {o[i] : i \in 1..Len(o)}
    BY <1>4, <1>9 DEF ToSet
  <2>3. QED BY <1>9, <2>1, <2>2
<1>13. QED BY <1>3, <1>10, <1>11, <1>12 DEF Listing

\* A set of keys, newest first.
LEMMA NewestLists ==
    ASSUME NEW keys \in SUBSET Keys
    PROVE  Listing(Newest(keys)) /\ ToSet(Newest(keys)) = keys
<1>1. IsFiniteSet(keys) /\ \A k \in keys : k \in Nat
  BY CacheAssumption, FS_Subset
<1>2. PICK s : s = Ascending(keys)
  OBVIOUS
<1>3. s \in Seq(keys) /\ ToSet(s) = keys /\ IsInjective(s)
  BY <1>1, <1>2, AscendingLists
<1>4. PICK r : r = Newest(keys)
  OBVIOUS
<1>5. r = [i \in 1..Len(s) |-> s[(Len(s) - i) + 1]]
  BY <1>2, <1>4 DEF Newest, Reverse
<1>6. Len(s) \in Nat /\ DOMAIN s = 1..Len(s) /\ \A i \in 1..Len(s) : s[i] \in keys
  BY <1>3
<1>7. \A i \in 1..Len(s) : (Len(s) - i) + 1 \in 1..Len(s)
  BY <1>6
<1>8. /\ r \in [1..Len(s) -> Keys]
      /\ \A i \in 1..Len(s) : r[i] = s[(Len(s) - i) + 1]
  BY <1>5, <1>6, <1>7
<1>9. r \in Seq(Keys)
  BY <1>6, <1>8
<1>10. IsInjective(r)
  <2>1. ASSUME NEW a \in 1..Len(s), NEW b \in 1..Len(s), r[a] = r[b] PROVE a = b
    <3>1. (Len(s) - a) + 1 = (Len(s) - b) + 1
      BY <1>3, <1>6, <1>7, <1>8, <2>1 DEF IsInjective
    <3>2. QED BY <1>6, <3>1
  <2>2. QED BY <1>8, <2>1 DEF IsInjective
<1>11. ToSet(r) = keys
  <2>1. ASSUME NEW k \in keys PROVE \E i \in 1..Len(s) : r[i] = k
    <3>1. PICK j \in 1..Len(s) : s[j] = k
      BY <1>3, <1>6 DEF ToSet
    <3>2. (Len(s) - j) + 1 \in 1..Len(s) /\ (Len(s) - ((Len(s) - j) + 1)) + 1 = j
      BY <1>6
    <3>3. QED BY <1>8, <3>1, <3>2
  <2>2. \A i \in 1..Len(s) : r[i] \in keys
    BY <1>6, <1>7, <1>8
  <2>3. ToSet(r) = {r[i] : i \in 1..Len(s)}
    BY <1>8 DEF ToSet
  <2>4. QED BY <2>1, <2>2, <2>3
<1>12. QED BY <1>4, <1>9, <1>10, <1>11 DEF Listing

\* Two lists with no key in common make one.
LEMMA JoinedLists ==
    ASSUME NEW s, Listing(s), NEW t, Listing(t), ToSet(s) \cap ToSet(t) = {}
    PROVE  Listing(s \o t) /\ ToSet(s \o t) = ToSet(s) \cup ToSet(t)
<1>1. PICK m, n : m = Len(s) /\ n = Len(t)
  OBVIOUS
<1>2. PICK u : u = s \o t
  OBVIOUS
<1>3. /\ m \in Nat /\ n \in Nat /\ DOMAIN s = 1..m /\ DOMAIN t = 1..n
      /\ u \in Seq(Keys) /\ Len(u) = m + n /\ DOMAIN u = 1..(m + n)
      /\ \A i \in 1..(m + n) : u[i] = IF i <= m THEN s[i] ELSE t[i - m]
  BY <1>1, <1>2 DEF Listing
<1>4. /\ ToSet(s) = {s[i] : i \in 1..m} /\ ToSet(t) = {t[i] : i \in 1..n}
      /\ ToSet(u) = {u[i] : i \in 1..(m + n)}
  BY <1>3 DEF ToSet
<1>5. \A i \in 1..m : u[i] = s[i] /\ i \in 1..(m + n)
  BY <1>3
<1>6. \A i \in 1..n : u[i + m] = t[i] /\ i + m \in 1..(m + n)
  BY <1>3
<1>7. \A i \in 1..(m + n) : i \in 1..m \/ (i - m \in 1..n /\ (i - m) + m = i)
  BY <1>3
<1>8. ToSet(u) = ToSet(s) \cup ToSet(t)
  <2>1. \A k \in ToSet(u) : k \in ToSet(s) \cup ToSet(t)
    BY <1>4, <1>5, <1>6, <1>7
  <2>2. \A k \in ToSet(s) \cup ToSet(t) : k \in ToSet(u)
    BY <1>4, <1>5, <1>6
  <2>3. QED BY <2>1, <2>2
<1>9. IsInjective(u)
  <2>1. ASSUME NEW a \in 1..(m + n), NEW b \in 1..(m + n), u[a] = u[b] PROVE a = b
    <3> (a - m) + m = a /\ (b - m) + m = b
      BY <1>3
    <3>1. CASE a \in 1..m /\ b \in 1..m
      BY <1>3, <1>5, <2>1, <3>1 DEF Listing, IsInjective
    <3>2. CASE a - m \in 1..n /\ b - m \in 1..n
      <4>1. t[a - m] = t[b - m]
        BY <1>6, <2>1, <3>2
      <4>2. a - m = b - m
        BY <1>3, <3>2, <4>1 DEF Listing, IsInjective
      <4>3. QED BY <1>3, <4>2
    <3>3. CASE a \in 1..m /\ b - m \in 1..n
      <4>1. u[a] = s[a] /\ u[b] = t[b - m]
        BY <1>5, <1>6, <3>3
      <4>2. s[a] \in ToSet(s) /\ t[b - m] \in ToSet(t)
        BY <1>4, <3>3
      <4>3. QED BY <2>1, <4>1, <4>2
    <3>4. CASE a - m \in 1..n /\ b \in 1..m
      <4>1. u[b] = s[b] /\ u[a] = t[a - m]
        BY <1>5, <1>6, <3>4
      <4>2. s[b] \in ToSet(s) /\ t[a - m] \in ToSet(t)
        BY <1>4, <3>4
      <4>3. QED BY <2>1, <4>1, <4>2
    <3>5. QED BY <1>7, <3>1, <3>2, <3>3, <3>4
  <2>2. QED BY <1>3, <2>1 DEF IsInjective
<1>10. QED BY <1>2, <1>3, <1>8, <1>9 DEF Listing

\* What the listeners make of the order.
LEMMA ListenersKeepOrder ==
    ASSUME NEW o, Listing(o), NEW keys \in SUBSET Keys
    PROVE  /\ Listing(on_keys_created(o, keys)) /\ ToSet(on_keys_created(o, keys)) = ToSet(o) \cup keys
           /\ Listing(on_keys_touched(o, keys)) /\ ToSet(on_keys_touched(o, keys)) = ToSet(o)
           /\ Listing(on_keys_removed(o, keys)) /\ ToSet(on_keys_removed(o, keys)) = ToSet(o) \ keys
<1>1. PICK d : d = Dropped(o, keys)
  OBVIOUS
<1>2. Listing(d) /\ ToSet(d) = ToSet(o) \ keys
  BY <1>1, DroppedLists
<1>3. PICK seen : seen = keys \cap ToSet(o)
  OBVIOUS
<1>4. PICK s, t : s = Newest(keys) /\ t = Newest(seen)
  OBVIOUS
<1>5. Listing(s) /\ ToSet(s) = keys
  BY <1>4, NewestLists
<1>6. Listing(t) /\ ToSet(t) = seen
  <2>1. seen \in SUBSET Keys
    BY <1>3
  <2>2. QED BY <1>4, <2>1, NewestLists
<1>7. Listing(d \o s) /\ ToSet(d \o s) = ToSet(o) \cup keys
  BY <1>2, <1>5, JoinedLists
<1>8. Listing(d \o t) /\ ToSet(d \o t) = ToSet(o)
  BY <1>2, <1>3, <1>6, JoinedLists
<1>9. /\ on_keys_created(o, keys) = d \o s /\ on_keys_touched(o, keys) = d \o t
      /\ on_keys_removed(o, keys) = d
  BY <1>1, <1>3, <1>4 DEF on_keys_created, on_keys_touched, on_keys_removed
<1>10. QED BY <1>2, <1>7, <1>8, <1>9

----------------------------------------------------------------------------
(* The cache with its listeners and its eviction thread.                    *)

\* As long as write locks do not run out, what is not being written is tracked.
CacheInv ==
    /\ L1Inv
    /\ Listing(order)
    /\ Tracked \subseteq Resident
    /\ ~TTLExpires => EveryObjectEvictable

\* A step that drops S from the cache and from the order.
LEMMA DroppingTracks ==
    ASSUME CacheInv, NEW S \in SUBSET Keys, DropObjects(S), NEW o, Listing(o), ToSet(o) = Tracked,
           order' = on_keys_removed(o, S),
           \A k \in Keys \ S : write_lock'[k] = write_lock[k]
    PROVE  /\ Listing(order') /\ (Tracked \subseteq Resident)'
           /\ (~TTLExpires => EveryObjectEvictable)'
<1>1. Listing(order') /\ ToSet(order') = Tracked \ S
  BY ListenersKeepOrder
<1>2. Resident' = Resident \ S
  BY DEF DropObjects, Resident, CacheInv, L1Inv, L1TypeOK
<1>3. (Tracked \subseteq Resident)'
  BY <1>1, <1>2 DEF Tracked, CacheInv
<1>4. (~TTLExpires => EveryObjectEvictable)'
  BY <1>1, <1>2 DEF Tracked, CacheInv, EveryObjectEvictable, WriteLocked, Resident
<1>5. QED BY <1>1, <1>3, <1>4

\* A step that takes nothing out of the cache and publishes what it finishes.
LEMMA KeepingTracks ==
    ASSUME CacheInv, NEW S \in SUBSET Resident, order' = on_keys_created(order, S) \/ (S = {} /\ order' = order),
           Resident \subseteq Resident',
           \A k \in Resident' : write_lock'[k] > 0 \/ k \in S \/ (k \in Resident /\ ~WriteLocked(k))
    PROVE  /\ Listing(order') /\ (Tracked \subseteq Resident)'
           /\ (~TTLExpires => EveryObjectEvictable)'
<1>1. Listing(order') /\ ToSet(order') = Tracked \cup S
  BY ListenersKeepOrder DEF CacheInv, Tracked, Resident
<1>2. (Tracked \subseteq Resident)'
  BY <1>1 DEF Tracked, CacheInv
<1>3. (~TTLExpires => EveryObjectEvictable)'
  BY <1>1 DEF Tracked, CacheInv, EveryObjectEvictable, WriteLocked
<1>4. QED BY <1>1, <1>2, <1>3

\* The methods of the manager, with what the listeners do about them.
LEMMA CallsTrack ==
    ASSUME CacheInv, NEW keys \in SUBSET Keys, NEW n, L1Inv',
           \/ l1_reserve_read(keys, n) \/ l1_finish_read(keys, n)
           \/ l1_finish_write_and_reserve_read(keys, n) \/ l1_finish_write(keys)
           \/ l1_delete(keys) \/ \E force \in BOOLEAN : l1_clear(force)
           \/ \E temporary \in SUBSET keys, mode \in Modes : l1_reserve_write(keys, temporary, mode)
    PROVE  CacheInv'
<1>1. L1TypeOK /\ Resident \subseteq Keys
  BY DEF CacheInv, L1Inv, Resident
<1>2. CASE l1_reserve_read(keys, n)
  <2>1. UNCHANGED <<memory_obj, write_lock, order>>
    BY <1>2 DEF l1_reserve_read, reserve_read
  <2>2. QED BY <2>1 DEF CacheInv, Tracked, Resident, EveryObjectEvictable, WriteLocked
<1>3. CASE l1_finish_read(keys, n)
  <2>1. PICK S, done : S = finish_read_deleted(keys, n) /\ done = finish_read_done(keys)
    OBVIOUS
  <2>2. S \in SUBSET Keys /\ done \in SUBSET Keys
    BY <2>1 DEF finish_read_deleted, finish_read_done
  <2>3. PICK o : o = on_keys_touched(order, done)
    OBVIOUS
  <2>4. Listing(o) /\ ToSet(o) = Tracked
    BY <2>2, <2>3, ListenersKeepOrder DEF CacheInv, Tracked
  <2>5. DropObjects(S) /\ write_lock' = write_lock /\ order' = on_keys_removed(o, S)
    BY <1>3, <2>1, <2>3 DEF l1_finish_read, finish_read
  <2>6. QED BY <2>2, <2>4, <2>5, DroppingTracks DEF CacheInv
<1>4. CASE l1_finish_write_and_reserve_read(keys, n) \/ l1_finish_write(keys)
  <2>1. PICK S : S = finish_write_done(keys)
    OBVIOUS
  <2>2. S \in SUBSET Resident /\ order' = on_keys_created(order, S)
    BY <1>4, <2>1 DEF l1_finish_write_and_reserve_read, l1_finish_write, finish_write_done
  <2>3. memory_obj' = memory_obj /\ \A k \in Keys \ S : write_lock'[k] = write_lock[k]
    BY <1>1, <1>4, <2>1 DEF l1_finish_write_and_reserve_read, l1_finish_write,
                            finish_write_and_reserve_read, finish_write, L1TypeOK
  <2>4. Resident' = Resident
    BY <2>3 DEF Resident
  <2>5. \A k \in Resident' : write_lock'[k] > 0 \/ k \in S \/ (k \in Resident /\ ~WriteLocked(k))
    <3>1. \A k \in Resident : k \in S \/ write_lock'[k] = write_lock[k]
      BY <1>1, <2>3
    <3>2. \A k \in Resident : write_lock'[k] > 0 \/ k \in S \/ ~WriteLocked(k)
      BY <3>1, Zenon DEF WriteLocked
    <3>3. QED BY <2>4, <3>2
  <2>6. /\ order' = on_keys_created(order, S)
        /\ Resident \subseteq Resident'
    BY <2>2, <2>4
  <2>7. /\ Listing(order') /\ (Tracked \subseteq Resident)'
        /\ (~TTLExpires => EveryObjectEvictable)'
    BY <2>2, <2>5, <2>6, KeepingTracks
  <2>8. QED BY <2>7 DEF CacheInv
<1>5. CASE l1_delete(keys)
  <2>1. PICK S : S = delete_done(keys)
    OBVIOUS
  <2>2. S \in SUBSET Keys /\ DropObjects(S) /\ write_lock' = write_lock /\ order' = on_keys_removed(order, S)
    BY <1>5, <2>1 DEF l1_delete, delete, delete_done
  <2>3. Listing(order) /\ ToSet(order) = Tracked
    BY DEF CacheInv, Tracked
  <2>4. QED BY <2>2, <2>3, DroppingTracks DEF CacheInv
<1>6. ASSUME NEW force \in BOOLEAN, l1_clear(force) PROVE CacheInv'
  <2>1. PICK S : S = clear_done(force)
    OBVIOUS
  <2>2. /\ S \in SUBSET Keys /\ DropObjects(S) /\ order' = on_keys_removed(order, S)
        /\ \A k \in Keys \ S : write_lock'[k] = write_lock[k]
    BY <1>1, <1>6, <2>1 DEF l1_clear, clear, clear_done
  <2>3. Listing(order) /\ ToSet(order) = Tracked
    BY DEF CacheInv, Tracked
  <2>4. QED BY <2>2, <2>3, DroppingTracks DEF CacheInv
<1>7. ASSUME NEW temporary \in SUBSET keys, NEW mode \in Modes, l1_reserve_write(keys, temporary, mode)
      PROVE  CacheInv'
  <2>1. reserve_write(keys, temporary, mode) /\ order' = order
    BY <1>7 DEF l1_reserve_write
  <2>2. CASE reserve_write_allocated(keys, temporary, mode)
    <3>1. PICK absent : absent = reserve_write_absent(keys, mode)
      OBVIOUS
    <3>2. /\ \A k \in Keys \ absent : memory_obj'[k] = memory_obj[k] /\ write_lock'[k] >= write_lock[k]
          /\ \A k \in absent : k \notin Resident /\ write_lock'[k] > 0
      BY <1>1, <2>2, <3>1 DEF reserve_write_allocated, L1TypeOK, reserve_write_absent
    <3>3. Resident \subseteq Resident'
      BY <1>1, <3>2 DEF Resident
    <3>4. \A k \in Resident' : write_lock'[k] > 0 \/ (k \in Resident /\ ~WriteLocked(k))
      <4>1. \A k \in Resident' : k \in Keys /\ (k \in absent \/ k \in Resident)
        BY <3>2 DEF Resident
      <4>2. \A k \in Keys : write_lock[k] \in Nat /\ write_lock'[k] \in Nat
        BY <1>1 DEF L1TypeOK, L1Inv
      <4>3. QED BY <3>2, <4>1, <4>2 DEF WriteLocked
    <3>5. {} \in SUBSET Resident
      OBVIOUS
    <3>6. QED BY <2>1, <3>3, <3>4, <3>5, KeepingTracks DEF CacheInv
  <2>3. CASE reserve_write_oom(keys, mode)
    <3>1. memory_obj' = memory_obj /\ \A k \in Keys : write_lock'[k] >= write_lock[k]
      BY <1>1, <2>3 DEF reserve_write_oom, L1TypeOK
    <3>2. Resident' = Resident
      BY <3>1 DEF Resident
    <3>3. \A k \in Resident' : write_lock'[k] > 0 \/ (k \in Resident /\ ~WriteLocked(k))
      <4>1. \A k \in Keys : write_lock[k] \in Nat /\ write_lock'[k] \in Nat
        BY <1>1 DEF L1TypeOK, L1Inv
      <4>2. QED BY <1>1, <3>1, <3>2, <4>1 DEF WriteLocked
    <3>4. {} \in SUBSET Resident
      OBVIOUS
    <3>5. QED BY <2>1, <3>2, <3>3, <3>4, KeepingTracks DEF CacheInv
  <2>4. QED BY <2>1, <2>2, <2>3 DEF reserve_write
<1>8. QED BY <1>2, <1>3, <1>4, <1>5, <1>6, <1>7

\* Whoever calls, the calls keep the accounting of L1Manager.
LEMMA CacheNextL1 ==
    ASSUME L1Inv, CacheNext
    PROVE  L1Inv'
<1>1. ASSUME NEW keys \in SUBSET Keys, NEW n \in ExtraCounts,
             \/ l1_reserve_read(keys, n) \/ l1_finish_read(keys, n)
             \/ l1_finish_write_and_reserve_read(keys, n)
      PROVE  L1Inv'
  BY <1>1, ReserveReadPreserves, FinishReadPreserves, FinishWritePreserves, L1Assumption
     DEF l1_reserve_read, l1_finish_read, l1_finish_write_and_reserve_read
<1>2. ASSUME NEW keys \in SUBSET Keys, NEW temporary \in {{}, keys}, NEW mode \in Modes,
             l1_reserve_write(keys, temporary, mode)
      PROVE  L1Inv'
  <2>1. temporary \in SUBSET keys /\ reserve_write(keys, temporary, mode)
    BY <1>2 DEF l1_reserve_write
  <2>2. QED BY <2>1, ReserveWritePreserves
<1>3. ASSUME NEW keys \in SUBSET Keys, l1_finish_write(keys) PROVE L1Inv'
  BY <1>3, FinishWritePreserves DEF l1_finish_write
<1>4. ASSUME NEW keys, l1_delete(keys) PROVE L1Inv'
  BY <1>4, DeletePreserves DEF l1_delete
<1>5. ASSUME NEW force \in BOOLEAN, l1_clear(force) PROVE L1Inv'
  BY <1>5, ClearPreserves DEF l1_clear
<1>6. CASE Expire
  BY <1>6, ExpirePreserves DEF Expire
<1>7. CASE UNCHANGED l1vars
  <2>1. [L1Next]_l1vars
    BY <1>7
  <2>2. QED BY <2>1, NextPreserves
<1>8. pop_pending_keys \/ EvictionCheck \/ EvictionChoose => UNCHANGED l1vars
  BY DEF pop_pending_keys, EvictionCheck, EvictionChoose
<1>9. QED BY <1>1, <1>2, <1>3, <1>4, <1>5, <1>6, <1>7, <1>8 DEF CacheNext, Callers, EvictionLoop, EvictionExecute

\* Every step of the cache keeps both.
LEMMA OrderKept == CacheInv /\ [CacheNext]_cache_vars => CacheInv'
<1> SUFFICES ASSUME CacheInv, [CacheNext]_cache_vars PROVE CacheInv'
  OBVIOUS
<1>1. CASE UNCHANGED <<l1vars, order>>
  <2>1. L1Inv'
    <3>1. [L1Next]_l1vars /\ L1Inv
      BY <1>1 DEF CacheInv
    <3>2. QED BY <3>1, NextPreserves
  <2>2. UNCHANGED <<memory_obj, write_lock, order>>
    BY <1>1 DEF l1vars
  <2>3. QED BY <2>1, <2>2 DEF CacheInv, Tracked, Resident, EveryObjectEvictable, WriteLocked
<1>2. CASE CacheNext
  <2>1. L1Inv'
    BY <1>2, CacheNextL1 DEF CacheInv
  <2>2. ASSUME NEW keys \in SUBSET Keys, NEW n \in ExtraCounts,
               \/ l1_reserve_read(keys, n) \/ l1_finish_read(keys, n)
               \/ l1_finish_write_and_reserve_read(keys, n)
        PROVE  CacheInv'
    BY <2>1, <2>2, CallsTrack
  <2>3. ASSUME NEW keys \in SUBSET Keys, NEW temporary \in {{}, keys}, NEW mode \in Modes,
               l1_reserve_write(keys, temporary, mode)
        PROVE  CacheInv'
    <3>1. temporary \in SUBSET keys
      BY <2>3
    <3>2. QED BY <2>1, <2>3, <3>1, CallsTrack
  <2>4. ASSUME NEW keys \in SUBSET Keys, l1_finish_write(keys) \/ l1_delete(keys) PROVE CacheInv'
    BY <2>1, <2>4, CallsTrack
  <2>5. ASSUME NEW force \in BOOLEAN, l1_clear(force) PROVE CacheInv'
    <3>1. {} \in SUBSET Keys
      OBVIOUS
    <3>2. QED BY <2>1, <2>5, <3>1, CallsTrack
  <2>6. CASE Expire
    <3>1. TTLExpires /\ order' = order /\ memory_obj' = memory_obj
      BY <2>6 DEF Expire, ExpireWrite, ExpireRead
    <3>2. QED BY <2>1, <3>1 DEF CacheInv, Tracked, Resident
  <2>7. CASE EvictionExecute
    <3>1. PICK S : S = delete_done(victims)
      OBVIOUS
    <3>2. S \in SUBSET Keys /\ DropObjects(S) /\ write_lock' = write_lock /\ order' = on_keys_removed(order, S)
      BY <2>7, <3>1 DEF EvictionExecute, l1_delete, delete, delete_done, Resident
    <3>3. Listing(order) /\ ToSet(order) = Tracked
      BY DEF CacheInv, Tracked
    <3>4. QED BY <2>1, <3>2, <3>3, DroppingTracks DEF CacheInv
  <2>8. pop_pending_keys \/ EvictionCheck \/ EvictionChoose => UNCHANGED <<l1vars, order>>
    BY DEF pop_pending_keys, EvictionCheck, EvictionChoose
  <2>9. QED BY <1>1, <1>2, <2>2, <2>3, <2>4, <2>5, <2>6, <2>7, <2>8 DEF CacheNext, Callers, EvictionLoop
<1>3. QED BY <1>1, <1>2 DEF cache_vars

\* The invariant of every behaviour of the cache.
LEMMA CacheInvHolds == CacheSpec => []CacheInv
<1>1. CacheInit => CacheInv
  <2>1. SUFFICES ASSUME CacheInit PROVE CacheInv
    OBVIOUS
  <2>2. L1Inv
    BY <2>1, L1Assumption DEF CacheInit, L1Init, L1Inv, L1TypeOK, ReadersExcludeWriters, NoBufferShared,
           NoBufferLeaked, LocksOnResidentKeys, Locked, WriteLocked, ReadLocked, Resident
  <2>3. order = <<>> /\ memory_obj = [k \in Keys |-> NoObj]
    BY <2>1 DEF CacheInit, L1Init
  <2>4. Listing(order) /\ Tracked = {}
    <3>1. DOMAIN order = {} /\ order \in Seq(Keys)
      BY <2>3
    <3>2. QED BY <3>1 DEF Listing, IsInjective, Tracked, ToSet
  <2>5. QED BY <2>2, <2>3, <2>4 DEF CacheInv, EveryObjectEvictable, Resident
<1>2. QED BY <1>1, OrderKept, PTL DEF CacheSpec

\* The eviction policy names no key twice and none that has left the cache, by
\* whatever call: no victim is chosen that is not there.
THEOREM OrderIsTheCache == CacheSpec => []OrderFollowsCache
<1>1. CacheInv => OrderFollowsCache
  BY DEF CacheInv, Listing, OrderFollowsCache
<1>2. QED BY <1>1, CacheInvHolds, PTL

\* Every object that is not being written can be chosen as a victim, as long as
\* no write lock runs out: memory never fills up with objects nobody will evict.
THEOREM NothingEscapesEviction ==
    ASSUME ~TTLExpires
    PROVE  CacheSpec => []EveryObjectEvictable
<1>1. CacheInv => EveryObjectEvictable
  BY DEF CacheInv
<1>2. QED BY <1>1, CacheInvHolds, PTL

----------------------------------------------------------------------------
(* The cache implements the manager: the listeners take no part in a call,  *)
(* and the eviction thread is one more caller.                              *)

\* A call looks up the keys it is given: names of nothing make no difference.
LEMMA OnlyKeysMatter ==
    ASSUME NEW keys
    PROVE  /\ reserve_read_done(keys \cap Keys) = reserve_read_done(keys)
           /\ finish_read_done(keys \cap Keys) = finish_read_done(keys)
           /\ finish_write_done(keys \cap Keys) = finish_write_done(keys)
           /\ delete_done(keys \cap Keys) = delete_done(keys)
  BY DEF reserve_read_done, finish_read_done, finish_write_done, delete_done, Resident

\* Every step of the cache is a call into the manager, a lock that runs out, or
\* leaves the manager alone.
LEMMA CacheStepIsManagerStep == [CacheNext]_cache_vars => [L1Next]_l1vars
<1> SUFFICES ASSUME [CacheNext]_cache_vars PROVE [L1Next]_l1vars
  OBVIOUS
<1>1. ASSUME NEW keys \in SUBSET Keys, NEW n \in ExtraCounts,
             \/ l1_reserve_read(keys, n) \/ l1_finish_read(keys, n)
             \/ l1_finish_write_and_reserve_read(keys, n)
      PROVE  L1Next
  BY <1>1 DEF l1_reserve_read, l1_finish_read, l1_finish_write_and_reserve_read, L1Next
<1>2. ASSUME NEW keys \in SUBSET Keys, NEW temporary \in {{}, keys}, NEW mode \in Modes,
             l1_reserve_write(keys, temporary, mode)
      PROVE  L1Next
  <2>1. temporary \in SUBSET keys /\ reserve_write(keys, temporary, mode)
    BY <1>2 DEF l1_reserve_write
  <2>2. QED BY <2>1 DEF L1Next
<1>3. ASSUME NEW keys \in SUBSET Keys, l1_finish_write(keys) PROVE L1Next
  BY <1>3 DEF l1_finish_write, L1Next
<1>4. ASSUME NEW keys, l1_delete(keys) PROVE L1Next
  <2>1. delete(keys \cap Keys)
    BY <1>4, OnlyKeysMatter DEF l1_delete, delete
  <2>2. QED BY <2>1 DEF L1Next
<1>5. ASSUME NEW force \in BOOLEAN, l1_clear(force) PROVE L1Next
  BY <1>5 DEF l1_clear, L1Next
<1>6. CASE Expire
  BY <1>6 DEF Expire, L1Next
<1>7. pop_pending_keys \/ EvictionCheck \/ EvictionChoose \/ UNCHANGED cache_vars => UNCHANGED l1vars
  BY DEF pop_pending_keys, EvictionCheck, EvictionChoose, cache_vars
<1>8. QED BY <1>1, <1>2, <1>3, <1>4, <1>5, <1>6, <1>7
         DEF CacheNext, Callers, EvictionLoop, EvictionExecute

\* L1Manager with its listeners and the eviction thread is an L1Manager: what
\* is proved of the manager in an open environment holds of the cache.
THEOREM CacheImplementsManager == CacheSpec => L1Spec
<1>1. CacheInit => L1Init
  BY DEF CacheInit
<1>2. QED BY <1>1, CacheStepIsManagerStep, PTL DEF CacheSpec, L1Spec
=============================================================================
