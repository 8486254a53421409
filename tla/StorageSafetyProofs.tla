------------------------ MODULE StorageSafetyProofs -------------------------
(* The storage manager: the locks its threads hold in L1, and the data they *)
(* protect.                                                                 *)
(*                                                                          *)
(* SafeInv is L2Inv with the count of the read locks, the write lock of     *)
(* every key being written and its one writer (WritersOwn), and the buffers *)
(* that stores, loads and copies were given (BuffersBound): a buffer stays  *)
(* bound to its key only while the key is locked, and a lock lasts only     *)
(* while nobody gives back one it does not hold.  LocksLast states when     *)
(* that is: L1Manager drops locks of its own accord when their TTL runs     *)
(* out, when clear is forced, and when the extra_count of a reader is cut   *)
(* at MAX_READ_LOCK_COUNT.  DataInv adds what the buffers contain.          *)
EXTENDS StorageManagerProofs

----------------------------------------------------------------------------
(* The holders of the read locks.                                           *)

\* The locks of one key that each client, and each prefetch, holds, as functions to
\* be summed.
ClientHeld(k) == [c \in Requests |-> ClientHolds(c, k)]
PrefetchHeld(k) == [r \in Requests |-> PrefetchHolds(r, k)]

\* The sum in ReadLocksAccounted over the clients is one of those of SumOver.
LEMMA ClientSum ==
    ASSUME NEW k
    PROVE  MapThenSumSet(LAMBDA c : ClientHolds(c, k), Requests) = SumOver(ClientHeld(k), Requests)
<1> DEFINE h == ClientHeld(k)
           Q(f) == f = [s \in SUBSET Requests |->
                          IF s = {} THEN 0
                          ELSE ClientHolds(Eldest(s), k) + f[s \ {Eldest(s)}]]
<1>1. \A s \in SUBSET Requests : s # {} => h[Eldest(s)] = ClientHolds(Eldest(s), k)
  BY DEF Eldest, ClientHeld
<1>2. ASSUME NEW f PROVE Q(f) <=> SumEquation(f, h, Requests)
  <2>1. [s \in SUBSET Requests |-> IF s = {} THEN 0
                                   ELSE ClientHolds(Eldest(s), k) + f[s \ {Eldest(s)}]]
        = [s \in SUBSET Requests |-> IF s = {} THEN 0 ELSE h[Eldest(s)] + f[s \ {Eldest(s)}]]
    <3> HIDE DEF h
    <3>1. QED BY <1>1
  <2>2. QED BY <2>1 DEF SumEquation
<1>3. (CHOOSE f : Q(f)) = (CHOOSE f : SumEquation(f, h, Requests))
  <2> HIDE DEF Q, h
  <2>1. QED BY <1>2
<1>4. MapThenSumSet(LAMBDA c : ClientHolds(c, k), Requests) = (CHOOSE f : Q(f))[Requests]
  BY DEF MapThenSumSet, MapThenFoldSet, Eldest
<1>5. SumOver(h, Requests) = (CHOOSE f : SumEquation(f, h, Requests))[Requests]
  BY DEF SumOver, SumEquation, Eldest, MapThenSumSet, MapThenFoldSet
<1>6. QED BY <1>3, <1>4, <1>5

\* The same for the prefetches.
LEMMA PrefetchSum ==
    ASSUME NEW k
    PROVE  MapThenSumSet(LAMBDA r : PrefetchHolds(r, k), Requests) = SumOver(PrefetchHeld(k), Requests)
<1> DEFINE h == PrefetchHeld(k)
           Q(f) == f = [s \in SUBSET Requests |->
                          IF s = {} THEN 0
                          ELSE PrefetchHolds(Eldest(s), k) + f[s \ {Eldest(s)}]]
<1>1. \A s \in SUBSET Requests : s # {} => h[Eldest(s)] = PrefetchHolds(Eldest(s), k)
  BY DEF Eldest, PrefetchHeld
<1>2. ASSUME NEW f PROVE Q(f) <=> SumEquation(f, h, Requests)
  <2>1. [s \in SUBSET Requests |-> IF s = {} THEN 0
                                   ELSE PrefetchHolds(Eldest(s), k) + f[s \ {Eldest(s)}]]
        = [s \in SUBSET Requests |-> IF s = {} THEN 0 ELSE h[Eldest(s)] + f[s \ {Eldest(s)}]]
    <3> HIDE DEF h
    <3>1. QED BY <1>1
  <2>2. QED BY <2>1 DEF SumEquation
<1>3. (CHOOSE f : Q(f)) = (CHOOSE f : SumEquation(f, h, Requests))
  <2> HIDE DEF Q, h
  <2>1. QED BY <1>2
<1>4. MapThenSumSet(LAMBDA r : PrefetchHolds(r, k), Requests) = (CHOOSE f : Q(f))[Requests]
  BY DEF MapThenSumSet, MapThenFoldSet, Eldest
<1>5. SumOver(h, Requests) = (CHOOSE f : SumEquation(f, h, Requests))[Requests]
  BY DEF SumOver, SumEquation, Eldest, MapThenSumSet, MapThenFoldSet
<1>6. QED BY <1>3, <1>4, <1>5

\* The three sums of ReadLocksAccounted.
Holds(k) == SumOver(ClientHeld(k), Requests) + SumOver(PrefetchHeld(k), Requests) + StoreHolds(k)

\* ReadLocksAccounted written with SumOver. Either direction is used on its own.
LEMMA AccountedSums ==
    /\ ReadLocksAccounted => \A k \in Keys : read_lock[k] = Holds(k)
    /\ (\A k \in Keys : read_lock[k] = Holds(k)) => ReadLocksAccounted
<1>1. ASSUME NEW k \in Keys
      PROVE  Holds(k) = MapThenSumSet(LAMBDA c : ClientHolds(c, k), Requests)
                        + MapThenSumSet(LAMBDA r : PrefetchHolds(r, k), Requests)
                        + StoreHolds(k)
  <2>1. MapThenSumSet(LAMBDA c : ClientHolds(c, k), Requests) = SumOver(ClientHeld(k), Requests)
    BY ClientSum
  <2>2. MapThenSumSet(LAMBDA r : PrefetchHolds(r, k), Requests) = SumOver(PrefetchHeld(k), Requests)
    BY PrefetchSum
  <2>3. QED BY <2>1, <2>2, Zenon DEF Holds
<1>2. ASSUME ReadLocksAccounted, NEW k \in Keys PROVE read_lock[k] = Holds(k)
  <2>1. read_lock[k] = MapThenSumSet(LAMBDA c : ClientHolds(c, k), Requests)
                        + MapThenSumSet(LAMBDA r : PrefetchHolds(r, k), Requests)
                        + StoreHolds(k)
    BY <1>2, Zenon DEF ReadLocksAccounted
  <2>2. QED BY <1>1, <2>1, Zenon
<1>3. ASSUME \A k \in Keys : read_lock[k] = Holds(k) PROVE ReadLocksAccounted
  <2>1. SUFFICES ASSUME NEW k \in Keys
                 PROVE  read_lock[k] = MapThenSumSet(LAMBDA c : ClientHolds(c, k), Requests)
                                       + MapThenSumSet(LAMBDA r : PrefetchHolds(r, k), Requests)
                                       + StoreHolds(k)
    BY Zenon DEF ReadLocksAccounted
  <2>2. QED BY <1>1, <1>3, Zenon
<1>4. QED BY <1>2, <1>3

\* The same after a step.
LEMMA AccountedSumsNext ==
    (\A k \in Keys : read_lock[k] = Holds(k))' => ReadLocksAccounted'
<1>1. (\A k \in Keys : read_lock[k] = Holds(k)) => ReadLocksAccounted
  BY AccountedSums
<1>2. QED BY <1>1, PTL

----------------------------------------------------------------------------
(* What a client and a prefetch request count on, from their records.       *)

\* What a client, and a prefetch, holds of key k, as a function of its record.
Keeps(state, k) ==
    IF state.op \in {"looking", "waiting"} /\ k \in state.held \cup state.skipped THEN NumWorkers
    ELSE IF state.op = "ready" /\ k \in state.held THEN state.left + state.reading
    ELSE 0

Publishes(req, k) ==
    IF \/ req.phase \in {"finish_failed", "delete_failed", "release"} /\ k \in req.loaded
       \/ req.phase = "done" /\ k \in Prefix(req.keys, req.loaded)
      THEN NumWorkers ELSE 0

\* The records of two states compared: the holders of the invariant are those
\* functions.
LEMMA HoldsAre ==
    ASSUME NEW c \in Requests, NEW k
    PROVE  /\ ClientHolds(c, k) = Keeps(client[c], k) /\ ClientHolds(c, k)' = Keeps(client'[c], k)
           /\ PrefetchHolds(c, k) = Publishes(request[c], k)
           /\ PrefetchHolds(c, k)' = Publishes(request'[c], k)
<1>1. ClientHolds(c, k) = Keeps(client[c], k) /\ ClientHolds(c, k)' = Keeps(client'[c], k)
  BY DEF ClientHolds, Keeps
<1>2. /\ PrefetchHolds(c, k) = Publishes(request[c], k)
      /\ PrefetchHolds(c, k)' = Publishes(request'[c], k)
  BY DEF PrefetchHolds, Publishes, Finalizing, ResultReady, prefix_hits
<1>3. QED BY <1>1, <1>2

\* Every holder holds a natural number of locks.
LEMMA HoldsNat ==
    ASSUME ManagerTypeOK, NEW k
    PROVE  /\ ClientHeld(k) \in [Requests -> Nat] /\ PrefetchHeld(k) \in [Requests -> Nat]
           /\ StoreHolds(k) \in Nat
<1>1. ASSUME NEW c \in Requests PROVE ClientHolds(c, k) \in Nat /\ PrefetchHolds(c, k) \in Nat
  <2>1. client[c].left \in Nat /\ client[c].reading \in Nat /\ NumWorkers \in Nat
    BY PrefetchAssumption DEF ManagerTypeOK, Clients
  <2>2. Keeps(client[c], k) \in Nat
    BY <2>1 DEF Keeps
  <2>3. Publishes(request[c], k) \in Nat
    BY <2>1 DEF Publishes
  <2>4. QED BY <2>2, <2>3, HoldsAre
<1>2. StoreHolds(k) \in Nat
  <2>1. IsFiniteSet({s \in StoreTasks : k \in store_task[s].keys})
    BY L2Assumption, FS_Subset
  <2>2. QED BY <2>1, FS_CardinalityType DEF StoreHolds
<1>3. QED BY <1>1, <1>2 DEF ClientHeld, PrefetchHeld

\* The same, in the next state.
LEMMA HoldsNatNext ==
    ASSUME ManagerTypeOK', NEW k
    PROVE  /\ ClientHeld(k)' \in [Requests -> Nat] /\ PrefetchHeld(k)' \in [Requests -> Nat]
           /\ StoreHolds(k)' \in Nat
<1>1. ASSUME NEW c \in Requests PROVE ClientHolds(c, k)' \in Nat /\ PrefetchHolds(c, k)' \in Nat
  <2>1. client'[c].left \in Nat /\ client'[c].reading \in Nat /\ NumWorkers \in Nat
    BY PrefetchAssumption DEF ManagerTypeOK, Clients
  <2>2. Keeps(client'[c], k) \in Nat
    BY <2>1 DEF Keeps
  <2>3. Publishes(request'[c], k) \in Nat
    BY <2>1 DEF Publishes
  <2>4. QED BY <2>2, <2>3, HoldsAre
<1>2. StoreHolds(k)' \in Nat
  <2>1. IsFiniteSet({s \in StoreTasks : k \in store_task'[s].keys})
    BY L2Assumption, FS_Subset
  <2>2. QED BY <2>1, FS_CardinalityType DEF StoreHolds
<1>3. QED BY <1>1, <1>2 DEF ClientHeld, PrefetchHeld

\* A key has at least the locks that one of its holders counts on.
LEMMA HoldersCovered ==
    ASSUME ManagerTypeOK, ReadLocksAccounted, NEW k \in Keys
    PROVE  /\ \A c \in Requests : /\ ClientHolds(c, k) \in Nat /\ ClientHolds(c, k) <= read_lock[k]
                                  /\ PrefetchHolds(c, k) \in Nat /\ PrefetchHolds(c, k) <= read_lock[k]
           /\ StoreHolds(k) \in Nat /\ StoreHolds(k) <= read_lock[k]
<1>1. PICK cs \in Nat, ps \in Nat, ss \in Nat :
         /\ cs = SumOver(ClientHeld(k), Requests) /\ \A c \in Requests : ClientHeld(k)[c] <= cs
         /\ ps = SumOver(PrefetchHeld(k), Requests) /\ \A c \in Requests : PrefetchHeld(k)[c] <= ps
         /\ ss = StoreHolds(k)
  BY HoldsNat, SumNat, L2Assumption
<1>2. read_lock[k] = cs + ps + ss
  BY <1>1, AccountedSums DEF Holds
<1>3. ASSUME NEW c \in Requests
      PROVE  /\ ClientHolds(c, k) \in Nat /\ ClientHolds(c, k) <= cs
             /\ PrefetchHolds(c, k) \in Nat /\ PrefetchHolds(c, k) <= ps
  BY <1>1, HoldsNat DEF ClientHeld, PrefetchHeld
<1>4. ASSUME NEW n \in Nat, n <= cs \/ n <= ps \/ n <= ss PROVE n <= read_lock[k]
  BY <1>2, <1>4
<1>5. QED BY <1>1, <1>3, <1>4

\* A step in which one client and its request move, with the read locks.
LEMMA AccountedStep ==
    ASSUME ManagerTypeOK, ManagerTypeOK', ReadLocksAccounted, NEW c \in Requests,
           \A x \in Requests \ {c} : client'[x] = client[x] /\ request'[x] = request[x],
           \A k \in Keys : StoreHolds(k)' = StoreHolds(k),
           \A k \in Keys : /\ read_lock[k] \in Nat /\ read_lock'[k] \in Nat
                           /\ read_lock'[k] + ClientHolds(c, k) + PrefetchHolds(c, k) =
                              read_lock[k] + ClientHolds(c, k)' + PrefetchHolds(c, k)'
    PROVE  ReadLocksAccounted'
<1>1. ASSUME NEW k \in Keys PROVE read_lock'[k] = Holds(k)'
  <2>1. \A x \in Requests \ {c} : /\ ClientHeld(k)'[x] = ClientHeld(k)[x]
                                  /\ PrefetchHeld(k)'[x] = PrefetchHeld(k)[x]
    BY HoldsAre DEF ClientHeld, PrefetchHeld
  <2>2. /\ ClientHeld(k) \in [Requests -> Nat] /\ ClientHeld(k)' \in [Requests -> Nat]
        /\ PrefetchHeld(k) \in [Requests -> Nat] /\ PrefetchHeld(k)' \in [Requests -> Nat]
    BY HoldsNat, HoldsNatNext
  <2>3. PICK cs \in Nat, cs1 \in Nat, ps \in Nat, ps1 \in Nat, ss \in Nat :
            /\ cs = SumOver(ClientHeld(k), Requests) /\ cs1 = SumOver(ClientHeld(k)', Requests)
            /\ ps = SumOver(PrefetchHeld(k), Requests) /\ ps1 = SumOver(PrefetchHeld(k)', Requests)
            /\ ss = StoreHolds(k)
    BY <2>2, HoldsNat, SumNat, L2Assumption
  <2>4. PICK h \in Nat, h1 \in Nat, p \in Nat, p1 \in Nat :
            /\ h = ClientHolds(c, k) /\ h1 = ClientHolds(c, k)'
            /\ p = PrefetchHolds(c, k) /\ p1 = PrefetchHolds(c, k)'
    BY <2>2 DEF ClientHeld, PrefetchHeld
  <2>5. cs1 + h = cs + h1
    <3>1. SumOver(ClientHeld(k)', Requests) + ClientHeld(k)[c] =
              SumOver(ClientHeld(k), Requests) + ClientHeld(k)'[c]
      BY <2>1, <2>2, SumChange, L2Assumption
    <3>2. ClientHeld(k)[c] = h /\ ClientHeld(k)'[c] = h1
      BY <2>4 DEF ClientHeld
    <3>3. QED BY <2>3, <3>1, <3>2
  <2>6. ps1 + p = ps + p1
    <3>1. SumOver(PrefetchHeld(k)', Requests) + PrefetchHeld(k)[c] =
              SumOver(PrefetchHeld(k), Requests) + PrefetchHeld(k)'[c]
      BY <2>1, <2>2, SumChange, L2Assumption
    <3>2. PrefetchHeld(k)[c] = p /\ PrefetchHeld(k)'[c] = p1
      BY <2>4 DEF PrefetchHeld
    <3>3. QED BY <2>3, <3>1, <3>2
  <2>7. PICK l \in Nat, l1 \in Nat : l = read_lock[k] /\ l1 = read_lock'[k]
    OBVIOUS
  <2>8. l = cs + ps + ss
    BY <2>3, <2>7, AccountedSums DEF Holds
  <2>9. l1 + h + p = l + h1 + p1
    BY <2>4, <2>7
  <2>10. l1 = cs1 + ps1 + ss
    BY <2>5, <2>6, <2>8, <2>9
  <2>11. Holds(k)' = cs1 + ps1 + ss
    BY <2>3 DEF Holds
  <2>12. QED BY <2>7, <2>10, <2>11
<1>2. QED BY <1>1, AccountedSumsNext

\* A step in which only the store tasks move, with the read locks.
LEMMA AccountedTaskStep ==
    ASSUME ManagerTypeOK, ManagerTypeOK', ReadLocksAccounted, UNCHANGED <<client, request>>,
           \A k \in Keys : /\ read_lock[k] \in Nat /\ read_lock'[k] \in Nat
                           /\ read_lock'[k] + StoreHolds(k) = read_lock[k] + StoreHolds(k)'
    PROVE  ReadLocksAccounted'
<1>1. ASSUME NEW k \in Keys PROVE read_lock'[k] = Holds(k)'
  <2>1. ClientHeld(k)' = ClientHeld(k) /\ PrefetchHeld(k)' = PrefetchHeld(k)
    BY HoldsAre DEF ClientHeld, PrefetchHeld
  <2>2. PICK cs \in Nat, ps \in Nat, ss \in Nat, ss1 \in Nat :
            /\ cs = SumOver(ClientHeld(k), Requests) /\ ps = SumOver(PrefetchHeld(k), Requests)
            /\ ss = StoreHolds(k) /\ ss1 = StoreHolds(k)'
    BY HoldsNat, HoldsNatNext, SumNat, L2Assumption
  <2>3. PICK l \in Nat, l1 \in Nat : l = read_lock[k] /\ l1 = read_lock'[k]
    OBVIOUS
  <2>4. l = cs + ps + ss
    BY <2>2, <2>3, AccountedSums DEF Holds
  <2>5. l1 + ss = l + ss1
    BY <2>2, <2>3
  <2>6. l1 = cs + ps + ss1
    BY <2>4, <2>5
  <2>7. Holds(k)' = cs + ps + ss1
    BY <2>1, <2>2 DEF Holds
  <2>8. QED BY <2>3, <2>6, <2>7
<1>2. QED BY <1>1, AccountedSumsNext

----------------------------------------------------------------------------
(* The calls into L1Manager, made by callers that have the locks.           *)

\* Locks last until they are given back: the TTL is long enough, nobody forces
\* a clear, and the clamp on extra_count is not met.
LocksLast == ~TTLExpires /\ TRUE \notin ClearModes /\ NumWorkers <= MAX_READ_LOCK_COUNT

\* The number of locks a reader takes and gives back is not cut by the clamp of
\* extra_count.
LEMMA WorkerLocks ==
    ASSUME LocksLast
    PROVE  /\ Total(NumWorkers - 1) = NumWorkers /\ Total(0) = 1
           /\ NumWorkers \in Nat \ {0} /\ NumWorkers - 1 \in Int
<1>1. NumWorkers \in Nat \ {0} /\ MAX_READ_LOCK_COUNT \in Nat \ {0} /\ NumWorkers <= MAX_READ_LOCK_COUNT
  BY PrefetchAssumption, L1Assumption DEF LocksLast
<1>2. validate_extra_count(0) = 0 /\ validate_extra_count(NumWorkers - 1) = NumWorkers - 1
  BY <1>1 DEF validate_extra_count
<1>3. QED BY <1>1, <1>2 DEF Total

\* As long as a key is locked, its buffer is not taken away.
BufferStays == \A k \in Keys : Locked(k) /\ Locked(k)' => memory_obj'[k] = memory_obj[k]

\* reserve_read: what it did grows by the locks taken, nothing else moves.
LEMMA TakeLocks ==
    ASSUME L1Inv, NEW keys, NEW n \in Int, reserve_read(keys, n)
    PROVE  /\ \A k \in reserve_read_done(keys) : read_lock'[k] = read_lock[k] + Total(n)
           /\ \A k \in Keys \ reserve_read_done(keys) : read_lock'[k] = read_lock[k]
           /\ reserve_read_done(keys) \subseteq Keys
           /\ \A k \in reserve_read_done(keys) : k \in Resident /\ ~WriteLocked(k)
           /\ UNCHANGED <<memory_obj, write_lock>> /\ BufferStays
<1>1. reserve_read_done(keys) \subseteq Keys
  BY DEF reserve_read_done, Resident
<1>2. QED BY <1>1 DEF reserve_read, BufferStays, reserve_read_done, available_for_read

\* finish_read of keys that carry enough locks: each loses just that many.
LEMMA GiveBack ==
    ASSUME L1Inv, NEW keys \in SUBSET Keys, NEW n \in Int, finish_read(keys, n),
           \A k \in keys : read_lock[k] >= Total(n)
    PROVE  /\ \A k \in keys : read_lock'[k] = read_lock[k] - Total(n)
           /\ \A k \in Keys \ keys : read_lock'[k] = read_lock[k]
           /\ write_lock' = write_lock /\ BufferStays
<1>1. Total(n) \in Nat \ {0}
  BY TotalBounded, L1Assumption
<1>2. \A k \in Keys : read_lock[k] \in Nat
  BY DEF L1Inv, L1TypeOK
<1>3. keys = finish_read_done(keys)
  <2>1. ASSUME NEW k \in keys PROVE ReadLocked(k)
    BY <1>1, <1>2 DEF ReadLocked
  <2>2. ASSUME NEW k \in keys PROVE k \in Resident /\ ~WriteLocked(k)
    BY <2>1 DEF L1Inv, LocksOnResidentKeys, ReadersExcludeWriters, Locked
  <2>3. QED BY <2>1, <2>2 DEF finish_read_done
<1>4. /\ read_lock' = [k \in Keys |-> IF k \in keys THEN Released(read_lock[k], Total(n)) ELSE read_lock[k]]
      /\ DropObjects(finish_read_deleted(keys, n)) /\ write_lock' = write_lock
  BY <1>3 DEF finish_read
<1>5. ASSUME NEW k \in keys PROVE read_lock'[k] = read_lock[k] - Total(n)
  <2>1. read_lock'[k] = Released(read_lock[k], Total(n))
    BY <1>4
  <2>2. read_lock[k] \in Nat /\ read_lock[k] >= Total(n)
    BY <1>2
  <2>3. QED BY <1>1, <2>1, <2>2 DEF Released
<1>6. BufferStays
  <2>1. SUFFICES ASSUME NEW k \in Keys, Locked(k), Locked(k)' PROVE memory_obj'[k] = memory_obj[k]
    BY DEF BufferStays
  <2>2. k \notin finish_read_deleted(keys, n)
    <3>1. SUFFICES ASSUME k \in finish_read_deleted(keys, n) PROVE FALSE
      OBVIOUS
    <3>2. k \in keys /\ ~WriteLocked(k) /\ Released(read_lock[k], Total(n)) = 0
      BY <1>3, <3>1 DEF finish_read_deleted, finish_read_done
    <3>3. read_lock'[k] = 0 /\ ~(write_lock'[k] > 0)
      BY <1>4, <3>2 DEF WriteLocked
    <3>4. QED BY <2>1, <3>3 DEF Locked, WriteLocked, ReadLocked
  <2>3. QED BY <1>4, <2>2 DEF DropObjects
<1>7. QED BY <1>4, <1>5, <1>6

\* Write locks are given up by the caller that holds them.
LEMMA FinishWriting ==
    ASSUME L1Inv, NEW keys \in SUBSET Keys, \A k \in keys : WriteLocked(k), finish_write(keys)
    PROVE  /\ \A k \in Keys \ keys : write_lock'[k] = write_lock[k]
           /\ UNCHANGED <<memory_obj, read_lock, allocated>> /\ BufferStays
  BY DEF finish_write, finish_write_done, BufferStays

\* The same with read locks taken in the place of the write locks.
LEMMA FinishWritingReading ==
    ASSUME L1Inv, NEW keys \in SUBSET Keys, NEW n \in Int, \A k \in keys : WriteLocked(k),
           finish_write_and_reserve_read(keys, n)
    PROVE  /\ \A k \in Keys \ keys : write_lock'[k] = write_lock[k]
           /\ \A k \in keys : read_lock'[k] = read_lock[k] + Total(n)
           /\ \A k \in Keys \ keys : read_lock'[k] = read_lock[k]
           /\ UNCHANGED <<memory_obj, allocated>> /\ BufferStays
<1>1. keys = finish_write_done(keys)
  <2>1. ASSUME NEW k \in keys PROVE k \in Resident /\ WriteLocked(k) /\ ~ReadLocked(k)
    BY DEF L1Inv, LocksOnResidentKeys, ReadersExcludeWriters, Locked
  <2>2. QED BY <2>1 DEF finish_write_done
<1>2. QED BY <1>1 DEF finish_write_and_reserve_read, BufferStays

\* Deletion and an unforced clear take unlocked objects only.
LEMMA Dropping ==
    ASSUME L1Inv, NEW keys, delete(keys) \/ clear(FALSE)
    PROVE  /\ \A k \in Keys : read_lock'[k] = read_lock[k] /\ write_lock'[k] = write_lock[k]
           /\ \A k \in Keys : Locked(k) => memory_obj'[k] = memory_obj[k]
           /\ BufferStays
<1>1. CASE delete(keys)
  BY <1>1 DEF delete, delete_done, DropObjects, BufferStays
<1>2. CASE clear(FALSE)
  <2>1. \A k \in clear_done(FALSE) : read_lock[k] = 0 /\ write_lock[k] = 0
    BY DEF clear_done, Resident, Locked, WriteLocked, ReadLocked, L1Inv, L1TypeOK
  <2>2. \A k \in Keys : read_lock'[k] = read_lock[k] /\ write_lock'[k] = write_lock[k]
    BY <1>2, <2>1 DEF clear
  <2>3. QED BY <1>2, <2>2 DEF clear, clear_done, DropObjects, BufferStays
<1>3. QED BY <1>1, <1>2

\* A reservation of absent keys locks keys that nobody had locked.
LEMMA ReserveStays ==
    ASSUME L1Inv, NEW keys \in SUBSET Keys, NEW temporary, reserve_write(keys, temporary, "new")
    PROVE  BufferStays
  BY ReserveNew DEF BufferStays

----------------------------------------------------------------------------
(* Who has the write locks, and who counts on which buffer.                 *)

\* The keys a client or its prefetch request has reserved and not finished.
Owns(c) ==
    IF client[c].op = "storing" THEN client[c].held
    ELSE IF request[c].phase = "load" THEN request[c].reserved
    ELSE IF request[c].phase = "finish_failed" THEN request[c].reserved \ request[c].loaded
    ELSE {}

\* Every key being written is write-locked, and has one writer.
WritersOwn ==
    /\ \A c \in Requests : \A k \in Owns(c) : WriteLocked(k)
    /\ \A c, d \in Requests : c # d => Owns(c) \cap Owns(d) = {}

\* What a copy, a load or a store was given is still the buffer of the key.
BuffersBound ==
    /\ \A c \in Requests : client[c].op = "storing" =>
        \A k \in client[c].held : memory_obj[k] = client[c].objs[k]
    /\ \A r \in Requests, a \in Adapters : load_task[r][a].status # "none" =>
        \A k \in load_task[r][a].keys : memory_obj[k] = load_task[r][a].objs[k]
    /\ \A s \in StoreTasks : \A k \in store_task[s].keys : memory_obj[k] = store_task[s].objs[k]

\* The owned keys are keys.
LEMMA OwnsKeys ==
    ASSUME ManagerTypeOK, NEW c \in Requests
    PROVE  Owns(c) \in SUBSET Keys
  BY DEF Owns, ManagerTypeOK, RequestTypeOK, Clients, Prefetches

\* One client or its request moves; it gives up write locks of its own or takes
\* some that nobody had.
LEMMA OwnStep ==
    ASSUME ManagerTypeOK, WritersOwn, NEW c \in Requests,
           \A x \in Requests \ {c} : client'[x] = client[x] /\ request'[x] = request[x],
           \A k \in Keys \ Owns(c) : write_lock[k] > 0 => write_lock'[k] > 0,
           \A k \in Owns(c)' : /\ write_lock'[k] > 0
                               /\ k \in Owns(c) \/ ~WriteLocked(k)
    PROVE  WritersOwn'
<1>1. \A x \in Requests \ {c} : Owns(x)' = Owns(x) /\ Owns(x) \in SUBSET Keys
  BY OwnsKeys DEF Owns
<1>2. \A x \in Requests \ {c} : \A k \in Owns(x) : write_lock[k] > 0 /\ k \notin Owns(c)
  BY DEF WritersOwn, WriteLocked
<1>3. \A x \in Requests \ {c} : \A k \in Owns(x) : write_lock'[k] > 0
  BY <1>1, <1>2
<1>4. \A x \in Requests : \A k \in Owns(x)' : WriteLocked(k)'
  BY <1>1, <1>3 DEF WriteLocked
<1>5. \A x \in Requests \ {c} : Owns(x)' \cap Owns(c)' = {}
  BY <1>1, <1>2 DEF WriteLocked
<1>6. \A x, y \in Requests \ {c} : x # y => Owns(x)' \cap Owns(y)' = {}
  BY <1>1 DEF WritersOwn
<1>7. \A x, y \in Requests : x # y => Owns(x)' \cap Owns(y)' = {}
  BY <1>5, <1>6
<1>8. QED BY <1>4, <1>7 DEF WritersOwn

\* Nobody who writes moves.
LEMMA OwnFrame ==
    ASSUME WritersOwn, UNCHANGED <<client, request>>,
           \A k \in Keys : write_lock'[k] = write_lock[k], ManagerTypeOK
    PROVE  WritersOwn'
<1>1. \A x \in Requests : Owns(x)' = Owns(x) /\ Owns(x) \in SUBSET Keys
  BY OwnsKeys DEF Owns
<1>2. QED BY <1>1 DEF WritersOwn, WriteLocked

\* The inductive invariant of the L1 locks.
SafeInv == L2Inv /\ WritersOwn /\ ReadLocksAccounted /\ BuffersBound

\* The parts of SafeInv that the locks carry through a step.
LocksKept == WritersOwn' /\ ReadLocksAccounted' /\ BufferStays

\* Its parts, and the types, ready to cite.
LEMMA SafeParts ==
    ASSUME SafeInv
    PROVE  /\ L1Inv /\ ManagerTypeOK /\ Protocol /\ TasksOK /\ RequestsOK /\ ClientsOK
           /\ WritersOwn /\ ReadLocksAccounted /\ BuffersBound
           /\ client \in [Requests -> Clients] /\ request \in [Requests -> Prefetches]
           /\ read_lock \in [Keys -> Nat] /\ write_lock \in [Keys -> Nat]
  BY DEF SafeInv, L2Inv, Protocol, ManagerTypeOK, RequestTypeOK, L1Inv, L1TypeOK

\* A client that waits for no prefetch has none.
LEMMA NoPrefetch ==
    ASSUME SafeInv, NEW c \in Requests, client[c].op # "waiting"
    PROVE  /\ request[c] = NoRequest /\ request[c].phase = "none"
           /\ \A k : PrefetchHolds(c, k) = 0
<1>1. request[c] = NoRequest
  BY SafeParts DEF RequestsOK
<1>2. request[c].phase = "none"
  BY <1>1 DEF NoRequest
<1>3. QED BY <1>1, <1>2, HoldsAre DEF Publishes

----------------------------------------------------------------------------
(* The clients.                                                             *)

\* A client moves alone, with the read locks it counts on.
LEMMA LoneHolder ==
    ASSUME SafeInv, ManagerTypeOK', NEW c \in Requests, NEW state, client[c].op # "waiting",
           Becomes(c, state), UNCHANGED <<request, store_task>>,
           \A k \in Keys : /\ read_lock'[k] \in Nat
                           /\ read_lock'[k] + Keeps(client[c], k) = read_lock[k] + Keeps(state, k)
    PROVE  ReadLocksAccounted'
<1>1. /\ client'[c] = state
      /\ \A x \in Requests \ {c} : client'[x] = client[x] /\ request'[x] = request[x]
  BY SafeParts DEF Becomes
<1>2. \A k \in Keys : StoreHolds(k)' = StoreHolds(k)
  BY DEF StoreHolds
<1>3. ASSUME NEW k \in Keys
      PROVE  /\ read_lock[k] \in Nat /\ read_lock'[k] \in Nat
             /\ read_lock'[k] + ClientHolds(c, k) + PrefetchHolds(c, k) =
                read_lock[k] + ClientHolds(c, k)' + PrefetchHolds(c, k)'
  <2>1. PrefetchHolds(c, k) = 0 /\ PrefetchHolds(c, k)' = 0
    BY NoPrefetch, HoldsAre
  <2>2. ClientHolds(c, k) = Keeps(client[c], k) /\ ClientHolds(c, k)' = Keeps(state, k)
    BY <1>1, HoldsAre
  <2>3. ClientHolds(c, k) \in Nat /\ ClientHolds(c, k)' \in Nat
    BY SafeParts, HoldsNat, HoldsNatNext DEF ClientHeld
  <2>4. read_lock[k] \in Nat /\ read_lock'[k] \in Nat
    BY SafeParts
  <2>5. read_lock'[k] + ClientHolds(c, k) = read_lock[k] + ClientHolds(c, k)'
    BY <2>2
  <2>6. QED BY <2>1, <2>3, <2>4, <2>5
<1>4. ManagerTypeOK /\ ReadLocksAccounted
  BY SafeParts
<1>5. QED BY <1>1, <1>2, <1>3, <1>4, AccountedStep

\* The locks through each call of the request handlers: write locks are taken for a
\* store ...
LEMMA StoreBeginLocks ==
    ASSUME SafeInv, ManagerTypeOK', NEW c \in Requests, NEW keys \in KeyLists, StoreBegin(c, keys)
    PROVE  LocksKept
<1>1. keys \in SUBSET Keys /\ reserve_write(keys, {}, "new") /\ L1Inv /\ ManagerTypeOK
  BY ManagerAssumption, SafeParts DEF StoreBegin, l1_reserve_write
<1>2. PICK state : /\ Becomes(c, state)
                   /\ state.op = "storing" /\ state.held = Got(keys)
  <2>1. PICK reserved, objs : /\ reserved = Got(keys)
              /\ Becomes(c, [Idle EXCEPT !.op = "storing", !.held = reserved, !.objs = objs])
    BY DEF StoreBegin, Got
  <2>2. PICK state : state = [Idle EXCEPT !.op = "storing", !.held = reserved, !.objs = objs]
    OBVIOUS
  <2>3. state.op = "storing" /\ state.held = reserved
    BY <2>2 DEF Idle
  <2>4. QED BY <2>1, <2>2, <2>3
<1>3. client[c].op = "idle" /\ UNCHANGED <<request, store_task>>
  BY DEF StoreBegin, l2_store_vars, prefetch_vars
<1>4. /\ \A k \in Got(keys) : ~Locked(k) /\ write_lock'[k] = 1 /\ k \in Keys
      /\ \A k \in Keys \ Got(keys) : write_lock'[k] = write_lock[k]
      /\ read_lock' = read_lock
  BY <1>1, ReserveNew
<1>5. ReadLocksAccounted'
  <2>1. \A k \in Keys : Keeps(client[c], k) = 0 /\ Keeps(state, k) = 0
    BY <1>2, <1>3 DEF Keeps
  <2>2. \A k \in Keys : /\ read_lock'[k] \in Nat
                        /\ read_lock'[k] + Keeps(client[c], k) = read_lock[k] + Keeps(state, k)
    BY <1>4, <2>1, SafeParts
  <2>3. QED BY <1>2, <1>3, <2>2, LoneHolder
<1>6. WritersOwn'
  <2>1. /\ client'[c] = state /\ ManagerTypeOK /\ WritersOwn
        /\ \A x \in Requests \ {c} : client'[x] = client[x] /\ request'[x] = request[x]
    BY <1>2, <1>3, SafeParts DEF Becomes
  <2>2. Owns(c)' = Got(keys)
    BY <1>2, <2>1 DEF Owns
  <2>3. \A k \in Keys : write_lock[k] \in Nat
    BY SafeParts
  <2>4. \A k \in Keys \ Owns(c) : write_lock[k] > 0 => write_lock'[k] > 0
    BY <1>4, <2>3
  <2>5. \A k \in Owns(c)' : write_lock'[k] > 0 /\ (k \in Owns(c) \/ ~WriteLocked(k))
    BY <1>4, <2>2 DEF Locked
  <2>6. QED BY <2>1, <2>4, <2>5, OwnStep
<1>7. QED BY <1>1, <1>5, <1>6, ReserveStays DEF LocksKept

\* ... read locks for the keys a lookup finds, one for each worker ...
LEMMA LookupBeginLocks ==
    ASSUME LocksLast, SafeInv, ManagerTypeOK', NEW c \in Requests, NEW keys \in KeyLists,
           LookupBegin(c, keys)
    PROVE  LocksKept
<1>1. PICK found : found = reserve_read_done(keys)
  OBVIOUS
<1>2. PICK hits : hits = Prefix(keys, found)
  OBVIOUS
<1>3. PICK state : state = [Idle EXCEPT !.op = "looking", !.keys = keys, !.held = hits,
                                        !.skipped = found \ hits]
  OBVIOUS
<1>4. Becomes(c, state) /\ reserve_read(keys, NumWorkers - 1)
  BY <1>1, <1>2, <1>3 DEF LookupBegin, l1_reserve_read
<1>5. /\ state.op = "looking" /\ state.held = hits /\ state.skipped = found \ hits
      /\ hits \subseteq found
  <2>1. hits \subseteq found
    BY <1>2, PrefixFacts, ManagerAssumption
  <2>2. QED BY <1>3, <2>1 DEF Idle
<1>6. client[c].op = "idle" /\ UNCHANGED <<request, store_task>>
  BY DEF LookupBegin, l2_vars, prefetch_vars
<1>7. /\ \A k \in found : read_lock'[k] = read_lock[k] + NumWorkers
      /\ \A k \in Keys \ found : read_lock'[k] = read_lock[k]
      /\ write_lock' = write_lock /\ BufferStays
  BY <1>1, <1>4, SafeParts, TakeLocks, WorkerLocks
<1>8. ReadLocksAccounted'
  <2>1. ASSUME NEW k \in Keys
        PROVE  /\ read_lock'[k] \in Nat
               /\ read_lock'[k] + Keeps(client[c], k) = read_lock[k] + Keeps(state, k)
    <3>1. read_lock[k] \in Nat /\ NumWorkers \in Nat
      BY SafeParts, WorkerLocks
    <3>2. Keeps(client[c], k) = 0
      BY <1>6 DEF Keeps
    <3>3. CASE k \in found
      <4>1. Keeps(state, k) = NumWorkers
        BY <1>5, <3>3 DEF Keeps
      <4>2. QED BY <1>7, <3>1, <3>2, <3>3, <4>1
    <3>4. CASE k \notin found
      <4>1. Keeps(state, k) = 0
        BY <1>5, <3>4 DEF Keeps
      <4>2. QED BY <1>7, <3>1, <3>2, <3>4, <4>1
    <3>5. QED BY <3>3, <3>4
  <2>2. QED BY <1>4, <1>6, <2>1, LoneHolder
<1>9. WritersOwn'
  <2>1. /\ client'[c] = state /\ ManagerTypeOK /\ WritersOwn
        /\ \A x \in Requests \ {c} : client'[x] = client[x] /\ request'[x] = request[x]
    BY <1>4, <1>6, SafeParts DEF Becomes
  <2>2. Owns(c)' = {}
    <3>1. request'[c].phase = "none"
      BY <1>6, NoPrefetch
    <3>2. QED BY <1>5, <2>1, <3>1 DEF Owns
  <2>3. QED BY <1>7, <2>1, <2>2, OwnStep
<1>10. QED BY <1>7, <1>8, <1>9 DEF LocksKept

\* ... the write locks of a store are given up ...
LEMMA StoreEndLocks ==
    ASSUME SafeInv, ManagerTypeOK', NEW c \in Requests, StoreEnd(c)
    PROVE  LocksKept
<1>1. /\ client[c].op = "storing" /\ finish_write(client[c].held)
      /\ Becomes(c, Idle) /\ UNCHANGED <<request, store_task>>
  BY DEF StoreEnd, l1_finish_write, l2_store_vars, prefetch_vars
<1>2. Owns(c) = client[c].held /\ client[c].held \in SUBSET Keys
  BY <1>1, SafeParts, OwnsKeys DEF Owns
<1>3. /\ \A k \in Keys \ Owns(c) : write_lock'[k] = write_lock[k]
      /\ read_lock' = read_lock /\ BufferStays
  <2>1. \A k \in client[c].held : WriteLocked(k)
    BY <1>2, SafeParts DEF WritersOwn
  <2>2. QED BY <1>1, <1>2, <2>1, SafeParts, FinishWriting
<1>4. Idle.op = "idle"
  BY DEF Idle
<1>5. ReadLocksAccounted'
  <2>1. \A k \in Keys : Keeps(client[c], k) = 0 /\ Keeps(Idle, k) = 0
    BY <1>1, <1>4 DEF Keeps
  <2>2. \A k \in Keys : /\ read_lock'[k] \in Nat
                        /\ read_lock'[k] + Keeps(client[c], k) = read_lock[k] + Keeps(Idle, k)
    BY <1>3, <2>1, SafeParts
  <2>3. QED BY <1>1, <2>2, LoneHolder
<1>6. WritersOwn'
  <2>1. /\ client'[c] = Idle /\ ManagerTypeOK /\ WritersOwn
        /\ \A x \in Requests \ {c} : client'[x] = client[x] /\ request'[x] = request[x]
    BY <1>1, SafeParts DEF Becomes
  <2>2. Owns(c)' = {}
    <3>1. request'[c].phase = "none"
      BY <1>1, NoPrefetch
    <3>2. QED BY <1>4, <2>1, <3>1 DEF Owns
  <2>3. QED BY <1>3, <2>1, <2>2, OwnStep
<1>7. QED BY <1>3, <1>5, <1>6 DEF LocksKept

\* A client that neither writes nor waits for a prefetch moves.
LEMMA LoneReader ==
    ASSUME SafeInv, NEW c \in Requests, NEW state, client[c].op # "waiting",
           Becomes(c, state), state.op # "storing", UNCHANGED <<request, write_lock>>
    PROVE  WritersOwn'
<1>1. /\ client'[c] = state /\ ManagerTypeOK /\ WritersOwn
      /\ \A x \in Requests \ {c} : client'[x] = client[x] /\ request'[x] = request[x]
  BY SafeParts DEF Becomes
<1>2. Owns(c)' = {}
  <2>1. request'[c].phase = "none"
    BY NoPrefetch
  <2>2. QED BY <1>1, <2>1 DEF Owns
<1>3. QED BY <1>1, <1>2, OwnStep

\* The scheduler gives back what its lookup has locked beyond the first miss.
LEMMA LookupSubmitLocks ==
    ASSUME LocksLast, SafeInv, ManagerTypeOK', NEW c \in Requests, LookupSubmit(c)
    PROVE  LocksKept
<1> DEFINE state == [client[c] EXCEPT !.op = "waiting", !.skipped = {}]
<1>1. /\ client[c].op = "looking" /\ request[c].phase = "none"
      /\ Becomes(c, state)
      /\ finish_read(client[c].skipped, NumWorkers - 1)
      /\ UNCHANGED store_task
  <2>1. /\ client[c].op = "looking" /\ request[c].phase = "none" /\ UNCHANGED l2_vars
        /\ finish_read(client[c].skipped, NumWorkers - 1)
    BY SafeParts, LookupSubmitEffect
  <2>2. Becomes(c, state)
    BY DEF LookupSubmit
  <2>3. QED BY <2>1, <2>2 DEF l2_vars
<1>2. /\ \A x \in Requests \ {c} : request'[x] = request[x]
      /\ request'[c].phase \in {"none", "queued"}
  <2>1. \/ request' = request
        \/ \E req : req.phase = "queued" /\ request' = [request EXCEPT ![c] = req]
    <3>1. UNCHANGED prefetch_vars \/ submit_prefetch_request(c, client[c].keys \ client[c].held)
      BY DEF LookupSubmit
    <3>2. CASE UNCHANGED prefetch_vars
      BY <3>2 DEF prefetch_vars
    <3>3. CASE submit_prefetch_request(c, client[c].keys \ client[c].held)
      <4>1. PICK req : /\ req = [NoRequest EXCEPT !.phase = "queued", !.keys = client[c].keys \ client[c].held]
                       /\ request' = [request EXCEPT ![c] = req]
        BY <3>3 DEF submit_prefetch_request
      <4>2. req.phase = "queued"
        BY <4>1 DEF NoRequest
      <4>3. QED BY <4>1, <4>2
    <3>4. QED BY <3>1, <3>2, <3>3
  <2>2. QED BY <1>1, <2>1, SafeParts
<1>3. /\ state.op = "waiting" /\ state.skipped = {} /\ state.held = client[c].held
      /\ client[c].held \cap client[c].skipped = {} /\ client[c].skipped \in SUBSET Keys
  <2>1. client[c] \in Clients /\ StateOK(client[c])
    BY SafeParts DEF ClientsOK
  <2>2. QED BY <2>1 DEF Clients, StateOK
<1> HIDE DEF state
<1>4. /\ client'[c] = state /\ ManagerTypeOK /\ WritersOwn /\ ReadLocksAccounted
      /\ \A x \in Requests \ {c} : client'[x] = client[x]
  BY <1>1, SafeParts DEF Becomes
<1>5. \A k \in client[c].skipped : ClientHolds(c, k) = NumWorkers
  BY <1>1, HoldsAre DEF Keeps
<1>6. \A k \in client[c].skipped : read_lock[k] >= NumWorkers
  BY <1>3, <1>4, <1>5, HoldersCovered, SafeParts
<1>7. /\ \A k \in client[c].skipped : read_lock'[k] = read_lock[k] - NumWorkers
      /\ \A k \in Keys \ client[c].skipped : read_lock'[k] = read_lock[k]
      /\ write_lock' = write_lock /\ BufferStays
  BY <1>1, <1>3, <1>6, SafeParts, GiveBack, WorkerLocks
<1>8. ASSUME NEW k \in Keys
      PROVE  /\ read_lock[k] \in Nat /\ read_lock'[k] \in Nat
             /\ read_lock'[k] + ClientHolds(c, k) + PrefetchHolds(c, k) =
                read_lock[k] + ClientHolds(c, k)' + PrefetchHolds(c, k)'
  <2>1. PrefetchHolds(c, k) = 0 /\ PrefetchHolds(c, k)' = 0
    BY <1>1, <1>2, HoldsAre DEF Publishes
  <2>2. read_lock[k] \in Nat /\ NumWorkers \in Nat
    BY SafeParts, WorkerLocks
  <2>3. CASE k \in client[c].skipped
    <3>1. ClientHolds(c, k) = NumWorkers /\ ClientHolds(c, k)' = 0
      <4>1. Keeps(state, k) = 0
        BY <1>3, <2>3 DEF Keeps
      <4>2. QED BY <1>4, <1>5, <2>3, <4>1, HoldsAre
    <3>2. read_lock[k] >= NumWorkers
      BY <1>6, <2>3
    <3>3. read_lock'[k] = read_lock[k] - NumWorkers
      BY <1>7, <2>3
    <3>4. QED BY <2>1, <2>2, <3>1, <3>2, <3>3
  <2>4. CASE k \notin client[c].skipped
    <3>1. Keeps(state, k) = Keeps(client[c], k)
      BY <1>1, <1>3, <2>4 DEF Keeps
    <3>2. ClientHolds(c, k)' = ClientHolds(c, k) /\ ClientHolds(c, k) \in Nat
      BY <1>4, <3>1, HoldsAre, HoldersCovered
    <3>3. read_lock'[k] = read_lock[k]
      BY <1>7, <2>4
    <3>4. QED BY <2>1, <2>2, <3>2, <3>3
  <2>5. QED BY <2>3, <2>4
<1>9. ReadLocksAccounted'
  <2>1. \A k \in Keys : StoreHolds(k)' = StoreHolds(k)
    BY <1>1 DEF StoreHolds
  <2>2. QED BY <1>2, <1>4, <1>8, <2>1, AccountedStep
<1>10. WritersOwn'
  <2>1. Owns(c)' = {}
    BY <1>2, <1>3, <1>4 DEF Owns
  <2>2. QED BY <1>2, <1>4, <1>7, <2>1, OwnStep
<1>11. QED BY <1>7, <1>9, <1>10 DEF LocksKept

\* The locks of the prefetch become the client's.
LEMMA PollLocks ==
    ASSUME LocksLast, SafeInv, ManagerTypeOK', NEW c \in Requests, Poll(c)
    PROVE  LocksKept
<1> DEFINE hits == client[c].held \cup prefix_hits(c)
           state == IF hits = {} THEN Idle ELSE [Idle EXCEPT !.op = "ready", !.held = hits, !.left = NumWorkers]
<1>1. /\ client[c].op = "waiting" /\ request[c].phase \in {"none", "done"}
      /\ Becomes(c, state)
      /\ request' = [request EXCEPT ![c] = NoRequest]
      /\ prefix_hits(c) \subseteq request[c].loaded /\ prefix_hits(c) \subseteq request[c].keys
      /\ UNCHANGED <<cache_vars, l2_vars, queue>>
  BY SafeParts, PollEffect DEF Becomes
<1>2. \A k : Keeps(state, k) = IF k \in hits THEN NumWorkers ELSE 0
  <2>1. /\ Idle.op = "idle" /\ \A h : LET s == [Idle EXCEPT !.op = "ready", !.held = h, !.left = NumWorkers]
                                     IN  s.op = "ready" /\ s.held = h /\ s.left = NumWorkers /\ s.reading = 0
    BY DEF Idle
  <2>2. CASE hits = {}
    <3>1. state = Idle
      BY <2>2
    <3>2. QED BY <2>1, <2>2, <3>1 DEF Keeps
  <2>3. CASE hits # {}
    <3>1. /\ state.op = "ready" /\ state.held = hits /\ state.left = NumWorkers /\ state.reading = 0
      BY <2>1, <2>3
    <3>2. NumWorkers + 0 = NumWorkers
      BY WorkerLocks
    <3> HIDE DEF state, hits
    <3>3. QED BY <3>1, <3>2 DEF Keeps
  <2>4. QED BY <2>2, <2>3
<1>3. state.op \in {"idle", "ready"}
  BY DEF Idle
<1> HIDE DEF state
<1>4. /\ client'[c] = state /\ ManagerTypeOK /\ WritersOwn /\ ReadLocksAccounted
      /\ request'[c] = NoRequest
      /\ \A x \in Requests \ {c} : client'[x] = client[x] /\ request'[x] = request[x]
  BY <1>1, SafeParts DEF Becomes
<1>5. /\ request[c].keys \cap client[c].held = {} /\ client[c].skipped = {}
      /\ request[c].phase = "none" => request[c] = NoRequest
  BY <1>1, SafeParts DEF RequestsOK, ClientsOK, StateOK
<1>6. UNCHANGED <<memory_obj, read_lock, write_lock, store_task>>
  BY <1>1 DEF cache_vars, l1vars, l2_vars
<1>7. ASSUME NEW k \in Keys
      PROVE  /\ read_lock[k] \in Nat /\ read_lock'[k] \in Nat
             /\ read_lock'[k] + ClientHolds(c, k) + PrefetchHolds(c, k) =
                read_lock[k] + ClientHolds(c, k)' + PrefetchHolds(c, k)'
  <2>1. read_lock[k] \in Nat /\ NumWorkers \in Nat
    BY SafeParts, WorkerLocks
  <2>2. PrefetchHolds(c, k)' = 0
    BY <1>4, HoldsAre DEF Publishes, NoRequest
  <2>3. ClientHolds(c, k) = IF k \in client[c].held THEN NumWorkers ELSE 0
    BY <1>1, <1>5, HoldsAre DEF Keeps
  <2>4. PrefetchHolds(c, k) = IF k \in prefix_hits(c) THEN NumWorkers ELSE 0
    <3>1. CASE request[c].phase = "done"
      BY <3>1, HoldsAre DEF Publishes, prefix_hits
    <3>2. CASE request[c].phase = "none"
      <4>1. request[c].loaded = {}
        BY <1>5, <3>2 DEF NoRequest
      <4>2. k \notin prefix_hits(c)
        BY <1>1, <4>1
      <4>3. QED BY <3>2, <4>2, HoldsAre DEF Publishes
    <3>3. QED BY <1>1, <3>1, <3>2
  <2>5. ClientHolds(c, k)' = IF k \in hits THEN NumWorkers ELSE 0
    BY <1>2, <1>4, HoldsAre
  <2>6. ~(k \in client[c].held /\ k \in prefix_hits(c))
    BY <1>1, <1>5
  <2>7. k \in hits <=> k \in client[c].held \/ k \in prefix_hits(c)
    OBVIOUS
  <2> HIDE DEF hits
  <2>8. QED BY <1>6, <2>1, <2>2, <2>3, <2>4, <2>5, <2>6, <2>7
<1>8. ReadLocksAccounted'
  <2>1. \A k \in Keys : StoreHolds(k)' = StoreHolds(k)
    BY <1>6 DEF StoreHolds
  <2>2. QED BY <1>4, <1>7, <2>1, AccountedStep
<1>9. WritersOwn'
  <2>1. Owns(c)' = {}
    BY <1>3, <1>4 DEF Owns, NoRequest
  <2>2. QED BY <1>4, <1>6, <2>1, OwnStep
<1>10. BufferStays
  BY <1>6 DEF BufferStays
<1>11. QED BY <1>8, <1>9, <1>10 DEF LocksKept

\* What a lookup has promised can be read until the last worker has read it.
LEMMA PromisesReadable ==
    ASSUME SafeInv, NEW c \in Requests, client[c].op = "ready"
    PROVE  /\ client[c].held \in SUBSET Keys
           /\ client[c].left \in Nat /\ client[c].reading \in Nat
           /\ client[c].left + client[c].reading \in 1..NumWorkers
           /\ \A k \in client[c].held : /\ ClientHolds(c, k) = client[c].left + client[c].reading
                                        /\ read_lock[k] >= client[c].left + client[c].reading
           /\ unsafe_read_done(client[c].held) = client[c].held
<1>1. /\ client[c].left \in Nat /\ client[c].reading \in Nat /\ client[c].held \in SUBSET Keys
      /\ client[c].left + client[c].reading \in 1..NumWorkers /\ NumWorkers \in Nat
  BY SafeParts, PrefetchAssumption DEF ClientsOK, StateOK, Clients
<1>2. \A k \in client[c].held : ClientHolds(c, k) = client[c].left + client[c].reading
  BY HoldsAre DEF Keeps
<1>3. \A k \in client[c].held : read_lock[k] \in Nat /\ ClientHolds(c, k) <= read_lock[k]
  BY <1>1, SafeParts, HoldersCovered
<1>4. \A k \in client[c].held : read_lock[k] >= client[c].left + client[c].reading
  BY <1>1, <1>2, <1>3
<1>5. \A k \in client[c].held : ReadLocked(k) /\ k \in Resident
  <2>1. ASSUME NEW k \in client[c].held PROVE ReadLocked(k)
    <3>1. PICK n \in Nat : n = client[c].left + client[c].reading /\ n >= 1
      BY <1>1
    <3>2. read_lock[k] \in Nat /\ read_lock[k] >= n
      BY <1>3, <1>4, <3>1
    <3>3. QED BY <3>1, <3>2 DEF ReadLocked
  <2>2. QED BY <1>1, <2>1, SafeParts DEF L1Inv, LocksOnResidentKeys, Locked
<1>6. unsafe_read_done(client[c].held) = client[c].held
  BY <1>5 DEF unsafe_read_done
<1>7. QED BY <1>1, <1>2, <1>4, <1>6

\* A client that is done has nothing left to give back.
LEMMA SettledKeeps ==
    ASSUME NEW state, state.op = "ready", NEW k
    PROVE  /\ Keeps(Settled(state), k) = Keeps(state, k)
           /\ Settled(state).op \in {"idle", "ready"}
<1>1. Idle.op = "idle" /\ 0 + 0 = 0
  BY DEF Idle
<1>2. CASE state.left = 0 /\ state.reading = 0
  BY <1>1, <1>2 DEF Settled, Keeps
<1>3. CASE ~(state.left = 0 /\ state.reading = 0)
  BY <1>3 DEF Settled
<1>4. QED BY <1>2, <1>3

\* A worker starts to read: what waits for a worker becomes what a worker reads.
LEMMA RetrieveLocks ==
    ASSUME LocksLast, SafeInv, ManagerTypeOK', NEW c \in Requests, Retrieve(c)
    PROVE  LocksKept
<1> DEFINE state == [client[c] EXCEPT !.left = @ - 1, !.reading = @ + 1]
<1>1. client[c].op = "ready" /\ client[c].left > 0 /\ UNCHANGED <<request, store_task>>
  BY DEF Retrieve, l2_vars, prefetch_vars
<1>2. /\ client[c].left \in Nat /\ client[c].reading \in Nat
      /\ unsafe_read_done(client[c].held) = client[c].held
  BY <1>1, PromisesReadable
<1>3. Becomes(c, state) /\ UNCHANGED l1vars
  BY <1>2 DEF Retrieve
<1>4. /\ state.op = "ready" /\ state.held = client[c].held
      /\ state.left = client[c].left - 1 /\ state.reading = client[c].reading + 1
  BY <1>1, SafeParts DEF Clients
<1> HIDE DEF state
<1>5. UNCHANGED <<memory_obj, read_lock, write_lock>>
  BY <1>3 DEF l1vars
<1>6. state.left + state.reading = client[c].left + client[c].reading
  BY <1>2, <1>4
<1>7. \A k \in Keys : Keeps(state, k) = Keeps(client[c], k)
  BY <1>1, <1>4, <1>6 DEF Keeps
<1>8. ReadLocksAccounted'
  BY <1>1, <1>3, <1>5, <1>7, SafeParts, LoneHolder
<1>9. WritersOwn'
  BY <1>1, <1>3, <1>4, <1>5, LoneReader
<1>10. QED BY <1>5, <1>8, <1>9 DEF LocksKept, BufferStays

\* A worker gives back one lock of each key it read.
LEMMA RetrieveDoneLocks ==
    ASSUME LocksLast, SafeInv, ManagerTypeOK', NEW c \in Requests, RetrieveDone(c)
    PROVE  LocksKept
<1> DEFINE state == [client[c] EXCEPT !.reading = @ - 1]
<1>1. /\ client[c].reading > 0 /\ UNCHANGED <<request, store_task>>
      /\ Becomes(c, Settled(state)) /\ finish_read(client[c].held, 0)
  BY DEF RetrieveDone, l2_vars, prefetch_vars, l1_finish_read
<1>2. client[c].op = "ready"
  BY <1>1, SafeParts DEF ClientsOK, StateOK
<1>3. PICK l \in Nat, r \in Nat : /\ l = client[c].left /\ r = client[c].reading
                                  /\ \A k \in client[c].held : /\ ClientHolds(c, k) = l + r
                                                               /\ read_lock[k] >= l + r
  BY <1>2, PromisesReadable
<1>4. /\ state.op = "ready" /\ state.held = client[c].held
      /\ state.left = l /\ state.reading = r - 1
  BY <1>2, <1>3, SafeParts DEF Clients
<1> HIDE DEF state
<1>5. r > 0 /\ client[c].held \in SUBSET Keys
  BY <1>1, <1>2, <1>3, PromisesReadable
<1>6. \A k \in client[c].held : read_lock[k] \in Nat /\ read_lock[k] >= 1
  BY <1>3, <1>5, SafeParts
<1>7. /\ \A k \in client[c].held : read_lock'[k] = read_lock[k] - 1
      /\ \A k \in Keys \ client[c].held : read_lock'[k] = read_lock[k]
      /\ write_lock' = write_lock /\ BufferStays
  BY <1>1, <1>5, <1>6, SafeParts, GiveBack, WorkerLocks
<1>8. ASSUME NEW k \in Keys
      PROVE  /\ read_lock'[k] \in Nat
             /\ read_lock'[k] + Keeps(client[c], k) = read_lock[k] + Keeps(Settled(state), k)
  <2>1. Keeps(Settled(state), k) = Keeps(state, k)
    BY <1>4, SettledKeeps
  <2>2. read_lock[k] \in Nat
    BY SafeParts
  <2>3. CASE k \in client[c].held
    <3>1. Keeps(client[c], k) = l + r
      BY <1>3, <2>3, HoldsAre
    <3>2. Keeps(state, k) = l + (r - 1)
      BY <1>4, <2>3 DEF Keeps
    <3>3. read_lock'[k] = read_lock[k] - 1 /\ read_lock[k] >= 1
      BY <1>6, <1>7, <2>3
    <3>4. QED BY <1>5, <2>1, <2>2, <3>1, <3>2, <3>3
  <2>4. CASE k \notin client[c].held
    <3>1. Keeps(client[c], k) = 0 /\ Keeps(state, k) = 0
      BY <1>2, <1>4, <2>4 DEF Keeps
    <3>2. read_lock'[k] = read_lock[k]
      BY <1>7, <2>4
    <3>3. QED BY <2>1, <2>2, <3>1, <3>2
  <2>5. QED BY <2>3, <2>4
<1>9. ReadLocksAccounted'
  BY <1>1, <1>2, <1>8, LoneHolder
<1>10. WritersOwn'
  <2>1. Settled(state).op # "storing"
    BY <1>4, SettledKeeps
  <2>2. QED BY <1>1, <1>2, <1>7, <2>1, LoneReader
<1>11. QED BY <1>7, <1>9, <1>10 DEF LocksKept

\* The locks of the workers that never came are given back together.
LEMMA FreeLookupLocksKept ==
    ASSUME LocksLast, SafeInv, ManagerTypeOK', NEW c \in Requests, FreeLookupLocks(c)
    PROVE  LocksKept
<1>1. /\ client[c].op = "ready" /\ client[c].left = NumWorkers /\ UNCHANGED <<request, store_task>>
  BY DEF FreeLookupLocks, l2_vars, prefetch_vars
<1>2. PICK keys \in SUBSET client[c].held :
         /\ finish_read(keys, NumWorkers - 1)
         /\ Becomes(c, IF keys = client[c].held THEN Idle
                       ELSE [client[c] EXCEPT !.held = client[c].held \ keys])
  BY DEF FreeLookupLocks, l1_finish_read
<1>3. PICK rest : rest = [client[c] EXCEPT !.held = client[c].held \ keys]
  OBVIOUS
<1>4. PICK state : state = IF keys = client[c].held THEN Idle ELSE rest
  OBVIOUS
<1>5. Becomes(c, state)
  BY <1>2, <1>3, <1>4
<1>6. client[c].reading = 0 /\ NumWorkers \in Nat /\ client[c].held \in SUBSET Keys
  BY <1>1, PromisesReadable, WorkerLocks
<1>7. /\ rest.op = "ready" /\ rest.held = client[c].held \ keys
      /\ rest.left = NumWorkers /\ rest.reading = 0
      /\ Idle.op = "idle" /\ NumWorkers + 0 = NumWorkers
  BY <1>1, <1>3, <1>6, SafeParts DEF Clients, Idle
<1>8. \A k \in client[c].held : read_lock[k] \in Nat /\ read_lock[k] >= NumWorkers
  BY <1>1, <1>6, <1>7, PromisesReadable, SafeParts
<1>9. /\ \A k \in keys : read_lock'[k] = read_lock[k] - NumWorkers
      /\ \A k \in Keys \ keys : read_lock'[k] = read_lock[k]
      /\ write_lock' = write_lock /\ BufferStays
  BY <1>2, <1>6, <1>8, SafeParts, GiveBack, WorkerLocks
<1>10. ASSUME NEW k \in Keys
       PROVE  /\ Keeps(client[c], k) = IF k \in client[c].held THEN NumWorkers ELSE 0
              /\ Keeps(state, k) = IF k \in client[c].held \ keys THEN NumWorkers ELSE 0
  <2>1. Keeps(client[c], k) = IF k \in client[c].held THEN NumWorkers ELSE 0
    BY <1>1, <1>6, <1>7 DEF Keeps
  <2>2. CASE keys = client[c].held
    <3>1. Keeps(state, k) = 0
      BY <1>4, <1>7, <2>2 DEF Keeps
    <3>2. QED BY <2>1, <2>2, <3>1
  <2>3. CASE keys # client[c].held
    <3>1. state = rest
      BY <1>4, <2>3
    <3>2. Keeps(rest, k) = IF k \in client[c].held \ keys THEN NumWorkers ELSE 0
      BY <1>7 DEF Keeps
    <3>3. QED BY <2>1, <3>1, <3>2
  <2>4. QED BY <2>2, <2>3
<1>11. ASSUME NEW k \in Keys
       PROVE  /\ read_lock'[k] \in Nat
              /\ read_lock'[k] + Keeps(client[c], k) = read_lock[k] + Keeps(state, k)
  <2>1. read_lock[k] \in Nat
    BY SafeParts
  <2>2. CASE k \in keys
    <3>1. Keeps(client[c], k) = NumWorkers /\ Keeps(state, k) = 0
      BY <1>10, <2>2
    <3>2. read_lock'[k] = read_lock[k] - NumWorkers /\ read_lock[k] >= NumWorkers
      BY <1>8, <1>9, <2>2
    <3>3. QED BY <1>6, <2>1, <3>1, <3>2
  <2>3. CASE k \notin keys
    <3>1. Keeps(client[c], k) = Keeps(state, k)
      BY <1>10, <2>3
    <3>2. read_lock'[k] = read_lock[k]
      BY <1>9, <2>3
    <3>3. QED BY <2>1, <3>1, <3>2
  <2>4. QED BY <2>2, <2>3
<1>12. ReadLocksAccounted'
  BY <1>1, <1>5, <1>11, LoneHolder
<1>13. WritersOwn'
  <2>1. state.op # "storing"
    BY <1>4, <1>7
  <2>2. QED BY <1>1, <1>5, <1>9, <2>1, LoneReader
<1>14. QED BY <1>9, <1>12, <1>13 DEF LocksKept

\* All the calls of the request handlers.
LEMMA ClientLocks ==
    ASSUME LocksLast, SafeInv, ManagerTypeOK', ClientStep
    PROVE  LocksKept
  BY StoreBeginLocks, LookupBeginLocks, StoreEndLocks, LookupSubmitLocks, PollLocks, RetrieveLocks,
     RetrieveDoneLocks, FreeLookupLocksKept DEF ClientStep

----------------------------------------------------------------------------
(* The threads of the server: stores to L2, eviction, the adapters' loops.  *)

\* A step that touches no lock, no buffer and nobody who holds one.
LEMMA IdleLocks ==
    ASSUME SafeInv, ManagerTypeOK',
           UNCHANGED <<memory_obj, read_lock, write_lock, client, request>>,
           \A s \in StoreTasks : store_task'[s].keys = store_task[s].keys
    PROVE  LocksKept
<1>1. \A k \in Keys : StoreHolds(k)' = StoreHolds(k)
  BY DEF StoreHolds
<1>2. \A k \in Keys : /\ read_lock[k] \in Nat /\ read_lock'[k] \in Nat
                      /\ read_lock'[k] + StoreHolds(k) = read_lock[k] + StoreHolds(k)'
  BY <1>1, SafeParts
<1>3. ReadLocksAccounted'
  BY <1>2, SafeParts, AccountedTaskStep
<1>4. WritersOwn'
  BY SafeParts, OwnFrame
<1>5. QED BY <1>3, <1>4 DEF LocksKept, BufferStays

\* Unlocked objects are dropped: by the eviction thread, after a store to L2,
\* after a failed load, by a clear.
LEMMA DropLocks ==
    ASSUME SafeInv, ManagerTypeOK', NEW keys, delete(keys) \/ clear(FALSE),
           UNCHANGED <<client, request, store_task>>
    PROVE  LocksKept
<1>1. /\ \A k \in Keys : read_lock'[k] = read_lock[k] /\ write_lock'[k] = write_lock[k]
      /\ BufferStays
  BY SafeParts, Dropping
<1>2. \A k \in Keys : StoreHolds(k)' = StoreHolds(k)
  BY DEF StoreHolds
<1>3. \A k \in Keys : /\ read_lock[k] \in Nat /\ read_lock'[k] \in Nat
                      /\ read_lock'[k] + StoreHolds(k) = read_lock[k] + StoreHolds(k)'
  BY <1>1, <1>2, SafeParts
<1>4. ReadLocksAccounted'
  BY <1>3, SafeParts, AccountedTaskStep
<1>5. WritersOwn'
  BY <1>1, SafeParts, OwnFrame
<1>6. QED BY <1>1, <1>4, <1>5 DEF LocksKept

\* One store task gets or loses keys, with one read lock each.
LEMMA OneTaskStep ==
    ASSUME SafeInv, ManagerTypeOK', UNCHANGED <<client, request>>, NEW s \in StoreTasks,
           \A x \in StoreTasks \ {s} : store_task'[x] = store_task[x],
           \A k \in Keys : /\ read_lock'[k] \in Nat
                           /\ read_lock'[k] + One(k \in store_task[s].keys) =
                              read_lock[k] + One(k \in store_task'[s].keys)
    PROVE  ReadLocksAccounted'
<1>1. ASSUME NEW k \in Keys
      PROVE  /\ read_lock[k] \in Nat /\ read_lock'[k] \in Nat
             /\ read_lock'[k] + StoreHolds(k) = read_lock[k] + StoreHolds(k)'
  <2> DEFINE S == {x \in StoreTasks : k \in store_task[x].keys}
             T == {x \in StoreTasks : k \in store_task'[x].keys}
  <2>1. /\ Cardinality(S) \in Nat /\ Cardinality(T) \in Nat
        /\ Cardinality(T) + One(s \in S) = Cardinality(S) + One(s \in T)
    <3>1. S \in SUBSET StoreTasks /\ T \in SUBSET StoreTasks /\ IsFiniteSet(StoreTasks)
      BY L2Assumption
    <3>2. \A y \in StoreTasks \ {s} : (y \in S => y \in T) /\ (y \in T => y \in S)
      OBVIOUS
    <3> HIDE DEF S, T
    <3>3. QED BY <3>1, <3>2, CountChange
  <2>2. StoreHolds(k) = Cardinality(S) /\ StoreHolds(k)' = Cardinality(T)
    BY DEF StoreHolds
  <2>3. One(s \in S) = One(k \in store_task[s].keys) /\ One(s \in T) = One(k \in store_task'[s].keys)
    BY DEF One
  <2>4. One(k \in store_task[s].keys) \in Nat /\ One(k \in store_task'[s].keys) \in Nat
    BY DEF One
  <2> HIDE DEF S, T
  <2>5. PICK m \in Nat, n \in Nat, p \in Nat, q \in Nat :
            /\ m = Cardinality(S) /\ n = Cardinality(T)
            /\ p = One(k \in store_task[s].keys) /\ q = One(k \in store_task'[s].keys)
    BY <2>1, <2>4
  <2>6. PICK l \in Nat, l1 \in Nat : l = read_lock[k] /\ l1 = read_lock'[k]
    BY SafeParts
  <2>7. n + p = m + q /\ l1 + p = l + q
    BY <2>1, <2>3, <2>5, <2>6
  <2>8. l1 + m = l + n
    BY <2>7
  <2>9. QED BY <2>2, <2>5, <2>6, <2>8
<1>2. QED BY <1>1, SafeParts, AccountedTaskStep

\* What a store task has locked stays locked until the task is done.
LEMMA TasksLocked ==
    L1Inv /\ ManagerTypeOK /\ ReadLocksAccounted
        => \A s \in StoreTasks : \A k \in store_task[s].keys : ReadLocked(k) /\ k \in Keys
<1>1. ASSUME L1Inv, ManagerTypeOK, ReadLocksAccounted, NEW s \in StoreTasks, NEW k \in store_task[s].keys
      PROVE  ReadLocked(k) /\ k \in Keys
  <2>1. store_task[s] \in StoreTaskSet
    BY <1>1 DEF ManagerTypeOK, TaskTypeOK
  <2>2. k \in Keys /\ read_lock[k] \in Nat
    BY <1>1, <2>1 DEF StoreTaskSet, L1Inv, L1TypeOK
  <2> DEFINE S == {x \in StoreTasks : k \in store_task[x].keys}
  <2>3. Cardinality(S) \in Nat /\ One(s \in S) <= Cardinality(S)
    <3>1. S \in SUBSET StoreTasks /\ IsFiniteSet(StoreTasks)
      BY L2Assumption
    <3> HIDE DEF S
    <3>2. QED BY <3>1, CountChange
  <2>4. One(s \in S) = 1
    BY <1>1 DEF One
  <2>5. StoreHolds(k) = Cardinality(S)
    BY DEF StoreHolds
  <2> HIDE DEF S
  <2>6. StoreHolds(k) <= read_lock[k]
    BY <1>1, <2>2, HoldersCovered
  <2>7. QED BY <2>2, <2>3, <2>4, <2>5, <2>6 DEF ReadLocked
<1>2. QED BY <1>1

\* A store task holds a lock on each of its keys.
LEMMA TaskHolds ==
    ASSUME SafeInv, NEW s \in StoreTasks, NEW k \in store_task[s].keys
    PROVE  k \in Keys /\ read_lock[k] \in Nat /\ read_lock[k] >= 1
<1>1. ReadLocked(k) /\ k \in Keys
  BY SafeParts, TasksLocked
<1>2. read_lock[k] \in Nat
  BY <1>1, SafeParts
<1>3. QED BY <1>1, <1>2 DEF ReadLocked

\* reserve_read of a batch, and the task that answers for the locks.
LEMMA StoreSubmitLocks ==
    ASSUME LocksLast, SafeInv, ManagerTypeOK', UNCHANGED <<client, request>>, StoreSubmit
    PROVE  LocksKept
<1>1. PICK found : found = reserve_read_done(batch)
  OBVIOUS
<1>2. reserve_read(batch, 0)
  BY DEF StoreSubmit, l1_reserve_read
<1>3. /\ \A k \in found : read_lock'[k] = read_lock[k] + 1
      /\ \A k \in Keys \ found : read_lock'[k] = read_lock[k]
      /\ found \subseteq Keys
      /\ write_lock' = write_lock /\ BufferStays
  BY <1>1, <1>2, SafeParts, TakeLocks, WorkerLocks
<1>4. ReadLocksAccounted'
  <2>1. CASE found = {} /\ UNCHANGED store_task
    <3>1. \A k \in Keys : StoreHolds(k)' = StoreHolds(k)
      BY <2>1 DEF StoreHolds
    <3>2. \A k \in Keys : /\ read_lock[k] \in Nat /\ read_lock'[k] \in Nat
                          /\ read_lock'[k] + StoreHolds(k) = read_lock[k] + StoreHolds(k)'
      BY <1>3, <2>1, <3>1, SafeParts
    <3>3. QED BY <3>2, SafeParts, AccountedTaskStep
  <2>2. ASSUME NEW s \in StoreTasks, store_task[s].status = "none",
               NEW task, task.keys = found, store_task' = [store_task EXCEPT ![s] = task]
        PROVE  ReadLocksAccounted'
    <3>1. store_task[s].keys = {}
      BY <2>2, SafeParts DEF TasksOK, StoreTasksOK
    <3>2. /\ store_task'[s].keys = found
          /\ \A x \in StoreTasks \ {s} : store_task'[x] = store_task[x]
      BY <2>2, SafeParts DEF ManagerTypeOK, TaskTypeOK
    <3>3. ASSUME NEW k \in Keys
          PROVE  /\ read_lock'[k] \in Nat
                 /\ read_lock'[k] + One(k \in store_task[s].keys) =
                    read_lock[k] + One(k \in store_task'[s].keys)
      <4>1. read_lock[k] \in Nat /\ One(k \in store_task[s].keys) = 0
        BY <3>1, SafeParts DEF One
      <4>2. CASE k \in found
        <5>1. One(k \in store_task'[s].keys) = 1
          BY <3>2, <4>2 DEF One
        <5>2. QED BY <1>3, <4>1, <4>2, <5>1
      <4>3. CASE k \notin found
        <5>1. One(k \in store_task'[s].keys) = 0
          BY <3>2, <4>3 DEF One
        <5>2. QED BY <1>3, <4>1, <4>3, <5>1
      <4>4. QED BY <4>2, <4>3
    <3>4. QED BY <3>2, <3>3, OneTaskStep
  <2>3. \/ found = {} /\ UNCHANGED store_task
        \/ \E s \in StoreTasks : \E task :
              /\ store_task[s].status = "none" /\ task.keys = found
              /\ store_task' = [store_task EXCEPT ![s] = task]
    <3>1. \/ found = {} /\ UNCHANGED store_task
          \/ \E s \in StoreTasks : store_task[s].status = "none" /\ submit_store_task(s, Min(targets), found)
      BY <1>1 DEF StoreSubmit
    <3>2. ASSUME NEW s \in StoreTasks, submit_store_task(s, Min(targets), found)
          PROVE  \E task : task.keys = found /\ store_task' = [store_task EXCEPT ![s] = task]
      <4>1. PICK task : task = [status |-> "submitted", adapter |-> Min(targets), keys |-> found,
                                objs |-> [k \in found |-> memory_obj[k]], ok |-> FALSE]
        OBVIOUS
      <4>2. task.keys = found /\ store_task' = [store_task EXCEPT ![s] = task]
        BY <3>2, <4>1 DEF submit_store_task
      <4>3. QED BY <4>2
    <3>3. QED BY <3>1, <3>2
  <2>4. QED BY <2>1, <2>2, <2>3
<1>5. WritersOwn'
  BY <1>3, SafeParts, OwnFrame
<1>6. QED BY <1>3, <1>4, <1>5 DEF LocksKept

\* The task is done, well or badly, and its read locks go.
LEMMA StoreCompleteLocks ==
    ASSUME LocksLast, SafeInv, ManagerTypeOK', UNCHANGED <<client, request>>,
           NEW s \in StoreTasks, StoreComplete(s)
    PROVE  LocksKept
<1>1. /\ finish_read(store_task[s].keys, 0)
      /\ store_task' = [store_task EXCEPT ![s] = NoStoreTask]
  BY DEF StoreComplete, l1_finish_read
<1>2. /\ store_task'[s].keys = {} /\ store_task[s].keys \in SUBSET Keys
      /\ \A x \in StoreTasks \ {s} : store_task'[x] = store_task[x]
  <2>1. store_task \in [StoreTasks -> StoreTaskSet] /\ NoStoreTask.keys = {}
    BY SafeParts DEF ManagerTypeOK, TaskTypeOK, NoStoreTask
  <2>2. QED BY <1>1, <2>1 DEF StoreTaskSet
<1>3. \A k \in store_task[s].keys : read_lock[k] \in Nat /\ read_lock[k] >= 1
  BY TaskHolds
<1>4. /\ \A k \in store_task[s].keys : read_lock'[k] = read_lock[k] - 1
      /\ \A k \in Keys \ store_task[s].keys : read_lock'[k] = read_lock[k]
      /\ write_lock' = write_lock /\ BufferStays
  BY <1>1, <1>2, <1>3, SafeParts, GiveBack, WorkerLocks
<1>5. ASSUME NEW k \in Keys
      PROVE  /\ read_lock'[k] \in Nat
             /\ read_lock'[k] + One(k \in store_task[s].keys) =
                read_lock[k] + One(k \in store_task'[s].keys)
  <2>1. read_lock[k] \in Nat /\ One(k \in store_task'[s].keys) = 0
    BY <1>2, SafeParts DEF One
  <2>2. CASE k \in store_task[s].keys
    <3>1. One(k \in store_task[s].keys) = 1
      BY <2>2 DEF One
    <3>2. read_lock'[k] = read_lock[k] - 1 /\ read_lock[k] >= 1
      BY <1>3, <1>4, <2>2
    <3>3. QED BY <2>1, <3>1, <3>2
  <2>3. CASE k \notin store_task[s].keys
    <3>1. One(k \in store_task[s].keys) = 0
      BY <2>3 DEF One
    <3>2. QED BY <1>4, <2>1, <2>3, <3>1
  <2>4. QED BY <2>2, <2>3
<1>6. ReadLocksAccounted'
  BY <1>2, <1>5, OneTaskStep
<1>7. WritersOwn'
  BY <1>4, SafeParts, OwnFrame
<1>8. QED BY <1>4, <1>6, <1>7 DEF LocksKept

\* The store controller's thread.
LEMMA StoreLocks ==
    ASSUME LocksLast, SafeInv, ManagerTypeOK', StoreThread
    PROVE  LocksKept
<1>1. UNCHANGED <<client, request>>
  BY DEF StoreThread, prefetch_vars
<1>2. CASE StorePopKeys
  <2>1. UNCHANGED <<memory_obj, read_lock, write_lock, store_task>>
    BY <1>2 DEF StorePopKeys, pop_pending_keys, l1vars, l2_vars
  <2>2. QED BY <1>1, <2>1, IdleLocks
<1>3. CASE StoreDelete
  <2>1. delete(deletions) /\ UNCHANGED store_task
    BY <1>3 DEF StoreDelete, l1_delete, l2_vars
  <2>2. QED BY <1>1, <2>1, DropLocks
<1>4. QED BY <1>1, <1>2, <1>3, StoreSubmitLocks, StoreCompleteLocks DEF StoreThread, StoreStep

\* The adapters' threads hold no L1 lock.
LEMMA AdapterLocks ==
    ASSUME SafeInv, ManagerTypeOK', AdapterThread
    PROVE  LocksKept
<1>1. UNCHANGED <<memory_obj, read_lock, write_lock, client, request>>
  BY DEF AdapterThread, AdapterStep, cache_vars, l1vars, prefetch_vars
<1>2. \A x \in StoreTasks : store_task'[x].keys = store_task[x].keys
  <2>1. ASSUME NEW s \in StoreTasks, ExecuteStore(s)
        PROVE  \A x \in StoreTasks : store_task'[x].keys = store_task[x].keys
    <3>1. \E ok : \/ store_task' = [store_task EXCEPT ![s].status = "done", ![s].ok = ok]
                  \/ store_task' = [store_task EXCEPT ![s].status = "done"]
      BY <2>1 DEF ExecuteStore
    <3>2. store_task \in [StoreTasks -> StoreTaskSet]
      BY SafeParts DEF ManagerTypeOK, TaskTypeOK
    <3>3. QED BY <3>1, <3>2 DEF StoreTaskSet
  <2>2. (\E s \in StoreTasks : ExecuteStore(s)) \/ UNCHANGED store_task
    BY DEF AdapterThread, AdapterStep, ExecuteLookup, ExecuteLoad, ExecuteUnlock, l2_store_vars
  <2>3. QED BY <2>1, <2>2
<1>3. QED BY <1>1, <1>2, IdleLocks

\* Eviction and an unforced clear delete only what nobody has locked.
LEMMA EvictionLocks ==
    ASSUME LocksLast, SafeInv, ManagerTypeOK', Clear \/ EvictionStep \/ UNCHANGED vars
    PROVE  LocksKept
<1>1. UNCHANGED <<client, request, store_task>>
  BY DEF Clear, EvictionStep, vars, l2_vars, prefetch_vars
<1>2. CASE UNCHANGED l1vars
  BY <1>1, <1>2, IdleLocks DEF l1vars
<1>3. CASE EvictionStep
  <2>1. UNCHANGED l1vars \/ delete(victims)
    BY <1>3 DEF EvictionStep, EvictionLoop, EvictionCheck, EvictionChoose, EvictionExecute, l1_delete,
                Expire, LocksLast
  <2>2. QED BY <1>1, <1>2, <2>1, DropLocks
<1>4. CASE Clear
  <2>1. clear(FALSE)
    BY <1>4, ManagerAssumption DEF Clear, l1_clear, LocksLast
  <2>2. QED BY <1>1, <2>1, DropLocks
<1>5. QED BY <1>2, <1>3, <1>4 DEF vars, cache_vars

----------------------------------------------------------------------------
(* The prefetch thread.                                                     *)

\* A request moves alone, with the read locks it counts on.
LEMMA LonePrefetch ==
    ASSUME SafeInv, ManagerTypeOK', NEW r \in Requests, UNCHANGED <<client, store_task>>,
           \A x \in Requests \ {r} : request'[x] = request[x],
           \A k \in Keys : /\ read_lock'[k] \in Nat
                           /\ read_lock'[k] + Publishes(request[r], k) =
                              read_lock[k] + Publishes(request'[r], k)
    PROVE  ReadLocksAccounted'
<1>1. \A k \in Keys : StoreHolds(k)' = StoreHolds(k)
  BY DEF StoreHolds
<1>2. ASSUME NEW k \in Keys
      PROVE  /\ read_lock[k] \in Nat /\ read_lock'[k] \in Nat
             /\ read_lock'[k] + ClientHolds(r, k) + PrefetchHolds(r, k) =
                read_lock[k] + ClientHolds(r, k)' + PrefetchHolds(r, k)'
  <2>1. ClientHolds(r, k)' = ClientHolds(r, k)
    BY HoldsAre
  <2>2. /\ PrefetchHolds(r, k) = Publishes(request[r], k)
        /\ PrefetchHolds(r, k)' = Publishes(request'[r], k)
    BY HoldsAre
  <2>3. /\ ClientHolds(r, k) \in Nat /\ PrefetchHolds(r, k) \in Nat /\ PrefetchHolds(r, k)' \in Nat
    BY SafeParts, HoldsNat, HoldsNatNext DEF ClientHeld, PrefetchHeld
  <2>4. read_lock[k] \in Nat /\ read_lock'[k] \in Nat
    BY SafeParts
  <2>5. read_lock'[k] + PrefetchHolds(r, k) = read_lock[k] + PrefetchHolds(r, k)'
    BY <2>2
  <2>6. QED BY <2>1, <2>3, <2>4, <2>5
<1>3. ManagerTypeOK /\ ReadLocksAccounted
  BY SafeParts
<1>4. \A x \in Requests \ {r} : client'[x] = client[x] /\ request'[x] = request[x]
  OBVIOUS
<1>5. QED BY <1>1, <1>2, <1>3, <1>4, AccountedStep

\* The writes of a request that is waiting for its prefetch are the prefetch's.
LEMMA PrefetchOwns ==
    ASSUME SafeInv, NEW r \in Requests, request[r].phase # "none", UNCHANGED client
    PROVE  /\ Owns(r) = IF request[r].phase = "load" THEN request[r].reserved
                        ELSE IF request[r].phase = "finish_failed" THEN request[r].reserved \ request[r].loaded
                        ELSE {}
           /\ Owns(r)' = IF request'[r].phase = "load" THEN request'[r].reserved
                         ELSE IF request'[r].phase = "finish_failed"
                         THEN request'[r].reserved \ request'[r].loaded
                         ELSE {}
<1>1. client[r].op = "waiting" /\ client'[r].op = "waiting"
  BY SafeParts DEF RequestsOK
<1>2. QED BY <1>1 DEF Owns

\* A request moves alone and touches no lock.
LEMMA QuietPrefetch ==
    ASSUME SafeInv, ManagerTypeOK', NEW r \in Requests, UNCHANGED <<client, store_task>>,
           \A x \in Requests \ {r} : request'[x] = request[x],
           UNCHANGED <<memory_obj, read_lock, write_lock>>,
           request[r].phase # "none", request'[r].phase \notin {"load", "finish_failed"},
           \A k \in Keys : Publishes(request[r], k) = 0 /\ Publishes(request'[r], k) = 0
    PROVE  LocksKept
<1>1. ReadLocksAccounted'
  <2>1. \A k \in Keys : /\ read_lock'[k] \in Nat
                        /\ read_lock'[k] + Publishes(request[r], k) =
                           read_lock[k] + Publishes(request'[r], k)
    BY SafeParts
  <2>2. QED BY <2>1, LonePrefetch
<1>2. WritersOwn'
  <2>1. Owns(r)' = {}
    BY PrefetchOwns
  <2>2. \A x \in Requests \ {r} : client'[x] = client[x] /\ request'[x] = request[x]
    OBVIOUS
  <2>3. QED BY <2>1, <2>2, SafeParts, OwnStep
<1>3. QED BY <1>1, <1>2 DEF LocksKept, BufferStays

\* The locks through each step of the prefetch controller's thread: up to the plan,
\* none.
LEMMA StartLocks ==
    ASSUME SafeInv, ManagerTypeOK', UNCHANGED <<client>>, PrefetchStart
    PROVE  LocksKept
<1>1. PICK r \in Requests :
         /\ request[r].phase = "queued"
         /\ Moves(r, "lookup", request[r].plan, request[r].reserved, request[r].loaded)
         /\ UNCHANGED <<cache_vars, content, l2_store_vars, l2_locked, l2_unlocks, load_task>>
  BY SafeParts, StartEffect, Zenon DEF Protocol
<1>2. request'[r].phase = "lookup" /\ \A x \in Requests \ {r} : request'[x] = request[x]
  BY <1>1, SafeParts, MovesFields DEF ManagerTypeOK
<1>3. UNCHANGED <<memory_obj, read_lock, write_lock, store_task>>
  BY <1>1 DEF cache_vars, l1vars, l2_store_vars
<1>4. \A k \in Keys : Publishes(request[r], k) = 0 /\ Publishes(request'[r], k) = 0
  BY <1>1, <1>2 DEF Publishes
<1>5. QED BY <1>1, <1>2, <1>3, <1>4, QuietPrefetch

LEMMA NothingFoundLocks ==
    ASSUME SafeInv, ManagerTypeOK', UNCHANGED client, NEW r \in Requests, PrefetchNothingFound(r)
    PROVE  LocksKept
<1>1. /\ request[r].phase = "lookup"
      /\ Moves(r, "done", request[r].plan, request[r].reserved, request[r].loaded)
      /\ UNCHANGED <<cache_vars, content, l2_store_vars, l2_locked, load_task, queue>>
  BY SafeParts, NothingFoundEffect
<1>2. /\ request'[r].phase = "done" /\ request'[r].loaded = request[r].loaded
      /\ request'[r].keys = request[r].keys
      /\ \A x \in Requests \ {r} : request'[x] = request[x]
  BY <1>1, SafeParts, MovesFields DEF ManagerTypeOK
<1>3. UNCHANGED <<memory_obj, read_lock, write_lock, store_task>>
  BY <1>1 DEF cache_vars, l1vars, l2_store_vars
<1>4. \A k \in Keys : Publishes(request[r], k) = 0 /\ Publishes(request'[r], k) = 0
  <2>1. request[r].loaded = {} /\ request[r].keys \in SUBSET Keys
    BY <1>1, SafeParts DEF RequestsOK, Prefetches
  <2>2. Prefix(request[r].keys, request[r].loaded) = {}
    BY <2>1, PrefixFacts
  <2>3. QED BY <1>1, <1>2, <2>1, <2>2 DEF Publishes
<1>5. QED BY <1>1, <1>2, <1>3, <1>4, QuietPrefetch

\* The buffers of a prefetch are reserved: keys that nobody had.
LEMMA PlanLocks ==
    ASSUME SafeInv, ManagerTypeOK', UNCHANGED client, NEW r \in Requests, PrefetchPlan(r)
    PROVE  LocksKept
<1>0. PICK reserved \in SUBSET request[r].keys, trimmed \in [Adapters -> SUBSET Keys], phase \in Phases :
         Planned(r, reserved, trimmed, phase)
  BY SafeParts, PlanEffect
<1>1. /\ request[r].phase = "lookup" /\ \A a \in Adapters : lookup_task[r][a].status = "done"
      /\ \A a \in Adapters : /\ trimmed[a] \subseteq lookup_task[r][a].ok
                             /\ trimmed[a] \subseteq reserved
      /\ \/ phase = "load"
         \/ /\ phase = IF reserved = {} THEN "done" ELSE "finish_failed"
            /\ \A a \in Adapters : trimmed[a] = {}
      /\ Moves(r, phase, trimmed, reserved, {})
      /\ lookup_task' = [lookup_task EXCEPT ![r] = [a \in Adapters |-> NoTask]]
      /\ load_task' = [load_task EXCEPT ![r] = [a \in Adapters |->
            IF trimmed[a] = {} THEN NoTask
            ELSE Submitted(trimmed[a], [k \in trimmed[a] |-> memory_obj'[k]])]]
      /\ l2_unlocks' = [a \in Adapters |-> [k \in Keys |->
            IF k \in lookup_task[r][a].ok \ trimmed[a] THEN l2_unlocks[a][k] + 1
                                                       ELSE l2_unlocks[a][k]]]
      /\ \A k \in reserved : /\ k \notin Resident /\ ~Locked(k)
                             /\ memory_obj'[k] \in MemObjs \ allocated
                             /\ write_lock'[k] = 1
      /\ \A k \in Keys \ reserved : /\ memory_obj'[k] = memory_obj[k]
                                    /\ write_lock'[k] = write_lock[k]
      /\ read_lock' = read_lock
      /\ FreshBuffersUnwritten
      /\ UNCHANGED <<l2_objects, store_task, l2_locked, queue>>
  BY <1>0 DEF Planned
<1>2. /\ request'[r].phase = phase /\ request'[r].loaded = {} /\ request'[r].reserved = reserved
      /\ request'[r].keys = request[r].keys
      /\ \A x \in Requests \ {r} : request'[x] = request[x]
  BY <1>1, SafeParts, MovesFields DEF ManagerTypeOK
<1>3. request[r].keys \in SUBSET Keys
  BY SafeParts DEF Prefetches
<1>4. ReadLocksAccounted'
  <2>1. \A k \in Keys : Publishes(request[r], k) = 0 /\ Publishes(request'[r], k) = 0
    <3>1. Prefix(request[r].keys, {}) = {}
      BY <1>3, PrefixFacts
    <3>2. QED BY <1>1, <1>2, <3>1 DEF Publishes
  <2>2. \A k \in Keys : /\ read_lock'[k] \in Nat
                        /\ read_lock'[k] + Publishes(request[r], k) =
                           read_lock[k] + Publishes(request'[r], k)
    BY <1>1, <2>1, SafeParts
  <2>3. QED BY <1>1, <1>2, <2>2, LonePrefetch
<1>5. WritersOwn'
  <2>1. Owns(r) = {} /\ Owns(r)' \subseteq reserved
    <3>1. request[r].phase # "none"
      BY <1>1
    <3>2. QED BY <1>1, <1>2, <3>1, PrefetchOwns
  <2>2. \A k \in Owns(r)' : write_lock'[k] > 0 /\ ~WriteLocked(k)
    BY <1>1, <2>1 DEF Locked
  <2>3. \A k \in Keys \ Owns(r) : write_lock[k] > 0 => write_lock'[k] > 0
    BY <1>1
  <2>4. \A x \in Requests \ {r} : client'[x] = client[x] /\ request'[x] = request[x]
    BY <1>2
  <2>5. QED BY <2>2, <2>3, <2>4, SafeParts, OwnStep
<1>6. BufferStays
  BY <1>1 DEF BufferStays
<1>7. QED BY <1>4, <1>5, <1>6 DEF LocksKept

\* What has been loaded turns from written into read, for every worker; what
\* has not stays locked for the clean-up.
LEMMA LoadedLocks ==
    ASSUME LocksLast, SafeInv, ManagerTypeOK', UNCHANGED client, NEW r \in Requests, PrefetchLoaded(r)
    PROVE  LocksKept
<1>1. PICK loaded \in SUBSET request[r].reserved, phase \in {"finish_failed", "release", "done"} :
         /\ request[r].phase = "load"
         /\ phase = IF request[r].reserved \ loaded # {} THEN "finish_failed"
                    ELSE IF loaded \ Prefix(request[r].keys, loaded) # {} THEN "release" ELSE "done"
         /\ Moves(r, phase, request[r].plan, request[r].reserved, loaded)
         /\ finish_write_and_reserve_read(loaded, NumWorkers - 1)
         /\ UNCHANGED l2_store_vars
  BY SafeParts, LoadedEffect, Zenon
<1>2. /\ request'[r].phase = phase /\ request'[r].loaded = loaded
      /\ request'[r].reserved = request[r].reserved /\ request'[r].keys = request[r].keys
      /\ \A x \in Requests \ {r} : request'[x] = request[x]
  BY <1>1, SafeParts, MovesFields DEF ManagerTypeOK
<1>3. /\ request[r].keys \in SUBSET Keys /\ loaded \in SUBSET Keys
      /\ store_task' = store_task
  BY <1>1, SafeParts DEF Prefetches, l2_store_vars
<1>4. /\ Owns(r) = request[r].reserved
      /\ Owns(r)' = IF phase = "finish_failed" THEN request[r].reserved \ loaded ELSE {}
  <2>1. request[r].phase # "none"
    BY <1>1
  <2>2. QED BY <1>1, <1>2, <2>1, PrefetchOwns
<1>5. \A k \in request[r].reserved : write_lock[k] > 0
  BY <1>4, SafeParts DEF WritersOwn, WriteLocked
<1>6. /\ \A k \in Keys \ loaded : write_lock'[k] = write_lock[k]
      /\ \A k \in loaded : read_lock'[k] = read_lock[k] + NumWorkers
      /\ \A k \in Keys \ loaded : read_lock'[k] = read_lock[k]
      /\ BufferStays
  <2>1. \A k \in loaded : WriteLocked(k)
    BY <1>5 DEF WriteLocked
  <2>2. QED BY <1>1, <1>3, <2>1, SafeParts, FinishWritingReading, WorkerLocks
<1>7. ReadLocksAccounted'
  <2>1. ASSUME NEW k \in Keys
        PROVE  /\ read_lock'[k] \in Nat
               /\ read_lock'[k] + Publishes(request[r], k) =
                  read_lock[k] + Publishes(request'[r], k)
    <3>1. read_lock[k] \in Nat /\ NumWorkers \in Nat /\ Publishes(request[r], k) = 0
      BY <1>1, SafeParts, WorkerLocks DEF Publishes
    <3>2. Prefix(request[r].keys, loaded) \subseteq loaded
      BY <1>3, PrefixFacts
    <3>3. CASE k \in loaded
      <4>1. Publishes(request'[r], k) = NumWorkers
        <5>1. CASE phase = "done"
          <6>1. k \in Prefix(request[r].keys, loaded)
            BY <1>1, <3>3, <5>1
          <6>2. QED BY <1>2, <5>1, <6>1 DEF Publishes
        <5>2. CASE phase # "done"
          BY <1>1, <1>2, <3>3, <5>2 DEF Publishes
        <5>3. QED BY <5>1, <5>2
      <4>2. QED BY <1>6, <3>1, <3>3, <4>1
    <3>4. CASE k \notin loaded
      <4>1. Publishes(request'[r], k) = 0
        BY <1>2, <3>2, <3>4 DEF Publishes
      <4>2. QED BY <1>6, <3>1, <3>4, <4>1
    <3>5. QED BY <3>3, <3>4
  <2>2. QED BY <1>2, <1>3, <2>1, LonePrefetch
<1>8. WritersOwn'
  <2>1. \A k \in Owns(r)' : write_lock'[k] > 0 /\ k \in Owns(r)
    <3>1. \A k \in Owns(r)' : k \in Keys \ loaded /\ k \in request[r].reserved
      BY <1>1, <1>4, SafeParts DEF Prefetches
    <3>2. QED BY <1>4, <1>5, <1>6, <3>1
  <2>2. \A k \in Keys \ Owns(r) : write_lock'[k] = write_lock[k]
    BY <1>1, <1>4, <1>6
  <2>3. \A x \in Requests \ {r} : client'[x] = client[x] /\ request'[x] = request[x]
    BY <1>2
  <2>4. QED BY <2>1, <2>2, <2>3, SafeParts, OwnStep
<1>9. QED BY <1>6, <1>7, <1>8 DEF LocksKept

\* The failed keys give up their write locks; the loaded ones stay locked.
LEMMA FinishFailedLocks ==
    ASSUME SafeInv, ManagerTypeOK', UNCHANGED client, NEW r \in Requests, PrefetchFinishFailed(r)
    PROVE  LocksKept
<1>1. /\ request[r].phase = "finish_failed"
      /\ Moves(r, "delete_failed", request[r].plan, request[r].reserved, request[r].loaded)
      /\ finish_write(request[r].reserved \ request[r].loaded)
      /\ UNCHANGED <<l2_vars, queue>>
  BY SafeParts, FinishFailedEffect
<1>2. /\ request'[r].phase = "delete_failed" /\ request'[r].loaded = request[r].loaded
      /\ \A x \in Requests \ {r} : request'[x] = request[x]
  BY <1>1, SafeParts, MovesFields DEF ManagerTypeOK
<1>3. Owns(r) = request[r].reserved \ request[r].loaded /\ Owns(r)' = {}
  <2>1. request[r].phase # "none"
    BY <1>1
  <2>2. QED BY <1>1, <1>2, <2>1, PrefetchOwns
<1>4. /\ \A k \in Keys \ Owns(r) : write_lock'[k] = write_lock[k]
      /\ read_lock' = read_lock /\ BufferStays
  <2>1. Owns(r) \in SUBSET Keys /\ \A k \in Owns(r) : WriteLocked(k)
    BY SafeParts, OwnsKeys DEF WritersOwn
  <2>2. QED BY <1>1, <1>3, <2>1, SafeParts, FinishWriting
<1>5. ReadLocksAccounted'
  <2>1. ASSUME NEW k \in Keys
        PROVE  /\ read_lock'[k] \in Nat
               /\ read_lock'[k] + Publishes(request[r], k) =
                  read_lock[k] + Publishes(request'[r], k)
    <3>1. Publishes(request'[r], k) = Publishes(request[r], k)
      BY <1>1, <1>2 DEF Publishes
    <3>2. QED BY <1>4, <3>1, SafeParts
  <2>2. store_task' = store_task
    BY <1>1 DEF l2_vars
  <2>3. QED BY <1>2, <2>1, <2>2, LonePrefetch
<1>6. WritersOwn'
  <2>1. \A x \in Requests \ {r} : client'[x] = client[x] /\ request'[x] = request[x]
    BY <1>2
  <2>2. QED BY <1>3, <1>4, <2>1, SafeParts, OwnStep
<1>7. QED BY <1>4, <1>5, <1>6 DEF LocksKept

\* The keys of a failed load are unlocked by now: their deletion disturbs no holder.
LEMMA DeleteFailedLocks ==
    ASSUME SafeInv, ManagerTypeOK', UNCHANGED client, NEW r \in Requests, PrefetchDeleteFailed(r)
    PROVE  LocksKept
<1>1. PICK phase \in {"release", "done"} :
         /\ request[r].phase = "delete_failed"
         /\ phase = "done" => request[r].loaded \subseteq Prefix(request[r].keys, request[r].loaded)
         /\ Moves(r, phase, request[r].plan, request[r].reserved, request[r].loaded)
         /\ delete(request[r].reserved \ request[r].loaded)
         /\ UNCHANGED <<l2_vars, queue>>
  BY SafeParts, DeleteFailedEffect, Zenon
<1>2. /\ request'[r].phase = phase /\ request'[r].loaded = request[r].loaded
      /\ request'[r].keys = request[r].keys
      /\ \A x \in Requests \ {r} : request'[x] = request[x]
  BY <1>1, SafeParts, MovesFields DEF ManagerTypeOK
<1>3. /\ \A k \in Keys : read_lock'[k] = read_lock[k] /\ write_lock'[k] = write_lock[k]
      /\ BufferStays
  BY <1>1, SafeParts, Dropping
<1>4. ReadLocksAccounted'
  <2>1. ASSUME NEW k \in Keys
        PROVE  /\ read_lock'[k] \in Nat
               /\ read_lock'[k] + Publishes(request[r], k) =
                  read_lock[k] + Publishes(request'[r], k)
    <3>1. /\ request[r].keys \in SUBSET Keys
          /\ Prefix(request[r].keys, request[r].loaded) \subseteq request[r].loaded
      BY SafeParts, PrefixFacts DEF Prefetches
    <3>2. Publishes(request'[r], k) = Publishes(request[r], k)
      BY <1>1, <1>2, <3>1 DEF Publishes
    <3>3. Publishes(request[r], k) \in Nat
      BY PrefetchAssumption DEF Publishes
    <3>4. QED BY <1>3, <3>2, <3>3, SafeParts
  <2>2. store_task' = store_task
    BY <1>1 DEF l2_vars
  <2>3. QED BY <1>2, <2>1, <2>2, LonePrefetch
<1>5. WritersOwn'
  <2>1. \A x \in Requests \ {r} : client'[x] = client[x] /\ request'[x] = request[x]
    BY <1>2
  <2>2. Owns(r)' = {}
    <3>1. request[r].phase # "none"
      BY <1>1
    <3>2. QED BY <1>1, <1>2, <3>1, PrefetchOwns
  <2>3. QED BY <1>3, <2>1, <2>2, SafeParts, OwnStep
<1>6. QED BY <1>3, <1>4, <1>5 DEF LocksKept

\* What was loaded beyond the first gap gives back one lock per worker.
LEMMA ReleaseLocks ==
    ASSUME LocksLast, SafeInv, ManagerTypeOK', UNCHANGED client, NEW r \in Requests, PrefetchRelease(r)
    PROVE  LocksKept
<1>1. PICK beyond : beyond = request[r].loaded \ Prefix(request[r].keys, request[r].loaded)
  OBVIOUS
<1>2. /\ request[r].phase = "release"
      /\ Moves(r, "done", request[r].plan, request[r].reserved, request[r].loaded)
      /\ finish_read(beyond, NumWorkers - 1)
      /\ UNCHANGED <<l2_vars, queue>>
  BY <1>1, SafeParts, ReleaseEffect
<1>3. /\ request'[r].phase = "done" /\ request'[r].loaded = request[r].loaded
      /\ request'[r].keys = request[r].keys
      /\ \A x \in Requests \ {r} : request'[x] = request[x]
  BY <1>2, SafeParts, MovesFields DEF ManagerTypeOK
<1>4. /\ request[r].keys \in SUBSET Keys /\ request[r].loaded \in SUBSET Keys
      /\ Prefix(request[r].keys, request[r].loaded) \subseteq request[r].loaded
      /\ beyond \in SUBSET Keys
  <2>1. request[r].keys \in SUBSET Keys /\ request[r].loaded \in SUBSET Keys
    BY SafeParts DEF Prefetches
  <2>2. QED BY <1>1, <2>1, PrefixFacts
<1>5. \A k \in request[r].loaded : PrefetchHolds(r, k) = NumWorkers
  BY <1>2, HoldsAre DEF Publishes
<1>6. \A k \in beyond : read_lock[k] \in Nat /\ read_lock[k] >= NumWorkers
  <2>1. ASSUME NEW k \in beyond PROVE read_lock[k] \in Nat /\ read_lock[k] >= NumWorkers
    <3>1. k \in Keys /\ PrefetchHolds(r, k) = NumWorkers /\ read_lock[k] \in Nat
      BY <1>1, <1>4, <1>5, SafeParts
    <3>2. PrefetchHolds(r, k) <= read_lock[k]
      BY <3>1, SafeParts, HoldersCovered
    <3>3. QED BY <3>1, <3>2, WorkerLocks
  <2>2. QED BY <2>1
<1>7. /\ \A k \in beyond : read_lock'[k] = read_lock[k] - NumWorkers
      /\ \A k \in Keys \ beyond : read_lock'[k] = read_lock[k]
      /\ write_lock' = write_lock /\ BufferStays
  BY <1>2, <1>4, <1>6, SafeParts, GiveBack, WorkerLocks
<1>8. ReadLocksAccounted'
  <2>1. ASSUME NEW k \in Keys
        PROVE  /\ read_lock'[k] \in Nat
               /\ read_lock'[k] + Publishes(request[r], k) =
                  read_lock[k] + Publishes(request'[r], k)
    <3>1. read_lock[k] \in Nat /\ NumWorkers \in Nat
      BY SafeParts, WorkerLocks
    <3>2. CASE k \in beyond
      <4>1. Publishes(request[r], k) = NumWorkers /\ Publishes(request'[r], k) = 0
        BY <1>1, <1>2, <1>3, <3>2 DEF Publishes
      <4>2. QED BY <1>6, <1>7, <3>1, <3>2, <4>1
    <3>3. CASE k \notin beyond
      <4>1. Publishes(request'[r], k) = Publishes(request[r], k)
        BY <1>1, <1>2, <1>3, <1>4, <3>3 DEF Publishes
      <4>2. Publishes(request[r], k) \in Nat
        BY <3>1 DEF Publishes
      <4>3. QED BY <1>7, <3>1, <3>3, <4>1, <4>2
    <3>4. QED BY <3>2, <3>3
  <2>2. store_task' = store_task
    BY <1>2 DEF l2_vars
  <2>3. QED BY <1>3, <2>1, <2>2, LonePrefetch
<1>9. WritersOwn'
  <2>1. \A x \in Requests \ {r} : client'[x] = client[x] /\ request'[x] = request[x]
    BY <1>3
  <2>2. Owns(r)' = {}
    <3>1. request[r].phase # "none"
      BY <1>2
    <3>2. QED BY <1>2, <1>3, <3>1, PrefetchOwns
  <2>3. QED BY <1>7, <2>1, <2>2, SafeParts, OwnStep
<1>10. QED BY <1>7, <1>8, <1>9 DEF LocksKept

\* All the steps of the prefetch controller's thread.
LEMMA PrefetchLocks ==
    ASSUME LocksLast, SafeInv, ManagerTypeOK', PrefetchThread
    PROVE  LocksKept
<1>1. UNCHANGED client
  BY DEF PrefetchThread
<1>2. QED BY <1>1, StartLocks, NothingFoundLocks, PlanLocks, LoadedLocks, FinishFailedLocks, DeleteFailedLocks,
             ReleaseLocks DEF PrefetchThread, PrefetchStep

\* However the threads interleave, the locks stay with those who count on them.
LEMMA LocksStay ==
    ASSUME LocksLast, SafeInv, [Next]_vars
    PROVE  LocksKept
<1>1. ManagerTypeOK'
  BY L2InvKept DEF SafeInv, L2Inv
<1>2. QED BY <1>1, ClientLocks, StoreLocks, PrefetchLocks, AdapterLocks, EvictionLocks DEF Next

----------------------------------------------------------------------------
(* The buffers of those who copy.                                           *)

\* The same, in the next state.
LEMMA TasksLockedNext ==
    ASSUME L1Inv', ManagerTypeOK', ReadLocksAccounted'
    PROVE  \A s \in StoreTasks : \A k \in store_task'[s].keys : ReadLocked(k)' /\ k \in Keys
<1>1. (L1Inv /\ ManagerTypeOK /\ ReadLocksAccounted)'
        => (\A s \in StoreTasks : \A k \in store_task[s].keys : ReadLocked(k) /\ k \in Keys)'
  BY TasksLocked, PTL
<1>2. QED BY <1>1

\* A client either begins a store, with the buffers it has just been given, or
\* goes on with one.
LEMMA StoringMoves ==
    ASSUME SafeInv, [Next]_vars, NEW c \in Requests
    PROVE  \/ client'[c] = client[c]
           \/ client'[c].op # "storing"
           \/ \A k \in client'[c].held : memory_obj'[k] = client'[c].objs[k]
<1>1. CASE Clear \/ EvictionStep \/ StoreThread \/ PrefetchThread \/ AdapterThread \/ UNCHANGED vars
  <2>1. client' = client
    BY <1>1 DEF Clear, EvictionStep, StoreThread, PrefetchThread, AdapterThread, vars
  <2>2. QED BY <2>1
<1>2. ASSUME NEW d \in Requests, NEW keys \in KeyLists, StoreBegin(d, keys)
      PROVE  \/ client'[c] = client[c]
             \/ \A k \in client'[c].held : memory_obj'[k] = client'[c].objs[k]
  <2>1. PICK reserved :
           Becomes(d, [Idle EXCEPT !.op = "storing", !.held = reserved,
                                   !.objs = [k \in reserved |-> memory_obj'[k]]])
    BY <1>2 DEF StoreBegin
  <2>2. PICK state : state = [Idle EXCEPT !.op = "storing", !.held = reserved,
                                          !.objs = [k \in reserved |-> memory_obj'[k]]]
    OBVIOUS
  <2>3. state.held = reserved /\ \A k \in reserved : state.objs[k] = memory_obj'[k]
    BY <2>2 DEF Idle
  <2>4. client' = [client EXCEPT ![d] = state]
    BY <2>1, <2>2 DEF Becomes
  <2>5. QED BY <2>3, <2>4, SafeParts
<1>3. ASSUME NEW d \in Requests, NEW state, Becomes(d, state), state.op # "storing"
      PROVE  client'[c] = client[c] \/ client'[c].op # "storing"
  BY <1>3, SafeParts DEF Becomes
<1>4. ASSUME NEW d \in Requests, NEW keys \in KeyLists, LookupBegin(d, keys)
      PROVE  client'[c] = client[c] \/ client'[c].op # "storing"
  <2>1. PICK hits, skipped :
           Becomes(d, [Idle EXCEPT !.op = "looking", !.keys = keys, !.held = hits, !.skipped = skipped])
    BY <1>4 DEF LookupBegin
  <2>2. PICK state : state = [Idle EXCEPT !.op = "looking", !.keys = keys, !.held = hits, !.skipped = skipped]
    OBVIOUS
  <2>3. state.op = "looking"
    BY <2>2 DEF Idle
  <2>4. QED BY <1>3, <2>1, <2>2, <2>3
<1>5. ASSUME NEW d \in Requests, StoreEnd(d)
      PROVE  client'[c] = client[c] \/ client'[c].op # "storing"
  <2>1. Becomes(d, Idle) /\ Idle.op # "storing"
    BY <1>5 DEF StoreEnd, Idle
  <2>2. QED BY <1>3, <2>1
<1>6. ASSUME NEW d \in Requests, LookupSubmit(d)
      PROVE  client'[c] = client[c] \/ client'[c].op # "storing"
  <2>1. PICK state : /\ state = [client[d] EXCEPT !.op = "waiting", !.skipped = {}]
                     /\ Becomes(d, state)
    BY <1>6 DEF LookupSubmit
  <2>2. state.op # "storing"
    BY <2>1, SafeParts DEF Clients
  <2>3. QED BY <1>3, <2>1, <2>2
<1>7. ASSUME NEW d \in Requests, Poll(d)
      PROVE  client'[c] = client[c] \/ client'[c].op # "storing"
  <2>1. PICK hits, state :
           /\ state = IF hits = {} THEN Idle ELSE [Idle EXCEPT !.op = "ready", !.held = hits, !.left = NumWorkers]
           /\ Becomes(d, state)
    BY <1>7 DEF Poll
  <2>2. state.op # "storing"
    BY <2>1 DEF Idle
  <2>3. QED BY <1>3, <2>1, <2>2
<1>8. ASSUME NEW d \in Requests, client[d].op = "ready", NEW state, state.op = "ready",
             Becomes(d, state) \/ Becomes(d, Settled(state)) \/ Becomes(d, Idle)
      PROVE  client'[c] = client[c] \/ client'[c].op # "storing"
  <2>1. Settled(state).op # "storing" /\ Idle.op # "storing"
    BY <1>8, SettledKeeps DEF Idle
  <2>2. QED BY <1>3, <1>8, <2>1
<1>9. ASSUME NEW d \in Requests, Retrieve(d) \/ RetrieveDone(d)
      PROVE  client'[c] = client[c] \/ client'[c].op # "storing"
  <2>1. client[d].op = "ready"
    BY <1>9, SafeParts DEF Retrieve, RetrieveDone, ClientsOK, StateOK
  <2>2. \E state : /\ state.op = client[d].op
                   /\ Becomes(d, state) \/ Becomes(d, Settled(state))
    <3>1. CASE Retrieve(d)
      <4>1. PICK one, two : /\ one = [client[d] EXCEPT !.left = @ - 1, !.reading = @ + 1]
                            /\ two = [client[d] EXCEPT !.left = @ - 1]
        OBVIOUS
      <4>2. Becomes(d, one) \/ Becomes(d, Settled(two))
        BY <3>1, <4>1 DEF Retrieve
      <4>3. one.op = client[d].op /\ two.op = client[d].op
        BY <4>1, SafeParts DEF Clients
      <4>4. QED BY <4>2, <4>3
    <3>2. CASE RetrieveDone(d)
      <4>1. PICK state : state = [client[d] EXCEPT !.reading = @ - 1]
        OBVIOUS
      <4>2. Becomes(d, Settled(state))
        BY <3>2, <4>1 DEF RetrieveDone
      <4>3. state.op = client[d].op
        BY <4>1, SafeParts DEF Clients
      <4>4. QED BY <4>2, <4>3
    <3>3. QED BY <1>9, <3>1, <3>2
  <2>3. QED BY <1>8, <2>1, <2>2
<1>10. ASSUME NEW d \in Requests, FreeLookupLocks(d)
       PROVE  client'[c] = client[c] \/ client'[c].op # "storing"
  <2>1. PICK keys : Becomes(d, IF keys = client[d].held THEN Idle
                               ELSE [client[d] EXCEPT !.held = client[d].held \ keys])
    BY <1>10 DEF FreeLookupLocks
  <2>2. PICK rest : rest = [client[d] EXCEPT !.held = client[d].held \ keys]
    OBVIOUS
  <2>3. Becomes(d, Idle) \/ Becomes(d, rest)
    BY <2>1, <2>2
  <2>4. client[d].op = "ready" /\ rest.op = "ready"
    BY <1>10, <2>2, SafeParts DEF FreeLookupLocks, Clients
  <2>5. QED BY <1>8, <2>3, <2>4
<1>11. QED BY <1>1, <1>2, <1>4, <1>5, <1>6, <1>7, <1>9, <1>10 DEF Next, ClientStep

\* A load task begins with the buffers just reserved for it, goes on, or ends.
LEMMA LoadingMoves ==
    ASSUME SafeInv, [Next]_vars, NEW r \in Requests, NEW a \in Adapters
    PROVE  \/ load_task'[r][a].status = "none"
           \/ /\ load_task[r][a].status # "none"
              /\ load_task'[r][a].keys = load_task[r][a].keys
              /\ load_task'[r][a].objs = load_task[r][a].objs
           \/ \A k \in load_task'[r][a].keys : memory_obj'[k] = load_task'[r][a].objs[k]
<1>1. load_task \in [Requests -> [Adapters -> Tasks]] /\ NoTask.status = "none"
  BY SafeParts DEF ManagerTypeOK, TaskTypeOK, NoTask
<1>2. CASE UNCHANGED load_task
  BY <1>2
<1>3. CASE ClientStep \/ Clear \/ EvictionStep \/ StoreThread \/ UNCHANGED vars
  <2>1. UNCHANGED load_task
    BY <1>3 DEF ClientStep, StoreBegin, LookupBegin, StoreEnd, LookupSubmit, Poll, Retrieve, RetrieveDone,
                FreeLookupLocks, Clear, EvictionStep, StoreThread, StoreStep, StorePopKeys, StoreSubmit,
                StoreDelete, StoreComplete, vars, l2_vars
  <2>2. QED BY <1>2, <2>1
<1>4. ASSUME NEW x \in Requests, load_task' = [load_task EXCEPT ![x] = [b \in Adapters |-> NoTask]]
      PROVE  load_task'[r][a].status = "none" \/ load_task'[r] = load_task[r]
  BY <1>1, <1>4
<1>5. ASSUME NEW x \in Requests, PrefetchLoaded(x)
      PROVE  load_task'[r][a].status = "none" \/ load_task'[r] = load_task[r]
  BY <1>4, <1>5 DEF PrefetchLoaded
<1>6. ASSUME NEW x \in Requests, PrefetchPlan(x)
      PROVE  \/ load_task'[r] = load_task[r]
             \/ load_task'[r][a].status = "none"
             \/ \A k \in load_task'[r][a].keys : memory_obj'[k] = load_task'[r][a].objs[k]
  <2>1. PICK trimmed : submit_load_tasks(x, trimmed)
    BY <1>6 DEF PrefetchPlan
  <2>2. load_task' = [load_task EXCEPT ![x] = [b \in Adapters |->
            IF trimmed[b] = {} THEN NoTask
            ELSE Submitted(trimmed[b], [k \in trimmed[b] |-> memory_obj'[k]])]]
    BY <2>1 DEF submit_load_tasks
  <2>3. CASE r # x
    BY <1>1, <2>2, <2>3
  <2>4. CASE r = x
    <3>1. load_task'[r][a] = IF trimmed[a] = {} THEN NoTask
                             ELSE Submitted(trimmed[a], [k \in trimmed[a] |-> memory_obj'[k]])
      BY <1>1, <2>2, <2>4
    <3>2. CASE trimmed[a] = {}
      BY <1>1, <3>1, <3>2
    <3>3. CASE trimmed[a] # {}
      BY <3>1, <3>3 DEF Submitted
    <3>4. QED BY <3>2, <3>3
  <2>5. QED BY <2>3, <2>4
<1>7. CASE PrefetchThread
  <2>1. UNCHANGED load_task \/ \E x \in Requests : PrefetchPlan(x) \/ PrefetchLoaded(x)
    BY <1>7 DEF PrefetchThread, PrefetchStep, PrefetchStart, PrefetchNothingFound, PrefetchFinishFailed,
                PrefetchDeleteFailed, PrefetchRelease, l2_vars
  <2>2. QED BY <1>2, <1>5, <1>6, <2>1
<1>8. ASSUME NEW x \in Requests, NEW b \in Adapters, ExecuteLoad(x, b)
      PROVE  /\ load_task'[r][a].keys = load_task[r][a].keys
             /\ load_task'[r][a].objs = load_task[r][a].objs
             /\ load_task[r][a].status = "none" => load_task'[r][a].status = "none"
  <2>1. PICK loaded : load_task' = [load_task EXCEPT ![x][b] = Completed(load_task[x][b], loaded)]
    BY <1>8 DEF ExecuteLoad
  <2>2. load_task[x][b] \in Tasks /\ load_task[x][b].status = "submitted"
    BY <1>1, <1>8 DEF ExecuteLoad
  <2>3. PICK task : task = Completed(load_task[x][b], loaded)
    OBVIOUS
  <2>4. task.keys = load_task[x][b].keys /\ task.objs = load_task[x][b].objs
    BY <2>2, <2>3 DEF Completed, Tasks
  <2>5. load_task'[r][a] = IF r = x /\ a = b THEN task ELSE load_task[r][a]
    BY <1>1, <2>1, <2>3
  <2>6. QED BY <2>2, <2>4, <2>5
<1>9. CASE AdapterThread
  <2>1. UNCHANGED load_task \/ \E x \in Requests, b \in Adapters : ExecuteLoad(x, b)
    BY <1>9 DEF AdapterThread, AdapterStep, ExecuteStore, ExecuteLookup, ExecuteUnlock
  <2>2. QED BY <1>2, <1>8, <2>1
<1>10. QED BY <1>3, <1>7, <1>9 DEF Next

\* A store task begins with the buffers it has locked, goes on, or ends.
LEMMA StoreTaskMoves ==
    ASSUME SafeInv, [Next]_vars, NEW s \in StoreTasks
    PROVE  \/ store_task'[s].keys = {}
           \/ store_task'[s].keys = store_task[s].keys /\ store_task'[s].objs = store_task[s].objs
           \/ \A k \in store_task'[s].keys : memory_obj'[k] = store_task'[s].objs[k]
<1>1. store_task \in [StoreTasks -> StoreTaskSet] /\ NoStoreTask.keys = {}
  BY SafeParts DEF ManagerTypeOK, TaskTypeOK, NoStoreTask
<1>2. CASE UNCHANGED store_task
  BY <1>2
<1>3. CASE ClientStep \/ Clear \/ EvictionStep \/ PrefetchThread \/ UNCHANGED vars
  <2>1. UNCHANGED store_task
    BY <1>3 DEF ClientStep, StoreBegin, LookupBegin, StoreEnd, LookupSubmit, Poll, Retrieve, RetrieveDone,
                FreeLookupLocks, Clear, EvictionStep, PrefetchThread, PrefetchStep, PrefetchStart,
                PrefetchNothingFound, PrefetchPlan, PrefetchLoaded, PrefetchFinishFailed,
                PrefetchDeleteFailed, PrefetchRelease, vars, l2_vars, l2_store_vars
  <2>2. QED BY <1>2, <2>1
<1>4. ASSUME NEW x \in StoreTasks, StoreComplete(x)
      PROVE  store_task'[s].keys = {} \/ store_task'[s] = store_task[s]
  BY <1>1, <1>4 DEF StoreComplete
<1>5. CASE StoreSubmit
  <2>1. PICK found : found = reserve_read_done(batch)
    OBVIOUS
  <2>2. UNCHANGED store_task \/ \E x \in StoreTasks : submit_store_task(x, Min(targets), found)
    BY <1>5, <2>1 DEF StoreSubmit
  <2>3. memory_obj' = memory_obj
    BY <1>5 DEF StoreSubmit, l1_reserve_read, reserve_read
  <2>4. ASSUME NEW x \in StoreTasks, submit_store_task(x, Min(targets), found)
        PROVE  \/ store_task'[s] = store_task[s]
               \/ \A k \in store_task'[s].keys : memory_obj'[k] = store_task'[s].objs[k]
    <3>1. CASE s # x
      BY <1>1, <2>4, <3>1 DEF submit_store_task
    <3>2. CASE s = x
      <4>1. store_task'[s] = [status |-> "submitted", adapter |-> Min(targets), keys |-> found,
                              objs |-> [k \in found |-> memory_obj[k]], ok |-> FALSE]
        BY <1>1, <2>4, <3>2 DEF submit_store_task
      <4>2. QED BY <2>3, <4>1
    <3>3. QED BY <3>1, <3>2
  <2>5. QED BY <1>2, <2>2, <2>4
<1>6. CASE StoreThread
  <2>1. UNCHANGED store_task \/ StoreSubmit \/ \E x \in StoreTasks : StoreComplete(x)
    BY <1>6 DEF StoreThread, StoreStep, StorePopKeys, StoreDelete, l2_vars
  <2>2. QED BY <1>2, <1>4, <1>5, <2>1
<1>7. ASSUME NEW x \in StoreTasks, ExecuteStore(x)
      PROVE  store_task'[s].keys = store_task[s].keys /\ store_task'[s].objs = store_task[s].objs
  <2>1. \E ok : \/ store_task' = [store_task EXCEPT ![x].status = "done", ![x].ok = ok]
                \/ store_task' = [store_task EXCEPT ![x].status = "done"]
    BY <1>7 DEF ExecuteStore
  <2>2. QED BY <1>1, <2>1 DEF StoreTaskSet
<1>8. CASE AdapterThread
  <2>1. UNCHANGED store_task \/ \E x \in StoreTasks : ExecuteStore(x)
    BY <1>8 DEF AdapterThread, AdapterStep, ExecuteLookup, ExecuteLoad, ExecuteUnlock, l2_store_vars
  <2>2. QED BY <1>2, <1>7, <2>1
<1>9. QED BY <1>3, <1>6, <1>8 DEF Next

\* A buffer that is being copied into or from is still the buffer of its key.
LEMMA BuffersStay ==
    ASSUME SafeInv, [Next]_vars, LocksKept, L2Inv'
    PROVE  BuffersBound'
<1>1. L1Inv' /\ ManagerTypeOK' /\ TasksOK' /\ RequestsOK' /\ ReadLocksAccounted' /\ WritersOwn'
  BY DEF L2Inv, Protocol, LocksKept
<1>2. ASSUME NEW k \in Keys, Locked(k), Locked(k)' PROVE memory_obj'[k] = memory_obj[k]
  BY <1>2 DEF LocksKept, BufferStays
<1>3. ASSUME NEW c \in Requests
      PROVE  /\ Owns(c) \subseteq Keys /\ \A k \in Owns(c) : Locked(k)
             /\ \A k \in Owns(c)' : Locked(k)'
  BY <1>1, SafeParts, OwnsKeys DEF WritersOwn, Locked
<1>4. ASSUME NEW c \in Requests, client'[c].op = "storing", NEW k \in client'[c].held
      PROVE  memory_obj'[k] = client'[c].objs[k]
  <2>1. CASE client'[c] = client[c]
    <3>1. client[c].op = "storing" /\ client[c].held = client'[c].held
      BY <1>4, <2>1
    <3>2. k \in Owns(c) /\ k \in Owns(c)'
      BY <1>4, <3>1 DEF Owns
    <3>3. memory_obj'[k] = memory_obj[k]
      BY <1>2, <1>3, <3>2
    <3>4. memory_obj[k] = client[c].objs[k]
      BY <1>4, <3>1, SafeParts DEF BuffersBound
    <3>5. QED BY <2>1, <3>3, <3>4
  <2>2. CASE client'[c] # client[c]
    BY <1>4, <2>2, StoringMoves
  <2>3. QED BY <2>1, <2>2
<1>5. ASSUME NEW r \in Requests, request[r].phase = "load"
      PROVE  \A k \in request[r].reserved : k \in Owns(r)
  <2>1. client[r].op = "waiting"
    BY <1>5, SafeParts DEF RequestsOK
  <2>2. QED BY <1>5, <2>1 DEF Owns
<1>6. ASSUME NEW r \in Requests, request'[r].phase = "load"
      PROVE  \A k \in request'[r].reserved : k \in Owns(r)'
  <2>1. client'[r].op = "waiting"
    BY <1>1, <1>6 DEF RequestsOK
  <2>2. QED BY <1>6, <2>1 DEF Owns
<1>7. ASSUME NEW r \in Requests, NEW a \in Adapters, load_task'[r][a].status # "none",
             NEW k \in load_task'[r][a].keys
      PROVE  memory_obj'[k] = load_task'[r][a].objs[k]
  <2>1. CASE /\ load_task[r][a].status # "none"
             /\ load_task'[r][a].keys = load_task[r][a].keys
             /\ load_task'[r][a].objs = load_task[r][a].objs
    <3>1. /\ request[r].phase = "load" /\ load_task[r][a].keys = request[r].plan[a]
          /\ request[r].plan[a] \subseteq request[r].reserved
      BY <2>1, SafeParts DEF TasksOK, RequestsOK
    <3>2. /\ request'[r].phase = "load" /\ load_task'[r][a].keys = request'[r].plan[a]
          /\ request'[r].plan[a] \subseteq request'[r].reserved
      BY <1>1, <1>7 DEF TasksOK, RequestsOK
    <3>3. k \in Owns(r) /\ k \in Owns(r)'
      BY <1>5, <1>6, <1>7, <2>1, <3>1, <3>2
    <3>4. memory_obj'[k] = memory_obj[k]
      BY <1>2, <1>3, <3>3
    <3>5. memory_obj[k] = load_task[r][a].objs[k]
      BY <1>7, <2>1, SafeParts DEF BuffersBound
    <3>6. QED BY <2>1, <3>4, <3>5
  <2>2. QED BY <1>7, <2>1, LoadingMoves
<1>8. ASSUME NEW s \in StoreTasks, NEW k \in store_task'[s].keys
      PROVE  memory_obj'[k] = store_task'[s].objs[k]
  <2>1. CASE store_task'[s].keys = store_task[s].keys /\ store_task'[s].objs = store_task[s].objs
    <3>1. Locked(k) /\ k \in Keys
      BY <1>8, <2>1, SafeParts, TasksLocked DEF Locked
    <3>2. Locked(k)'
      BY <1>1, <1>8, TasksLockedNext DEF Locked
    <3>3. memory_obj'[k] = memory_obj[k]
      BY <1>2, <3>1, <3>2
    <3>4. memory_obj[k] = store_task[s].objs[k]
      BY <1>8, <2>1, SafeParts DEF BuffersBound
    <3>5. QED BY <2>1, <3>3, <3>4
  <2>2. QED BY <1>8, <2>1, StoreTaskMoves
<1>9. QED BY <1>4, <1>7, <1>8 DEF BuffersBound

----------------------------------------------------------------------------
(* The theorems: locks, promises and transfers, for every run in which the  *)
(* locks last.                                                              *)

\* The initial state: nobody holds a lock.
LEMMA SafeInit == Init => SafeInv
<1> SUFFICES ASSUME Init PROVE SafeInv
  OBVIOUS
<1>1. L2Inv
  BY L2InvInit
<1>2. /\ store_task = [s \in StoreTasks |-> NoStoreTask]
      /\ load_task = [r \in Requests |-> [a \in Adapters |-> NoTask]]
      /\ request = [r \in Requests |-> NoRequest]
      /\ client = [c \in Requests |-> Idle]
      /\ read_lock = [k \in Keys |-> 0]
  BY DEF Init, L2Init, PrefetchInit, CacheInit, L1Init
<1>3. /\ NoStoreTask.keys = {} /\ NoTask.status = "none" /\ NoRequest.phase = "none" /\ Idle.op = "idle"
  BY DEF NoStoreTask, NoTask, NoRequest, Idle
<1>4. \A c \in Requests : Owns(c) = {}
  BY <1>2, <1>3 DEF Owns
<1>5. WritersOwn
  BY <1>4 DEF WritersOwn
<1>6. BuffersBound
  BY <1>2, <1>3 DEF BuffersBound
<1>7. ASSUME NEW k \in Keys PROVE read_lock[k] = Holds(k)
  <2>1. ASSUME NEW c \in Requests PROVE ClientHolds(c, k) = 0 /\ PrefetchHolds(c, k) = 0
    <3>1. client[c] = Idle /\ request[c] = NoRequest
      BY <1>2
    <3>2. Keeps(Idle, k) = 0 /\ Publishes(NoRequest, k) = 0
      BY <1>3 DEF Keeps, Publishes
    <3>3. Keeps(client[c], k) = 0 /\ Publishes(request[c], k) = 0
      BY <3>1, <3>2
    <3>4. QED BY <3>3, HoldsAre
  <2>2. \A c \in Requests : ClientHeld(k)[c] = 0 /\ PrefetchHeld(k)[c] = 0
    BY <2>1 DEF ClientHeld, PrefetchHeld
  <2>3. SumOver(ClientHeld(k), Requests) = 0 /\ SumOver(PrefetchHeld(k), Requests) = 0
    <3>1. ClientHeld(k) = [c \in Requests |-> 0] /\ PrefetchHeld(k) = [c \in Requests |-> 0]
      BY <2>1 DEF ClientHeld, PrefetchHeld
    <3>2. SumOver([c \in Requests |-> 0], Requests) = 0
      BY SumZero, L2Assumption
    <3>3. QED BY <3>1, <3>2
  <2>4. {s \in StoreTasks : k \in store_task[s].keys} = {}
    BY <1>2, <1>3
  <2>5. StoreHolds(k) = 0
    BY <2>4, FS_EmptySet DEF StoreHolds
  <2>6. QED BY <1>2, <2>3, <2>5 DEF Holds
<1>8. ReadLocksAccounted
  BY <1>7, AccountedSums
<1>9. QED BY <1>1, <1>5, <1>6, <1>8 DEF SafeInv

\* The inductive step.
LEMMA SafeKept == LocksLast /\ SafeInv /\ [Next]_vars => SafeInv'
<1> SUFFICES ASSUME LocksLast, SafeInv, [Next]_vars PROVE SafeInv'
  OBVIOUS
<1>1. L2Inv'
  BY L2InvKept DEF SafeInv
<1>2. LocksKept
  BY LocksStay
<1>3. BuffersBound'
  BY <1>1, <1>2, BuffersStay
<1>4. QED BY <1>1, <1>2, <1>3 DEF SafeInv, LocksKept

\* The invariant of every behaviour in which locks last.
LEMMA SafeHolds ==
    ASSUME LocksLast
    PROVE  Spec => []SafeInv
<1>1. SafeInv /\ [Next]_vars => SafeInv'
  BY SafeKept
<1>2. QED BY <1>1, SafeInit, PTL DEF Spec

\* Every read lock in L1 belongs to somebody who will give it back and who still
\* has all the locks it counts on: no interleaving of lookups, prefetches,
\* retrieves, stores to L2 and evictions, and no failure of one of them, loses a
\* lock or gives back another's.
THEOREM ReadLocksAreAccounted ==
    ASSUME LocksLast
    PROVE  Spec => []ReadLocksAccounted
<1>1. SafeInv => ReadLocksAccounted
  BY SafeParts
<1>2. QED BY <1>1, SafeHolds, PTL

\* What a lookup has promised is in the cache until the last worker has read it:
\* read_prefetched_results never finds a chunk missing.
THEOREM RetrievesSucceed ==
    ASSUME LocksLast
    PROVE  Spec => []RetrieveNeverFails
<1>1. SafeInv => RetrieveNeverFails
  BY PromisesReadable DEF RetrieveNeverFails
<1>2. QED BY <1>1, SafeHolds, PTL

\* A buffer that a GPU copy, a load from L2 or a store to L2 is using is locked
\* and still the buffer of its key.
THEOREM TransfersStayPinned ==
    ASSUME LocksLast
    PROVE  Spec => []TransfersPinned
<1>1. ASSUME SafeInv PROVE TransfersPinned
  <2>1. ASSUME NEW c \in Requests, client[c].op = "storing", NEW k \in client[c].held
        PROVE  memory_obj[k] = client[c].objs[k] /\ WriteLocked(k)
    <3>1. k \in Owns(c)
      BY <2>1 DEF Owns
    <3>2. QED BY <1>1, <2>1, <3>1, SafeParts DEF BuffersBound, WritersOwn
  <2>2. ASSUME NEW r \in Requests, NEW a \in Adapters, load_task[r][a].status = "submitted",
               NEW k \in load_task[r][a].keys
        PROVE  memory_obj[k] = load_task[r][a].objs[k] /\ WriteLocked(k)
    <3>1. /\ request[r].phase = "load" /\ load_task[r][a].keys \subseteq request[r].reserved
          /\ client[r].op = "waiting"
      BY <1>1, <2>2, SafeParts DEF TasksOK, RequestsOK
    <3>2. k \in Owns(r)
      BY <2>2, <3>1 DEF Owns
    <3>3. QED BY <1>1, <2>2, <3>2, SafeParts DEF BuffersBound, WritersOwn
  <2>3. ASSUME NEW s \in StoreTasks, NEW k \in store_task[s].keys
        PROVE  memory_obj[k] = store_task[s].objs[k] /\ ReadLocked(k)
    BY <1>1, <2>3, SafeParts, TasksLocked DEF BuffersBound
  <2>4. QED BY <2>1, <2>2, <2>3 DEF TransfersPinned
<1>2. QED BY <1>1, SafeHolds, PTL

----------------------------------------------------------------------------
(* The data: what can be read is what was stored.                           *)

\* What is not being written holds its data, what L2 has is the key's own, and
\* what has been loaded has arrived.
Readable == \A k \in Resident : ~WriteLocked(k) => content[memory_obj[k]] = k
\* An adapter stores an object under its own key.
TrueObjects == \A a \in Adapters, k \in Keys : l2_objects[a][k] \in {k, Absent}
\* A key that a load reports has its data in the buffer the load was given.
LoadsArrived ==
    \A r \in Requests, a \in Adapters : \A k \in load_task[r][a].ok :
        content[load_task[r][a].objs[k]] = k

\* The inductive invariant of the data.
DataInv == SafeInv /\ Readable /\ TrueObjects /\ LoadsArrived

\* The part of DataInv that is about the data.
DataKept == Readable' /\ TrueObjects' /\ LoadsArrived'

\* Its parts, and the sharing of buffers it excludes, ready to cite.
LEMMA DataParts ==
    ASSUME DataInv
    PROVE  /\ SafeInv /\ Readable /\ TrueObjects /\ LoadsArrived
           /\ memory_obj \in [Keys -> MemObjs \cup {NoObj}] /\ NoObj \notin MemObjs
           /\ \A k \in Resident : k \in Keys /\ memory_obj[k] \in allocated /\ memory_obj[k] \in MemObjs
           /\ \A j, k \in Resident : memory_obj[j] = memory_obj[k] => j = k
<1>1. SafeInv /\ Readable /\ TrueObjects /\ LoadsArrived
  BY DEF DataInv
<1>2. memory_obj \in [Keys -> MemObjs \cup {NoObj}] /\ NoObj \notin MemObjs
  BY <1>1, SafeParts, L1Assumption DEF L1Inv, L1TypeOK
<1>3. \A k \in Resident : k \in Keys /\ memory_obj[k] \in allocated /\ memory_obj[k] \in MemObjs
  BY <1>1, <1>2, SafeParts DEF L1Inv, NoBufferLeaked, Resident
<1>4. \A j, k \in Resident : memory_obj[j] = memory_obj[k] => j = k
  BY <1>1, SafeParts DEF L1Inv, NoBufferShared
<1>5. QED BY <1>1, <1>2, <1>3, <1>4

\* A locked key is resident, and a key that a load is for is locked for writing.
LEMMA LoadTargets ==
    ASSUME DataInv, NEW r \in Requests, NEW a \in Adapters, NEW k \in load_task[r][a].keys,
           load_task[r][a].status # "none"
    PROVE  /\ request[r].phase = "load" /\ client[r].op = "waiting"
           /\ k \in Owns(r) /\ WriteLocked(k) /\ k \in Keys /\ k \in Resident
           /\ load_task[r][a].objs[k] = memory_obj[k]
<1>1. /\ request[r].phase = "load" /\ load_task[r][a].keys \subseteq request[r].reserved
      /\ client[r].op = "waiting" /\ load_task[r][a].objs[k] = memory_obj[k]
  BY DataParts, SafeParts DEF TasksOK, RequestsOK, BuffersBound
<1>2. k \in Owns(r)
  BY <1>1 DEF Owns
<1>3. WriteLocked(k) /\ k \in Keys
  BY <1>2, DataParts, SafeParts, OwnsKeys DEF WritersOwn
<1>4. k \in Resident
  BY <1>3, DataParts, SafeParts DEF L1Inv, LocksOnResidentKeys, Locked
<1>5. QED BY <1>1, <1>2, <1>3, <1>4

\* The data of a key that arrived is in the buffer of the key.
LEMMA ArrivedTargets ==
    ASSUME DataInv, NEW r \in Requests, NEW a \in Adapters, NEW k \in load_task[r][a].ok
    PROVE  /\ load_task[r][a].status # "none" /\ k \in load_task[r][a].keys
           /\ content[memory_obj[k]] = k
<1>1. load_task[r][a].status # "none" /\ k \in load_task[r][a].keys
  BY DataParts, SafeParts DEF TasksOK
<1>2. load_task[r][a].objs[k] = memory_obj[k]
  BY <1>1, LoadTargets
<1>3. QED BY <1>1, <1>2, DataParts DEF LoadsArrived

\* A step that writes no buffer, ends no write and gives no key a new buffer.
LEMMA QuietData ==
    ASSUME DataInv, UNCHANGED <<content, l2_objects>>,
           \A r \in Requests, a \in Adapters :
               load_task'[r][a] = load_task[r][a] \/ load_task'[r][a].ok = {},
           \A k \in Keys : /\ memory_obj'[k] = memory_obj[k] \/ memory_obj'[k] = NoObj
                           /\ write_lock'[k] = write_lock[k]
    PROVE  DataKept
<1>1. ASSUME NEW k \in Keys, memory_obj'[k] # NoObj, ~(write_lock'[k] > 0)
      PROVE  content'[memory_obj'[k]] = k
  <2>1. memory_obj'[k] = memory_obj[k] /\ k \in Resident /\ ~WriteLocked(k)
    BY <1>1 DEF Resident, WriteLocked
  <2>2. QED BY <2>1, DataParts DEF Readable
<1>2. Readable'
  BY <1>1 DEF Readable, Resident, WriteLocked
<1>3. TrueObjects'
  BY DataParts DEF TrueObjects
<1>4. LoadsArrived'
  BY DataParts DEF LoadsArrived
<1>5. QED BY <1>2, <1>3, <1>4 DEF DataKept

\* Every call that takes or gives back read locks, and every deletion.
LEMMA QuietCalls ==
    ASSUME DataInv, NEW keys, NEW n,
           \/ reserve_read(keys, n) \/ finish_read(keys, n)
           \/ delete(keys) \/ clear(FALSE) \/ UNCHANGED l1vars
    PROVE  \A k \in Keys : /\ memory_obj'[k] = memory_obj[k] \/ memory_obj'[k] = NoObj
                           /\ write_lock'[k] = write_lock[k]
<1>1. CASE reserve_read(keys, n) \/ UNCHANGED l1vars
  BY <1>1 DEF reserve_read, l1vars
<1>2. CASE finish_read(keys, n)
  BY <1>2 DEF finish_read, DropObjects
<1>3. CASE delete(keys)
  BY <1>3 DEF delete, DropObjects
<1>4. CASE clear(FALSE)
  <2>1. \A k \in Keys : write_lock'[k] = write_lock[k]
    BY <1>4, DataParts, SafeParts, Dropping
  <2>2. QED BY <1>4, <2>1 DEF clear, DropObjects
<1>5. QED BY <1>1, <1>2, <1>3, <1>4

\* New buffers hold garbage, and their keys are locked for writing.
LEMMA FreshData ==
    ASSUME DataInv, NEW S \in SUBSET Keys, FreshBuffersUnwritten, UNCHANGED l2_objects,
           \A r \in Requests, a \in Adapters :
               load_task'[r][a] = load_task[r][a] \/ load_task'[r][a].ok = {},
           \A k \in S : write_lock'[k] = 1,
           \A k \in Keys \ S : memory_obj'[k] = memory_obj[k] /\ write_lock'[k] = write_lock[k]
    PROVE  DataKept
<1>1. \A b \in MemObjs : b \in allocated => content'[b] = content[b]
  BY DEF FreshBuffersUnwritten
<1>2. ASSUME NEW k \in Keys, memory_obj'[k] # NoObj, ~(write_lock'[k] > 0)
      PROVE  content'[memory_obj'[k]] = k
  <2>1. k \notin S
    BY <1>2
  <2>2. memory_obj'[k] = memory_obj[k] /\ k \in Resident /\ ~WriteLocked(k)
    BY <1>2, <2>1 DEF Resident, WriteLocked
  <2>3. content[memory_obj[k]] = k
    BY <2>2, DataParts DEF Readable
  <2>4. QED BY <1>1, <2>2, <2>3, DataParts
<1>3. Readable'
  BY <1>2 DEF Readable, Resident, WriteLocked
<1>4. TrueObjects'
  BY DataParts DEF TrueObjects
<1>5. LoadsArrived'
  <2>1. SUFFICES ASSUME NEW r \in Requests, NEW a \in Adapters, NEW k \in load_task'[r][a].ok
                 PROVE  content'[load_task'[r][a].objs[k]] = k
    BY DEF LoadsArrived
  <2>2. load_task'[r][a] = load_task[r][a]
    BY <2>1
  <2>3. /\ k \in Resident /\ load_task[r][a].objs[k] = memory_obj[k] /\ content[memory_obj[k]] = k
    BY <2>1, <2>2, ArrivedTargets, LoadTargets
  <2>4. QED BY <1>1, <2>2, <2>3, DataParts
<1>6. QED BY <1>3, <1>4, <1>5 DEF DataKept

\* The buffers of some resident keys are written, each with its key's data; no
\* other buffer is touched.
Fills(S, objs) ==
    content' = [b \in MemObjs |->
        IF \E k \in S : objs[k] = b THEN CHOOSE k \in S : objs[k] = b ELSE content[b]]

\* A copy into the buffers of S disturbs no other key, since no two keys share a
\* buffer.
LEMMA FillsRight ==
    ASSUME DataInv, NEW S, S \subseteq Resident, NEW objs, \A k \in S : objs[k] = memory_obj[k],
           Fills(S, objs)
    PROVE  /\ \A k \in S : content'[memory_obj[k]] = k
           /\ \A k \in Resident : content[memory_obj[k]] = k => content'[memory_obj[k]] = k
<1>1. ASSUME NEW k \in S PROVE content'[memory_obj[k]] = k
  <2>1. PICK j : j = CHOOSE i \in S : objs[i] = memory_obj[k]
    OBVIOUS
  <2>2. j \in S /\ objs[j] = memory_obj[k]
    BY <2>1, Zenon
  <2>3. memory_obj[k] \in MemObjs /\ k \in Resident /\ j \in Resident
    BY <2>2, DataParts
  <2>4. memory_obj[j] = memory_obj[k]
    BY <2>2
  <2>5. j = k
    BY <2>3, <2>4, DataParts
  <2>6. content'[memory_obj[k]] = CHOOSE i \in S : objs[i] = memory_obj[k]
    <3>1. \E i \in S : objs[i] = memory_obj[k]
      BY <2>2
    <3>2. QED BY <2>3, <3>1, Zenon DEF Fills
  <2>7. QED BY <2>1, <2>5, <2>6
<1>2. ASSUME NEW k \in Resident, content[memory_obj[k]] = k PROVE content'[memory_obj[k]] = k
  <2>1. CASE k \in S
    BY <1>1, <2>1
  <2>2. CASE k \notin S
    <3>1. ~ \E j \in S : objs[j] = memory_obj[k]
      BY <2>2, DataParts
    <3>2. memory_obj[k] \in MemObjs
      BY DataParts
    <3>3. content'[memory_obj[k]] = content[memory_obj[k]]
      BY <3>1, <3>2 DEF Fills
    <3>4. QED BY <1>2, <3>3
  <2>3. QED BY <2>1, <2>2
<1>3. QED BY <1>1, <1>2

\* The copies of a store have reached the buffers when its callback runs.
LEMMA StoreEndData ==
    ASSUME DataInv, NEW c \in Requests, StoreEnd(c)
    PROVE  DataKept
<1> DEFINE held == client[c].held
           objs == client[c].objs
<1>1. client[c].op = "storing" /\ finish_write(held) /\ Fills(held, objs)
  BY DEF StoreEnd, l1_finish_write, Fills
<1>2. UNCHANGED <<l2_objects, load_task>>
  BY DEF StoreEnd, l2_store_vars
<1>3. Owns(c) = held
  BY <1>1 DEF Owns
<1>4. held \subseteq Resident /\ \A k \in held : objs[k] = memory_obj[k]
  <2>1. \A k \in held : WriteLocked(k) /\ k \in Keys /\ objs[k] = memory_obj[k]
    BY <1>1, <1>3, DataParts, SafeParts, OwnsKeys DEF WritersOwn, BuffersBound
  <2>2. QED BY <2>1, DataParts, SafeParts DEF L1Inv, LocksOnResidentKeys, Locked
<1> HIDE DEF held, objs
<1>5. /\ \A k \in held : content'[memory_obj[k]] = k
      /\ \A k \in Resident : content[memory_obj[k]] = k => content'[memory_obj[k]] = k
  BY <1>1, <1>4, FillsRight
<1>6. memory_obj' = memory_obj /\ \A k \in Keys \ held : write_lock'[k] = write_lock[k]
  BY <1>1 DEF finish_write, finish_write_done
<1>7. ASSUME NEW k \in Keys, memory_obj'[k] # NoObj, ~(write_lock'[k] > 0)
      PROVE  content'[memory_obj'[k]] = k
  <2>1. CASE k \in held
    BY <1>5, <1>6, <2>1
  <2>2. CASE k \notin held
    <3>1. k \in Resident /\ ~WriteLocked(k)
      BY <1>6, <1>7, <2>2 DEF Resident, WriteLocked
    <3>2. QED BY <1>5, <1>6, <3>1, DataParts DEF Readable
  <2>3. QED BY <2>1, <2>2
<1>8. Readable'
  BY <1>7 DEF Readable, Resident, WriteLocked
<1>9. TrueObjects'
  BY <1>2, DataParts DEF TrueObjects
<1>10. LoadsArrived'
  <2>1. ASSUME NEW r \in Requests, NEW a \in Adapters, NEW k \in load_task[r][a].ok
        PROVE  content'[load_task[r][a].objs[k]] = k
    <3>1. k \in Resident /\ load_task[r][a].objs[k] = memory_obj[k] /\ content[memory_obj[k]] = k
      BY <2>1, ArrivedTargets, LoadTargets
    <3>2. QED BY <1>5, <3>1
  <2>2. QED BY <1>2, <2>1 DEF LoadsArrived
<1>11. QED BY <1>8, <1>9, <1>10 DEF DataKept

\* A load copies what L2 has of each key into the buffer of the key.
LEMMA ExecuteLoadData ==
    ASSUME DataInv, NEW r \in Requests, NEW a \in Adapters, ExecuteLoad(r, a),
           UNCHANGED <<memory_obj, write_lock>>
    PROVE  DataKept
<1>1. PICK loaded \in SUBSET (load_task[r][a].keys \cap Stored(a)) :
         /\ content' = [b \in MemObjs |->
               IF \E k \in loaded : load_task[r][a].objs[k] = b
                 THEN l2_objects[a][CHOOSE k \in loaded : load_task[r][a].objs[k] = b]
                 ELSE content[b]]
         /\ load_task' = [load_task EXCEPT ![r][a] = Completed(load_task[r][a], loaded)]
  BY Zenon DEF ExecuteLoad
<1>2. UNCHANGED l2_objects /\ load_task[r][a].status # "none"
  BY DEF ExecuteLoad, l2_store_vars
<1>3. \A k \in loaded : /\ k \in load_task[r][a].keys /\ k \in Resident
                        /\ load_task[r][a].objs[k] = memory_obj[k]
  BY <1>1, <1>2, LoadTargets
<1>4. \A k \in loaded : l2_objects[a][k] = k
  BY <1>1, DataParts DEF Stored, TrueObjects
<1>5. PICK objs : objs = load_task[r][a].objs
  OBVIOUS
<1>6. Fills(loaded, objs)
  <2>1. ASSUME NEW b \in MemObjs
        PROVE  content'[b] = IF \E k \in loaded : objs[k] = b THEN CHOOSE k \in loaded : objs[k] = b
                             ELSE content[b]
    <3>1. CASE \E k \in loaded : objs[k] = b
      <4>1. PICK j : j = CHOOSE k \in loaded : objs[k] = b
        OBVIOUS
      <4>2. j \in loaded
        BY <3>1, <4>1, Zenon
      <4>3. content'[b] = l2_objects[a][CHOOSE k \in loaded : objs[k] = b]
        BY <1>1, <1>5, <3>1, Zenon
      <4>4. content'[b] = j
        BY <1>4, <4>1, <4>2, <4>3
      <4>5. QED BY <3>1, <4>1, <4>4
    <3>2. CASE ~ \E k \in loaded : objs[k] = b
      <4>1. content'[b] = content[b]
        BY <1>1, <1>5, <3>2
      <4>2. QED BY <3>2, <4>1
    <3>3. QED BY <3>1, <3>2
  <2>2. content' = [b \in MemObjs |-> content'[b]]
    BY <1>1
  <2>3. QED BY <2>1, <2>2, Zenon DEF Fills
<1>7. /\ \A k \in loaded : content'[memory_obj[k]] = k
      /\ \A k \in Resident : content[memory_obj[k]] = k => content'[memory_obj[k]] = k
  <2>1. loaded \subseteq Resident /\ \A k \in loaded : objs[k] = memory_obj[k]
    BY <1>3, <1>5
  <2>2. QED BY <1>6, <2>1, FillsRight
<1>8. Readable'
  BY <1>7, DataParts DEF Readable, Resident, WriteLocked
<1>9. TrueObjects'
  BY <1>2, DataParts DEF TrueObjects
<1>10. LoadsArrived'
  <2>1. SUFFICES ASSUME NEW x \in Requests, NEW b \in Adapters, NEW k \in load_task'[x][b].ok
                 PROVE  content'[load_task'[x][b].objs[k]] = k
    BY DEF LoadsArrived
  <2>2. load_task \in [Requests -> [Adapters -> Tasks]]
    BY DataParts, SafeParts DEF ManagerTypeOK, TaskTypeOK
  <2>3. PICK task : task = Completed(load_task[r][a], loaded)
    OBVIOUS
  <2>4. task.objs = load_task[r][a].objs /\ task.ok = loaded
    <3>1. load_task[r][a] \in Tasks
      BY <2>2
    <3>2. QED BY <2>3, <3>1 DEF Completed, Tasks
  <2>5. load_task'[x][b] = IF x = r /\ b = a THEN task ELSE load_task[x][b]
    BY <1>1, <2>2, <2>3
  <2>6. CASE x = r /\ b = a
    BY <1>3, <1>7, <2>1, <2>4, <2>5, <2>6
  <2>7. CASE ~(x = r /\ b = a)
    <3>1. load_task'[x][b] = load_task[x][b]
      BY <2>5, <2>7
    <3>2. /\ k \in Resident /\ load_task[x][b].objs[k] = memory_obj[k] /\ content[memory_obj[k]] = k
      BY <2>1, <3>1, ArrivedTargets, LoadTargets
    <3>3. QED BY <1>7, <3>1, <3>2
  <2>8. QED BY <2>6, <2>7
<1>11. QED BY <1>8, <1>9, <1>10 DEF DataKept

\* The shelves of an adapter on which every object is its key's own.
TrueShelves(a) == {st \in Shelves(a) : \A k \in Keys : st.objects[k] \in {k, Absent}}

\* Storing one key from its own buffer keeps the shelves of the adapter true.
LEMMA StoreOneTrue ==
    ASSUME ManagerTypeOK, NEW a \in Adapters, NEW keys \in SUBSET Keys, NEW objs \in [keys -> MemObjs],
           \A j \in keys : content[objs[j]] = j, NEW st \in TrueShelves(a), NEW k \in keys
    PROVE  StoreOne(a, objs, st, k) \in TrueShelves(a)
<1>1. PICK next : next = StoreOne(a, objs, st, k)
  OBVIOUS
<1>2. st \in Shelves(a) /\ next \in Shelves(a)
  BY <1>1, StoreOneShelves DEF TrueShelves
<1>3. k \in DOMAIN objs /\ content[objs[k]] = k
  OBVIOUS
<1>4. \/ next = st \/ next = [st EXCEPT !.ok = FALSE]
      \/ \E queue1 : next = [objects |-> [st.objects EXCEPT ![k] = k], queue |-> queue1, ok |-> TRUE]
      \/ \E queue1, victim :
            next = [objects |-> [[st.objects EXCEPT ![victim] = Absent] EXCEPT ![k] = k],
                    queue |-> queue1, ok |-> TRUE]
  <2>1. PICK I, victim : /\ I = {i \in 1..Len(st.queue) : l2_locked[a][st.queue[i]] = 0}
                         /\ victim = IF I # {} THEN Min(I) ELSE 0
    OBVIOUS
  <2>2. CASE ~st.ok \/ st.objects[k] # Absent
    BY <1>1, <2>2 DEF StoreOne, SelectInSeq
  <2>3. CASE ~(~st.ok \/ st.objects[k] # Absent) /\ Len(st.queue) < L2Capacity
    <3>1. next = [objects |-> [st.objects EXCEPT ![k] = content[objs[k]]],
                  queue |-> Append(st.queue, k), ok |-> TRUE]
      BY <1>1, <2>3 DEF StoreOne, SelectInSeq
    <3>2. QED BY <1>3, <3>1, Zenon
  <2>4. CASE ~(~st.ok \/ st.objects[k] # Absent) /\ ~(Len(st.queue) < L2Capacity) /\ victim = 0
    BY <1>1, <2>1, <2>4 DEF StoreOne, SelectInSeq
  <2>5. CASE ~(~st.ok \/ st.objects[k] # Absent) /\ ~(Len(st.queue) < L2Capacity) /\ victim # 0
    <3>1. PICK rest, without :
             /\ rest = SubSeq(st.queue, victim + 1, Len(st.queue)) \o SubSeq(st.queue, 1, victim - 1)
             /\ without = [st.objects EXCEPT ![st.queue[victim]] = Absent]
      OBVIOUS
    <3>2. next = [objects |-> [without EXCEPT ![k] = content[objs[k]]],
                  queue |-> Append(rest, k), ok |-> TRUE]
      BY <1>1, <2>1, <2>5, <3>1 DEF StoreOne, SelectInSeq
    <3>3. QED BY <1>3, <3>1, <3>2, Zenon
  <2>6. QED BY <2>2, <2>3, <2>4, <2>5
<1>5. st.objects \in [Keys -> Data \cup {Absent}] /\ st \in [objects : [Keys -> Data \cup {Absent}],
                                                            queue : Seq(Keys), ok : BOOLEAN]
  BY <1>2 DEF Shelves
<1>6. \A j \in Keys : st.objects[j] \in {j, Absent}
  BY DEF TrueShelves
<1>7. \A j \in Keys : next.objects[j] \in {j, Absent}
  BY <1>4, <1>5, <1>6
<1>8. QED BY <1>1, <1>2, <1>7 DEF TrueShelves

\* A store to L2 copies buffers that are locked for reading.
LEMMA ExecuteStoreData ==
    ASSUME DataInv, NEW s \in StoreTasks, ExecuteStore(s), UNCHANGED <<memory_obj, write_lock>>
    PROVE  DataKept
<1>1. PICK a, keys, objs : a = store_task[s].adapter /\ keys = store_task[s].keys /\ objs = store_task[s].objs
  OBVIOUS
<1>2. store_task[s].status = "submitted" /\ UNCHANGED <<content, load_task>>
  BY DEF ExecuteStore
<1>3. a \in Adapters /\ keys \in SUBSET Keys /\ objs \in [keys -> MemObjs]
  <2>1. store_task[s] \in StoreTaskSet /\ ManagerTypeOK
    BY DataParts, SafeParts DEF ManagerTypeOK, TaskTypeOK
  <2>2. a \in Adapters /\ DOMAIN objs = keys
    BY <1>1, <1>2, DataParts, SafeParts DEF TasksOK, StoreTasksOK
  <2>3. keys \in SUBSET Keys /\ objs \in Buffers
    BY <1>1, <2>1 DEF StoreTaskSet
  <2>4. QED BY <2>2, <2>3 DEF Buffers
<1>4. \A k \in keys : content[objs[k]] = k
  <2>1. ASSUME NEW k \in keys PROVE content[objs[k]] = k
    <3>1. ReadLocked(k) /\ k \in Keys /\ objs[k] = memory_obj[k]
      BY <1>1, DataParts, SafeParts, TasksLocked DEF BuffersBound
    <3>2. k \in Resident /\ ~WriteLocked(k)
      BY <3>1, DataParts, SafeParts DEF L1Inv, LocksOnResidentKeys, ReadersExcludeWriters, Locked
    <3>3. QED BY <3>1, <3>2, DataParts DEF Readable
  <2>2. QED BY <2>1
<1>5. PICK st0 : st0 = [objects |-> l2_objects[a], queue |-> l2_queue[a], ok |-> TRUE]
  OBVIOUS
<1>6. PICK result : result = StoreAll(a, objs, keys, st0)
  OBVIOUS
<1>7. result \in TrueShelves(a)
  <2>1. st0 \in TrueShelves(a)
    <3>1. ManagerTypeOK /\ \A k \in Keys : l2_objects[a][k] \in {k, Absent}
      BY <1>3, DataParts, SafeParts DEF TrueObjects
    <3>2. QED BY <1>3, <1>5, <3>1 DEF TrueShelves, Shelves, ManagerTypeOK, AdapterTypeOK
  <2>2. \A st \in TrueShelves(a), k \in keys : StoreOne(a, objs, st, k) \in TrueShelves(a)
    BY <1>3, <1>4, DataParts, SafeParts, StoreOneTrue
  <2>3. IsFiniteSet(keys) /\ \A k \in keys : k \in Nat
    BY <1>3, CacheAssumption, FS_Subset
  <2>4. QED BY <1>6, <2>1, <2>2, <2>3, StoreAllKeeps
<1>8. TrueObjects'
  <2>1. l2_objects' = [l2_objects EXCEPT ![a] = result.objects] \/ l2_objects' = l2_objects
    BY <1>1, <1>5, <1>6 DEF ExecuteStore
  <2>2. \A k \in Keys : result.objects[k] \in {k, Absent}
    BY <1>7 DEF TrueShelves
  <2>3. l2_objects \in [Adapters -> [Keys -> Data \cup {Absent}]] /\ TrueObjects
    BY DataParts, SafeParts DEF ManagerTypeOK, AdapterTypeOK
  <2>4. QED BY <1>3, <2>1, <2>2, <2>3 DEF TrueObjects
<1>9. Readable' /\ LoadsArrived'
  BY <1>2, DataParts DEF Readable, LoadsArrived, Resident, WriteLocked
<1>10. QED BY <1>8, <1>9 DEF DataKept

\* What a prefetch publishes has arrived.
LEMMA LoadedData ==
    ASSUME DataInv, NEW r \in Requests, PrefetchLoaded(r)
    PROVE  DataKept
<1>1. PICK loaded \in SUBSET request[r].reserved :
         /\ \A k \in loaded : \E a \in Adapters : k \in load_task[r][a].ok
         /\ finish_write_and_reserve_read(loaded, NumWorkers - 1)
         /\ load_task' = [load_task EXCEPT ![r] = [a \in Adapters |-> NoTask]]
         /\ UNCHANGED <<content, l2_store_vars, l2_locked, lookup_task, queue>>
  BY DataParts, SafeParts, LoadedEffect, Zenon
<1>2. memory_obj' = memory_obj /\ \A k \in Keys \ loaded : write_lock'[k] = write_lock[k]
  BY <1>1 DEF finish_write_and_reserve_read, finish_write_done
<1>3. ASSUME NEW k \in Keys, memory_obj'[k] # NoObj, ~(write_lock'[k] > 0)
      PROVE  content'[memory_obj'[k]] = k
  <2>1. CASE k \in loaded
    <3>1. PICK a \in Adapters : k \in load_task[r][a].ok
      BY <1>1, <2>1
    <3>2. content[memory_obj[k]] = k
      BY <3>1, ArrivedTargets
    <3>3. QED BY <1>1, <1>2, <3>2
  <2>2. CASE k \notin loaded
    <3>1. k \in Resident /\ ~WriteLocked(k)
      BY <1>2, <1>3, <2>2 DEF Resident, WriteLocked
    <3>2. QED BY <1>1, <1>2, <3>1, DataParts DEF Readable
  <2>3. QED BY <2>1, <2>2
<1>4. Readable'
  BY <1>3 DEF Readable, Resident, WriteLocked
<1>5. TrueObjects'
  BY <1>1, DataParts DEF TrueObjects, l2_store_vars
<1>6. LoadsArrived'
  <2>1. \A x \in Requests, a \in Adapters : load_task'[x][a] = load_task[x][a] \/ load_task'[x][a].ok = {}
    BY <1>1, DataParts, SafeParts DEF ManagerTypeOK, TaskTypeOK, NoTask
  <2>2. QED BY <1>1, <2>1, DataParts DEF LoadsArrived
<1>7. QED BY <1>4, <1>5, <1>6 DEF DataKept

\* The buffers of a store hold garbage until its copies are done.
LEMMA StoreBeginData ==
    ASSUME DataInv, NEW c \in Requests, NEW keys \in SUBSET Keys, StoreBegin(c, keys)
    PROVE  DataKept
<1>1. /\ \A k \in Got(keys) : k \in Keys /\ write_lock'[k] = 1
      /\ \A k \in Keys \ Got(keys) : memory_obj'[k] = memory_obj[k] /\ write_lock'[k] = write_lock[k]
  <2>1. reserve_write(keys, {}, "new")
    BY DEF StoreBegin, l1_reserve_write
  <2>2. L1Inv /\ {} \in SUBSET Keys
    BY DataParts, SafeParts
  <2>3. QED BY <2>1, <2>2, ReserveNew
<1>2. FreshBuffersUnwritten /\ UNCHANGED <<l2_objects, load_task>>
  BY DEF StoreBegin, l2_store_vars
<1>3. Got(keys) \in SUBSET Keys
  BY <1>1
<1>4. QED BY <1>1, <1>2, <1>3, FreshData

\* So do the buffers of a prefetch until the loads have arrived.
LEMMA PlanData ==
    ASSUME DataInv, NEW r \in Requests, PrefetchPlan(r)
    PROVE  DataKept
<1>0. PICK reserved \in SUBSET request[r].keys, trimmed \in [Adapters -> SUBSET Keys], phase \in Phases :
         Planned(r, reserved, trimmed, phase)
  BY DataParts, SafeParts, PlanEffect
<1>1. /\ request[r].phase = "lookup" /\ \A a \in Adapters : lookup_task[r][a].status = "done"
      /\ \A a \in Adapters : /\ trimmed[a] \subseteq lookup_task[r][a].ok
                             /\ trimmed[a] \subseteq reserved
      /\ \/ phase = "load"
         \/ /\ phase = IF reserved = {} THEN "done" ELSE "finish_failed"
            /\ \A a \in Adapters : trimmed[a] = {}
      /\ Moves(r, phase, trimmed, reserved, {})
      /\ lookup_task' = [lookup_task EXCEPT ![r] = [a \in Adapters |-> NoTask]]
      /\ load_task' = [load_task EXCEPT ![r] = [a \in Adapters |->
            IF trimmed[a] = {} THEN NoTask
            ELSE Submitted(trimmed[a], [k \in trimmed[a] |-> memory_obj'[k]])]]
      /\ l2_unlocks' = [a \in Adapters |-> [k \in Keys |->
            IF k \in lookup_task[r][a].ok \ trimmed[a] THEN l2_unlocks[a][k] + 1
                                                       ELSE l2_unlocks[a][k]]]
      /\ \A k \in reserved : /\ k \notin Resident /\ ~Locked(k)
                             /\ memory_obj'[k] \in MemObjs \ allocated
                             /\ write_lock'[k] = 1
      /\ \A k \in Keys \ reserved : /\ memory_obj'[k] = memory_obj[k]
                                    /\ write_lock'[k] = write_lock[k]
      /\ read_lock' = read_lock
      /\ FreshBuffersUnwritten
      /\ UNCHANGED <<l2_objects, store_task, l2_locked, queue>>
  BY <1>0 DEF Planned
<1>2. reserved \in SUBSET Keys
  BY <1>1, DataParts, SafeParts DEF Prefetches
<1>3. ASSUME NEW x \in Requests, NEW a \in Adapters
      PROVE  load_task'[x][a] = load_task[x][a] \/ load_task'[x][a].ok = {}
  <2>1. CASE x = r
    <3>1. load_task'[r][a] = IF trimmed[a] = {} THEN NoTask
                             ELSE Submitted(trimmed[a], [k \in trimmed[a] |-> memory_obj'[k]])
      BY <1>1, DataParts, SafeParts DEF ManagerTypeOK, TaskTypeOK
    <3>2. QED BY <2>1, <3>1 DEF NoTask, Submitted
  <2>2. CASE x # r
    BY <1>1, <2>2, DataParts, SafeParts DEF ManagerTypeOK, TaskTypeOK
  <2>3. QED BY <2>1, <2>2
<1>4. /\ FreshBuffersUnwritten /\ UNCHANGED l2_objects
      /\ \A k \in reserved : write_lock'[k] = 1
      /\ \A k \in Keys \ reserved : memory_obj'[k] = memory_obj[k] /\ write_lock'[k] = write_lock[k]
  BY <1>1
<1>5. QED BY <1>2, <1>3, <1>4, FreshData

\* No prefetch has to clean up keys that it reserved and could not load.
NoFailedPrefetch == \A r \in Requests : request[r].phase # "finish_failed"

\* Every step that only takes, counts or gives back locks, or deletes.
LEMMA CallsData ==
    ASSUME DataInv, UNCHANGED <<content, l2_objects, load_task>>, NEW keys, NEW n,
           \/ reserve_read(keys, n) \/ finish_read(keys, n)
           \/ delete(keys) \/ clear(FALSE) \/ UNCHANGED l1vars
    PROVE  DataKept
<1>1. \A k \in Keys : /\ memory_obj'[k] = memory_obj[k] \/ memory_obj'[k] = NoObj
                      /\ write_lock'[k] = write_lock[k]
  BY QuietCalls
<1>2. QED BY <1>1, QuietData

\* The data through the steps of each thread: the request handlers ...
LEMMA ClientData ==
    ASSUME LocksLast, DataInv, ClientStep \/ Clear
    PROVE  DataKept
<1>1. ASSUME NEW c \in Requests, NEW keys \in KeyLists, StoreBegin(c, keys) PROVE DataKept
  BY <1>1, ManagerAssumption, StoreBeginData
<1>2. ASSUME NEW c \in Requests, NEW keys \in KeyLists, LookupBegin(c, keys) PROVE DataKept
  <2>1. reserve_read(keys, NumWorkers - 1) /\ UNCHANGED <<content, l2_objects, load_task>>
    BY <1>2 DEF LookupBegin, l1_reserve_read, l2_vars
  <2>2. QED BY <2>1, CallsData
<1>3. ASSUME NEW c \in Requests, StoreEnd(c) PROVE DataKept
  BY <1>3, StoreEndData
<1>4. ASSUME NEW c \in Requests, LookupSubmit(c) PROVE DataKept
  <2>1. finish_read(client[c].skipped, NumWorkers - 1) /\ UNCHANGED <<content, l2_objects, load_task>>
    BY <1>4 DEF LookupSubmit, l1_finish_read, l2_vars
  <2>2. QED BY <2>1, CallsData
<1>5. ASSUME NEW c \in Requests, Poll(c) PROVE DataKept
  <2>1. UNCHANGED l1vars /\ UNCHANGED <<content, l2_objects, load_task>>
    BY <1>5 DEF Poll, cache_vars, l2_vars
  <2>2. QED BY <2>1, CallsData
<1>6. ASSUME NEW c \in Requests, Retrieve(c) PROVE DataKept
  <2>1. \E keys : finish_read(keys, 0) \/ UNCHANGED l1vars
    BY <1>6 DEF Retrieve, l1_finish_read
  <2>2. UNCHANGED <<content, l2_objects, load_task>>
    BY <1>6 DEF Retrieve, l2_vars
  <2>3. QED BY <2>1, <2>2, CallsData
<1>7. ASSUME NEW c \in Requests, RetrieveDone(c) PROVE DataKept
  <2>1. finish_read(client[c].held, 0) /\ UNCHANGED <<content, l2_objects, load_task>>
    BY <1>7 DEF RetrieveDone, l1_finish_read, l2_vars
  <2>2. QED BY <2>1, CallsData
<1>8. ASSUME NEW c \in Requests, FreeLookupLocks(c) PROVE DataKept
  <2>1. \E keys : finish_read(keys, NumWorkers - 1)
    BY <1>8 DEF FreeLookupLocks, l1_finish_read
  <2>2. UNCHANGED <<content, l2_objects, load_task>>
    BY <1>8 DEF FreeLookupLocks, l2_vars
  <2>3. QED BY <2>1, <2>2, CallsData
<1>9. CASE Clear
  <2>1. clear(FALSE)
    BY <1>9, ManagerAssumption DEF Clear, l1_clear, LocksLast
  <2>2. UNCHANGED <<content, l2_objects, load_task>>
    BY <1>9 DEF Clear, l2_vars
  <2>3. QED BY <2>1, <2>2, CallsData
<1>10. QED BY <1>1, <1>2, <1>3, <1>4, <1>5, <1>6, <1>7, <1>8, <1>9 DEF ClientStep

\* ... the eviction loop ...
LEMMA EvictionData ==
    ASSUME LocksLast, DataInv, EvictionStep
    PROVE  DataKept
<1>1. UNCHANGED <<content, l2_objects, load_task>>
  BY DEF EvictionStep, l2_vars
<1>2. delete(victims) \/ UNCHANGED l1vars
  BY DEF EvictionStep, EvictionLoop, Expire, LocksLast, EvictionCheck, EvictionChoose,
         EvictionExecute, l1_delete
<1>3. QED BY <1>1, <1>2, CallsData

\* ... the store controller ...
LEMMA StoreData ==
    ASSUME DataInv, StoreThread
    PROVE  DataKept
<1>1. CASE StorePopKeys
  <2>1. UNCHANGED l1vars /\ UNCHANGED <<content, l2_objects, load_task>>
    BY <1>1 DEF StorePopKeys, pop_pending_keys, l2_vars
  <2>2. QED BY <2>1, CallsData
<1>2. CASE StoreSubmit
  <2>1. reserve_read(batch, 0) /\ UNCHANGED <<content, l2_objects, load_task>>
    BY <1>2 DEF StoreSubmit, l1_reserve_read
  <2>2. QED BY <2>1, CallsData
<1>3. CASE StoreDelete
  <2>1. delete(deletions) /\ UNCHANGED <<content, l2_objects, load_task>>
    BY <1>3 DEF StoreDelete, l1_delete, l2_vars
  <2>2. QED BY <2>1, CallsData
<1>4. ASSUME NEW s \in StoreTasks, StoreComplete(s) PROVE DataKept
  <2>1. finish_read(store_task[s].keys, 0) /\ UNCHANGED <<content, l2_objects, load_task>>
    BY <1>4 DEF StoreComplete, l1_finish_read
  <2>2. QED BY <2>1, CallsData
<1>5. QED BY <1>1, <1>2, <1>3, <1>4 DEF StoreThread, StoreStep

\* ... the prefetch controller, as long as no load fails ...
LEMMA PrefetchData ==
    ASSUME DataInv, NoFailedPrefetch, PrefetchThread
    PROVE  DataKept
<1>1. CASE PrefetchStart
  <2>1. UNCHANGED l1vars /\ UNCHANGED <<content, l2_objects, load_task>>
    BY <1>1 DEF PrefetchStart, cache_vars, l2_store_vars
  <2>2. QED BY <2>1, CallsData
<1>2. ASSUME NEW r \in Requests, PrefetchNothingFound(r) PROVE DataKept
  <2>1. UNCHANGED l1vars /\ UNCHANGED <<content, l2_objects, load_task>>
    BY <1>2 DEF PrefetchNothingFound, cache_vars, l2_store_vars
  <2>2. QED BY <2>1, CallsData
<1>3. ASSUME NEW r \in Requests, PrefetchDeleteFailed(r) PROVE DataKept
  <2>1. /\ delete(request[r].reserved \ request[r].loaded)
        /\ UNCHANGED <<content, l2_objects, load_task>>
    BY <1>3 DEF PrefetchDeleteFailed, l1_delete, l2_vars
  <2>2. QED BY <2>1, CallsData
<1>4. ASSUME NEW r \in Requests, PrefetchRelease(r) PROVE DataKept
  <2>1. \E keys : finish_read(keys, NumWorkers - 1)
    BY <1>4 DEF PrefetchRelease, l1_finish_read
  <2>2. UNCHANGED <<content, l2_objects, load_task>>
    BY <1>4 DEF PrefetchRelease, l2_vars
  <2>3. QED BY <2>1, <2>2, CallsData
<1>5. ASSUME NEW r \in Requests, PrefetchFinishFailed(r) PROVE FALSE
  BY <1>5 DEF PrefetchFinishFailed, NoFailedPrefetch
<1>6. QED BY <1>1, <1>2, <1>3, <1>4, <1>5, PlanData, LoadedData DEF PrefetchThread, PrefetchStep

\* ... and the adapters.
LEMMA AdapterData ==
    ASSUME DataInv, AdapterThread
    PROVE  DataKept
<1>1. UNCHANGED l1vars /\ UNCHANGED <<memory_obj, write_lock>>
  BY DEF AdapterThread, AdapterStep, cache_vars, l1vars
<1>2. ASSUME NEW s \in StoreTasks, ExecuteStore(s) PROVE DataKept
  BY <1>1, <1>2, ExecuteStoreData
<1>3. ASSUME NEW r \in Requests, NEW a \in Adapters, ExecuteLoad(r, a) PROVE DataKept
  BY <1>1, <1>3, ExecuteLoadData
<1>4. ASSUME NEW r \in Requests, NEW a \in Adapters, ExecuteLookup(r, a) PROVE DataKept
  <2>1. UNCHANGED <<content, l2_objects, load_task>>
    BY <1>4 DEF ExecuteLookup, l2_store_vars
  <2>2. QED BY <1>1, <2>1, CallsData
<1>5. ASSUME NEW a \in Adapters, NEW k \in Keys, ExecuteUnlock(a, k) PROVE DataKept
  <2>1. UNCHANGED <<content, l2_objects, load_task>>
    BY <1>5 DEF ExecuteUnlock, l2_store_vars
  <2>2. QED BY <1>1, <2>1, CallsData
<1>6. QED BY <1>2, <1>3, <1>4, <1>5 DEF AdapterThread, AdapterStep

\* The initial state: nothing is stored anywhere.
LEMMA DataInit == Init => DataInv
<1> SUFFICES ASSUME Init PROVE DataInv
  OBVIOUS
<1>1. /\ memory_obj = [k \in Keys |-> NoObj]
      /\ l2_objects = [a \in Adapters |-> [k \in Keys |-> Absent]]
      /\ load_task = [r \in Requests |-> [a \in Adapters |-> NoTask]]
  BY DEF Init, CacheInit, L1Init, L2Init
<1>2. Readable
  BY <1>1 DEF Readable, Resident
<1>3. TrueObjects
  BY <1>1 DEF TrueObjects
<1>4. LoadsArrived
  BY <1>1 DEF LoadsArrived, NoTask
<1>5. QED BY <1>2, <1>3, <1>4, SafeInit DEF DataInv

\* The inductive step. A failed load is the one case it cannot pass.
LEMMA DataStays == LocksLast /\ DataInv /\ NoFailedPrefetch /\ [Next]_vars => DataInv'
<1> SUFFICES ASSUME LocksLast, DataInv, NoFailedPrefetch, [Next]_vars PROVE DataInv'
  OBVIOUS
<1>1. SafeInv'
  BY SafeKept DEF DataInv
<1>2. CASE UNCHANGED vars
  <2>1. UNCHANGED l1vars /\ UNCHANGED <<content, l2_objects, load_task>>
    BY <1>2 DEF vars, cache_vars, l2_vars
  <2>2. QED BY <1>1, <2>1, CallsData DEF DataInv, DataKept
<1>3. CASE Next
  <2>1. DataKept
    BY <1>3, ClientData, EvictionData, StoreData, PrefetchData, AdapterData DEF Next
  <2>2. QED BY <1>1, <2>1 DEF DataInv, DataKept
<1>4. QED BY <1>2, <1>3

\* A reader is never given, and L2 never keeps, the data of another key or a
\* buffer nobody has filled, as long as no prefetch fails half way: that
\* clean-up, which finish_write's the failed keys before it deletes them, is the
\* only step of any thread that can publish a chunk without its data.
THEOREM OnlyFailedPrefetchesPublishGarbage ==
    ASSUME LocksLast
    PROVE  Spec /\ []NoFailedPrefetch => []PublishedDataValid
<1>1. DataInv /\ NoFailedPrefetch /\ [Next]_vars => DataInv'
  BY DataStays
<1>2. DataInv => PublishedDataValid
  <2>1. SUFFICES ASSUME DataInv PROVE PublishedDataValid
    OBVIOUS
  <2>2. Readable /\ TrueObjects
    BY <2>1 DEF DataInv
  <2>3. QED BY <2>2 DEF PublishedDataValid, Readable, TrueObjects, available_for_read
<1>3. QED BY <1>1, <1>2, DataInit, PTL DEF Spec
=============================================================================
