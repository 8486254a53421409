----------------------------- MODULE L1Manager -----------------------------
(***************************************************************************)
(* lmcache/v1/distributed/l1_manager.py: the life cycle of the objects in  *)
(* the L1 (CPU memory) cache, with the memory manager below it.            *)
(*                                                                         *)
(* Every method runs under L1Manager._lock, so every method is one action. *)
(* A list of keys is a set, as in every call of a client or of the         *)
(* prefetch controller (StoreController.tla says what it may repeat).  Each*)
(* TTLLock is the number of its holds in force (TTLLock.tla shows that     *)
(* this is all a caller under a mutex can see); its expiration is the      *)
(* environment action ExpireWrite or ExpireRead.                           *)
(*                                                                         *)
(* The successful keys of a call, which the code hands to the registered   *)
(* listeners before it releases the lock, are an operator of their own     *)
(* (...Done); L1Cache.tla conjoins the listeners' reactions.               *)
(***************************************************************************)
EXTENDS Integers, Functions

CONSTANTS
    Keys,                   \* ObjectKey
    MemObjs,                \* the buffers L1 memory can hold
    NoObj,                  \* "no buffer": the key is not in _objects
    MAX_READ_LOCK_COUNT,    \* 128 in the code
    ExtraCounts             \* the extra_count arguments callers pass

ASSUME L1Assumption ==
    /\ NoObj \notin MemObjs
    /\ MAX_READ_LOCK_COUNT \in Nat \ {0}
    /\ ExtraCounts \subseteq Int

VARIABLES
    memory_obj,     \* the buffer of every key, NoObj when the key is absent
    write_lock,     \* holds of L1ObjectState.write_lock
    read_lock,      \* holds of L1ObjectState.read_lock
    is_temporary,   \* L1ObjectState.is_temporary
    allocated       \* the buffers the memory manager has handed out

l1vars == <<memory_obj, write_lock, read_lock, is_temporary, allocated>>

Modes == {"new", "update", "all"}

\* The keys of _objects.
Resident == {k \in Keys : memory_obj[k] # NoObj}

WriteLocked(k) == write_lock[k] > 0
ReadLocked(k) == read_lock[k] > 0
Locked(k) == WriteLocked(k) \/ ReadLocked(k)

available_for_read(k) == ~WriteLocked(k)

\* Mutant: readers do not keep a writer out.
available_for_write_ignoring_readers(k) == ~WriteLocked(k) /\ ~is_temporary[k]

available_for_write(k) == ~WriteLocked(k) /\ ~ReadLocked(k) /\ ~is_temporary[k]

validate_extra_count(extra_count) ==
    CASE extra_count < 0 -> 0
      [] extra_count > MAX_READ_LOCK_COUNT - 1 -> MAX_READ_LOCK_COUNT - 1
      [] OTHER -> extra_count

\* Locks taken or given back per key by a call with this extra_count.
Total(extra_count) == 1 + validate_extra_count(extra_count)

\* n unlock() calls: the counter stops at zero.
Released(holds, n) == IF holds > n THEN holds - n ELSE 0

\* Take the keys of S out of _objects and free their buffers.
DropObjects(S) ==
    /\ memory_obj' = [k \in Keys |-> IF k \in S THEN NoObj ELSE memory_obj[k]]
    /\ is_temporary' = [k \in Keys |-> k \notin S /\ is_temporary[k]]
    /\ allocated' = allocated \ {memory_obj[k] : k \in S}

L1Init ==
    /\ memory_obj = [k \in Keys |-> NoObj]
    /\ write_lock = [k \in Keys |-> 0]
    /\ read_lock = [k \in Keys |-> 0]
    /\ is_temporary = [k \in Keys |-> FALSE]
    /\ allocated = {}

----------------------------------------------------------------------------
reserve_read_done(keys) == {k \in keys \cap Resident : available_for_read(k)}

reserve_read(keys, extra_count) ==
    /\ read_lock' = [k \in Keys |-> IF k \in reserve_read_done(keys)
                                      THEN read_lock[k] + Total(extra_count)
                                      ELSE read_lock[k]]
    /\ UNCHANGED <<memory_obj, write_lock, is_temporary, allocated>>

\* unsafe_read changes nothing; this is the set of keys it serves.
unsafe_read_done(keys) == {k \in keys \cap Resident : ReadLocked(k)}

finish_read_done(keys) ==
    {k \in keys \cap Resident : ~WriteLocked(k) /\ ReadLocked(k)}

\* Temporary objects that lose their last read lock are deleted.
finish_read_deleted(keys, extra_count) ==
    {k \in finish_read_done(keys) :
        is_temporary[k] /\ Released(read_lock[k], Total(extra_count)) = 0}

\* Mutant: the temporary object is forgotten but its buffer is not freed.
finish_read_leaking(keys, extra_count) ==
    LET deleted == finish_read_deleted(keys, extra_count) IN
    /\ read_lock' = [k \in Keys |-> IF k \in finish_read_done(keys)
                                      THEN Released(read_lock[k], Total(extra_count))
                                      ELSE read_lock[k]]
    /\ memory_obj' = [k \in Keys |-> IF k \in deleted THEN NoObj ELSE memory_obj[k]]
    /\ is_temporary' = [k \in Keys |-> k \notin deleted /\ is_temporary[k]]
    /\ UNCHANGED <<write_lock, allocated>>

finish_read(keys, extra_count) ==
    /\ read_lock' = [k \in Keys |-> IF k \in finish_read_done(keys)
                                      THEN Released(read_lock[k], Total(extra_count))
                                      ELSE read_lock[k]]
    /\ DropObjects(finish_read_deleted(keys, extra_count))
    /\ UNCHANGED write_lock

----------------------------------------------------------------------------
\* Mutant: a resident key that is not being written gets a new buffer.
reserve_write_absent_overwriting(keys, mode) ==
    {k \in keys : mode # "update" /\ ~WriteLocked(k)}

\* The existing keys a reserve_write call locks, and the keys it has to
\* allocate a buffer for.
reserve_write_existing(keys, mode) ==
    {k \in keys \cap Resident : mode # "new" /\ available_for_write(k)}

reserve_write_absent(keys, mode) ==
    {k \in keys \ Resident : mode # "update"}

\* The allocator hands out as many free buffers as there are absent keys.
reserve_write_allocated(keys, temporary, mode) ==
    LET existing == reserve_write_existing(keys, mode)
        absent == reserve_write_absent(keys, mode)
    IN  \E buf \in Injection(absent, MemObjs \ allocated) :
        /\ memory_obj' = [k \in Keys |-> IF k \in absent THEN buf[k] ELSE memory_obj[k]]
        /\ write_lock' = [k \in Keys |-> IF k \in existing \cup absent
                                           THEN write_lock[k] + 1 ELSE write_lock[k]]
        /\ is_temporary' = [k \in Keys |-> IF k \in absent THEN k \in temporary
                                                            ELSE is_temporary[k]]
        /\ allocated' = allocated \cup Range(buf)
        /\ UNCHANGED read_lock

\* Out of memory: no absent key gets a buffer, the existing ones are locked
\* all the same.  The objects of the precision tiers differ in size, so an
\* allocation may fail whatever the number of free buffers.
reserve_write_oom(keys, mode) ==
    /\ reserve_write_absent(keys, mode) # {}
    /\ write_lock' = [k \in Keys |-> IF k \in reserve_write_existing(keys, mode)
                                       THEN write_lock[k] + 1 ELSE write_lock[k]]
    /\ UNCHANGED <<memory_obj, read_lock, is_temporary, allocated>>

reserve_write(keys, temporary, mode) ==
    reserve_write_allocated(keys, temporary, mode) \/ reserve_write_oom(keys, mode)

----------------------------------------------------------------------------
finish_write_done(keys) ==
    {k \in keys \cap Resident : WriteLocked(k) /\ ~ReadLocked(k)}

finish_write(keys) ==
    /\ write_lock' = [k \in Keys |-> IF k \in finish_write_done(keys)
                                       THEN write_lock[k] - 1 ELSE write_lock[k]]
    /\ UNCHANGED <<memory_obj, read_lock, is_temporary, allocated>>

finish_write_and_reserve_read(keys, extra_count) ==
    /\ write_lock' = [k \in Keys |-> IF k \in finish_write_done(keys)
                                       THEN write_lock[k] - 1 ELSE write_lock[k]]
    /\ read_lock' = [k \in Keys |-> IF k \in finish_write_done(keys)
                                      THEN read_lock[k] + Total(extra_count)
                                      ELSE read_lock[k]]
    /\ UNCHANGED <<memory_obj, is_temporary, allocated>>

----------------------------------------------------------------------------
\* Mutant: only writers keep an object in the cache.
delete_done_ignoring_readers(keys) == {k \in keys \cap Resident : ~WriteLocked(k)}

delete_done(keys) == {k \in keys \cap Resident : ~Locked(k)}

delete(keys) ==
    /\ DropObjects(delete_done(keys))
    /\ UNCHANGED <<write_lock, read_lock>>

\* Mutant: a reader does not keep its object in the cache.
clear_done_ignoring_readers(force) == {k \in Resident : force \/ ~WriteLocked(k)}

clear_done(force) == {k \in Resident : force \/ ~Locked(k)}

\* Mutant: a forced clear drops the objects and leaves their locks behind.
clear_keeping_locks(force) ==
    /\ DropObjects(clear_done(force))
    /\ UNCHANGED <<write_lock, read_lock>>

\* A forced clear takes the locked objects, and their locks, with it.
clear(force) ==
    /\ DropObjects(clear_done(force))
    /\ write_lock' = [k \in Keys |-> IF k \in clear_done(force) THEN 0 ELSE write_lock[k]]
    /\ read_lock' = [k \in Keys |-> IF k \in clear_done(force) THEN 0 ELSE read_lock[k]]

\* The TTL of a lock runs out.
ExpireWrite(k) ==
    /\ WriteLocked(k)
    /\ write_lock' = [write_lock EXCEPT ![k] = 0]
    /\ UNCHANGED <<memory_obj, read_lock, is_temporary, allocated>>

ExpireRead(k) ==
    /\ ReadLocked(k)
    /\ read_lock' = [read_lock EXCEPT ![k] = 0]
    /\ UNCHANGED <<memory_obj, write_lock, is_temporary, allocated>>

----------------------------------------------------------------------------
(* The manager in an open environment: any caller, any arguments, any order.*)

L1Next ==
    \/ \E keys \in SUBSET Keys :
        \/ \E n \in ExtraCounts :
            \/ reserve_read(keys, n)
            \/ finish_read(keys, n)
            \/ finish_write_and_reserve_read(keys, n)
        \/ \E temporary \in SUBSET keys, mode \in Modes :
            reserve_write(keys, temporary, mode)
        \/ finish_write(keys)
        \/ delete(keys)
    \/ \E force \in BOOLEAN : clear(force)
    \/ \E k \in Keys : ExpireWrite(k) \/ ExpireRead(k)

L1Spec == L1Init /\ [][L1Next]_l1vars

----------------------------------------------------------------------------
L1TypeOK ==
    /\ memory_obj \in [Keys -> MemObjs \cup {NoObj}]
    /\ write_lock \in [Keys -> Nat]
    /\ read_lock \in [Keys -> Nat]
    /\ is_temporary \in [Keys -> BOOLEAN]
    /\ allocated \in SUBSET MemObjs

\* A key is never write-locked and read-locked at once, and has at most one
\* writer: neither the joint hand-over of finish_write_and_reserve_read, nor
\* an "update" reservation, nor the expiration of one of the two locks in the
\* middle of another caller's operation lets a writer in beside a reader.
ReadersExcludeWriters ==
    \A k \in Keys : write_lock[k] <= 1 /\ ~(WriteLocked(k) /\ ReadLocked(k))

\* Two keys never share a buffer: what reserve_write hands out is not in use.
NoBufferShared ==
    \A j, k \in Resident : memory_obj[j] = memory_obj[k] => j = k

\* Every buffer the memory manager has handed out belongs to a resident key,
\* and every resident key's buffer is one it has handed out: no path that
\* drops an object (last read of a temporary object, delete, clear) leaks its
\* buffer or frees one twice.
NoBufferLeaked == allocated = {memory_obj[k] : k \in Resident}

\* A locked key is in the cache: no path drops an object and keeps its lock.
LocksOnResidentKeys == \A k \in Keys : Locked(k) => k \in Resident

\* No step takes the buffer of a locked key away or gives the key another
\* one, except the last finish_read of a temporary object, which gives up the
\* locks in that very step, and a forced clear.
BufferPinnedStep ==
    \A k \in Keys :
        Locked(k) /\ memory_obj'[k] # memory_obj[k]
            => \/ is_temporary[k] /\ ReadLocked(k) /\ read_lock'[k] = 0
               \/ clear(TRUE)

BuffersPinned == [][BufferPinnedStep]_l1vars
=============================================================================
