------------------------------ MODULE L1Cache ------------------------------
(***************************************************************************)
(* L1Manager with its two registered listeners and the eviction thread:    *)
(*   - the LRU eviction policy (eviction_policy/lru.py, eviction.py);      *)
(*   - the StoreListener, which queues written keys for the StoreController*)
(*     (storage_controllers/store_controller.py);                          *)
(*   - the EvictionController loop (storage_controllers/                   *)
(*     eviction_controller.py).                                            *)
(*                                                                         *)
(* The manager calls its listeners before it releases its lock, so their   *)
(* reaction belongs to the manager's action: l1_... below is a method of   *)
(* L1Manager with the listeners registered.  The eviction thread takes the *)
(* policy's lock and the manager's lock one after the other, so anything   *)
(* may happen between its choice of victims and their deletion.            *)
(*                                                                         *)
(* Keys are the chunks of one prompt, numbered by position: a list of keys *)
(* is a set read in ascending order.                                       *)
(***************************************************************************)
EXTENDS L1Manager, SequencesExt

CONSTANTS
    Watermark,            \* used buffers that trigger eviction
    EvictNum, EvictDen,   \* eviction_ratio = EvictNum / EvictDen
    TTLExpires            \* may the TTL of a lock run out?

ASSUME CacheAssumption ==
    /\ Keys \subseteq Nat \ {0} /\ IsFiniteSet(Keys)
    /\ Watermark \in Nat
    /\ EvictNum \in Nat /\ EvictDen \in Nat \ {0} /\ EvictNum <= EvictDen
    /\ TTLExpires \in BOOLEAN

VARIABLES
    order,           \* LRUEvictionPolicy._order, least recently used first
    pending_keys,    \* StoreListener._pending_keys
    evicting,        \* the eviction thread has found the memory above the watermark
    victims          \* keys of the EvictionAction being executed

eviction_vars == <<evicting, victims>>
cache_vars == <<l1vars, order, pending_keys, eviction_vars>>

Tracked == ToSet(order)

----------------------------------------------------------------------------
(* The LRU policy.  Later keys of a list become older than earlier ones.   *)

\* The numbers of a set in ascending order.
Ascending(S) == [n \in 1..Cardinality(S) |->
                    CHOOSE x \in S : Cardinality({y \in S : y <= x}) = n]

Dropped(o, keys) ==
    LET kept == Ascending({i \in DOMAIN o : o[i] \notin keys})
    IN  [n \in DOMAIN kept |-> o[kept[n]]]
Newest(keys) == Reverse(Ascending(keys))

on_keys_created(o, keys) == Dropped(o, keys) \o Newest(keys)
on_keys_touched(o, keys) == Dropped(o, keys) \o Newest(keys \cap ToSet(o))
on_keys_removed(o, keys) == Dropped(o, keys)

target_count ==
    LET n == (Len(order) * EvictNum) \div EvictDen
    IN  IF EvictNum > 0 /\ n = 0 /\ order # <<>> THEN 1 ELSE n

get_eviction_actions == ToSet(SubSeq(order, 1, target_count))

----------------------------------------------------------------------------
(* The methods of L1Manager with both listeners registered.                *)

l1_reserve_read(keys, extra_count) ==
    reserve_read(keys, extra_count) /\ UNCHANGED <<order, pending_keys>>

\* Mutant: the listeners are not told about deleted temporary objects.
l1_finish_read_silent(keys, extra_count) ==
    /\ finish_read(keys, extra_count)
    /\ order' = on_keys_touched(order, finish_read_done(keys))
    /\ UNCHANGED pending_keys

l1_finish_read(keys, extra_count) ==
    /\ finish_read(keys, extra_count)
    /\ order' = on_keys_removed(on_keys_touched(order, finish_read_done(keys)),
                                finish_read_deleted(keys, extra_count))
    /\ UNCHANGED pending_keys

l1_reserve_write(keys, temporary, mode) ==
    reserve_write(keys, temporary, mode) /\ UNCHANGED <<order, pending_keys>>

l1_finish_write(keys) ==
    /\ finish_write(keys)
    /\ order' = on_keys_created(order, finish_write_done(keys))
    /\ pending_keys' = pending_keys \cup finish_write_done(keys)

\* Mutant: prefetched objects are not announced to the eviction policy.
l1_finish_write_and_reserve_read_silent(keys, extra_count) ==
    finish_write_and_reserve_read(keys, extra_count) /\ UNCHANGED <<order, pending_keys>>

l1_finish_write_and_reserve_read(keys, extra_count) ==
    /\ finish_write_and_reserve_read(keys, extra_count)
    /\ order' = on_keys_created(order, finish_write_done(keys))
    /\ UNCHANGED pending_keys

l1_delete(keys) ==
    /\ delete(keys)
    /\ order' = on_keys_removed(order, delete_done(keys))
    /\ UNCHANGED pending_keys

l1_clear(force) ==
    /\ clear(force)
    /\ order' = on_keys_removed(order, clear_done(force))
    /\ UNCHANGED pending_keys

----------------------------------------------------------------------------
(* The eviction thread: once a second it compares the memory in use with   *)
(* the watermark, asks the policy for victims and deletes them, each under *)
(* a lock of its own.                                                      *)

MemoryHigh == Cardinality(allocated) >= Watermark

EvictionCheck ==
    /\ ~evicting /\ victims = {}
    /\ MemoryHigh
    /\ evicting' = TRUE
    /\ UNCHANGED <<l1vars, order, pending_keys, victims>>

\* Mutant: the newest keys are chosen in place of the oldest.
EvictionChooseNewest ==
    /\ evicting
    /\ evicting' = FALSE
    /\ victims' = ToSet(SubSeq(order, Len(order) - target_count + 1, Len(order)))
    /\ UNCHANGED <<l1vars, order, pending_keys>>

EvictionChoose ==
    /\ evicting
    /\ evicting' = FALSE
    /\ victims' = get_eviction_actions
    /\ UNCHANGED <<l1vars, order, pending_keys>>

EvictionExecute ==
    /\ victims # {}
    /\ l1_delete(victims)
    /\ victims' = {}
    /\ UNCHANGED evicting

\* The StoreController takes everything the listener has queued.
pop_pending_keys ==
    /\ pending_keys' = {}
    /\ UNCHANGED <<l1vars, order>>

CacheInit ==
    /\ L1Init
    /\ order = <<>>
    /\ pending_keys = {}
    /\ evicting = FALSE
    /\ victims = {}

----------------------------------------------------------------------------
(* The cache in an open environment: any caller, any arguments, any order, *)
(* beside the eviction thread.                                             *)

Callers ==
    /\ \/ \E keys \in SUBSET Keys :
            \/ \E n \in ExtraCounts :
                \/ l1_reserve_read(keys, n)
                \/ l1_finish_read(keys, n)
                \/ l1_finish_write_and_reserve_read(keys, n)
            \/ \E temporary \in {{}, keys}, mode \in Modes :
                l1_reserve_write(keys, temporary, mode)
            \/ l1_finish_write(keys)
            \/ l1_delete(keys)
       \/ \E force \in BOOLEAN : l1_clear(force)
       \/ pop_pending_keys
    /\ UNCHANGED eviction_vars

Expire ==
    /\ TTLExpires
    /\ \E k \in Keys : ExpireWrite(k) \/ ExpireRead(k)
    /\ UNCHANGED <<order, pending_keys, eviction_vars>>

EvictionLoop == EvictionCheck \/ EvictionChoose \/ EvictionExecute

CacheNext == Callers \/ Expire \/ EvictionLoop

CacheSpec == CacheInit /\ [][CacheNext]_cache_vars

\* The eviction loop is a thread of its own that never blocks for good.
EvictionFairness ==
    WF_cache_vars(EvictionLoop)

----------------------------------------------------------------------------
CacheTypeOK ==
    /\ L1TypeOK
    /\ order \in Seq(Keys)
    /\ pending_keys \subseteq Keys
    /\ evicting \in BOOLEAN
    /\ victims \subseteq Keys

\* The LRU order follows the cache: it lists a key at most once, and only keys
\* that are in L1.  A key that left L1 by any path (eviction, last read of a
\* temporary object, delete, clear) is not tracked, so it cannot be chosen as
\* a victim for ever in place of a resident one.
OrderFollowsCache == IsInjective(order) /\ Tracked \subseteq Resident

\* Every object that is not being written is known to the eviction policy:
\* memory cannot fill up with objects that nobody will ever evict.  (It takes
\* TTLExpires = FALSE: an object whose write lock runs out before finish_write
\* stays in L1 and is announced to nobody.)
EveryObjectEvictable == \A k \in Resident : ~WriteLocked(k) => k \in Tracked

Position(o, k) == SelectInSeq(o, LAMBDA j : j = k)

\* Under memory pressure a cold object goes: if memory stays high and no
\* tracked object is locked any more, every tracked key is evicted or used
\* again.  A choice of victims made stale by concurrent calls does not stop
\* the eviction thread from making room.
Cold(k) == MemoryHigh /\ k \in Tracked /\ \A j \in Tracked : ~Locked(j)

Used(k) == k \in Tracked /\ k \in Tracked' /\ Position(order', k) > Position(order, k)

ColdObjectsEvicted ==
    \A k \in Keys : []<>(~Cold(k)) \/ []<><<Used(k)>>_cache_vars
=============================================================================
