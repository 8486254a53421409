------------------------------ MODULE RawBlock ------------------------------
(***************************************************************************)
(* RustRawBlockBackend (storage_backend/plugins/rust_raw_block_backend.py):*)
(* chunks kept in the slots of a raw block device, with an index in memory *)
(* that a manifest file carries over a restart.                            *)
(*                                                                         *)
(* A put takes a slot under the lock, evicting if it must; the event loop  *)
(* has the slot written on a thread, enters the key and every few writes   *)
(* saves a manifest: a snapshot under the lock, written and renamed after  *)
(* the lock is released.  Reads look the key up under the lock and read    *)
(* the slot after it.  A restart finds the device as it is and the index   *)
(* as the last manifest has it.                                            *)
(***************************************************************************)
EXTENDS Naturals, Sequences, FiniteSets, SequencesExt

CONSTANTS
    BlockKeys,
    BlockSetups     \* slots: capacity_bytes \div slot_bytes; interval: manifest_write_interval;
                    \* restarts: bound on restarts

ASSUME RawBlockAssumption ==
    BlockSetups \subseteq [slots : Nat \ {0}, interval : Nat, restarts : Nat]

VARIABLES
    block_setup,
    block_index,    \* the slot of every key in _index; 0: not there
    block_pinned,
    inflight,       \* a put: its slot (0: none), whether it is canceled, and its stage
    block_lru,      \* oldest first
    next_slot,      \* slots handed out so far
    free_slots,
    device,         \* per slot: none, torn, or the key whose payload it holds
    writes_since_save,
    saver,          \* the event loop inside _save_manifest: the snapshot it took
    manifest,       \* the manifest file
    block_reader,   \* get_blocking between its lookup and the end of its read
    block_closed,
    restarts,
    lost_slots      \* history: slots in flight when the manifest in use was taken

block_vars == <<block_setup, block_index, block_pinned, inflight, block_lru, next_slot, free_slots, device,
                writes_since_save, saver, manifest, block_reader, block_closed, restarts, lost_slots>>

NoWrite == [slot |-> 0, canceled |-> FALSE, stage |-> "none"]
NoSnapshot == [taken |-> FALSE]
NoReader == [key |-> "none", slot |-> 0]

BlockInit ==
    /\ block_setup \in BlockSetups
    /\ block_index = [k \in BlockKeys |-> 0]
    /\ block_pinned = {}
    /\ inflight = [k \in BlockKeys |-> NoWrite]
    /\ block_lru = <<>>
    /\ next_slot = 0
    /\ free_slots = <<>>
    /\ device = [s \in 1..block_setup.slots |-> "none"]
    /\ writes_since_save = 0
    /\ saver = NoSnapshot
    /\ manifest = NoSnapshot
    /\ block_reader = NoReader
    /\ block_closed = FALSE
    /\ restarts = 0
    /\ lost_slots = {}

Indexed == {k \in BlockKeys : block_index[k] # 0}
InFlight == {k \in BlockKeys : inflight[k].slot # 0}
Touched(lru, k) == Append(Remove(lru, k), k)

(***************************************************************************)
(* Storing                                                                 *)
(***************************************************************************)

\* A key that is stored, or whose write is under way, is skipped.
Wanted(k) == ~block_closed /\ k \notin Indexed /\ inflight[k].stage = "none"

\* _save_manifest keeps the event loop busy; interval 0 saves at close only.
SaveDue == block_setup.interval > 0 /\ writes_since_save = block_setup.interval

StartWrite(k, s) ==
    inflight' = [inflight EXCEPT ![k] = [slot |-> s, canceled |-> FALSE, stage |-> "queued"]]

\* _allocate_slot: the slot freed last, else one never used.
put_reuses(k) ==
    /\ Wanted(k)
    /\ free_slots # <<>>
    /\ StartWrite(k, Last(free_slots))
    /\ free_slots' = Front(free_slots)
    /\ UNCHANGED <<block_setup, block_index, block_pinned, block_lru, next_slot, device, writes_since_save, saver, manifest,
                   block_reader, block_closed, restarts, lost_slots>>

put_extends(k) ==
    /\ Wanted(k)
    /\ free_slots = <<>> /\ next_slot < block_setup.slots
    /\ next_slot' = next_slot + 1
    /\ StartWrite(k, next_slot + 1)
    /\ UNCHANGED <<block_setup, block_index, block_pinned, block_lru, free_slots, device, writes_since_save, saver, manifest,
                   block_reader, block_closed, restarts, lost_slots>>

Victims == {i \in DOMAIN block_lru :
                block_lru[i] \in Indexed /\ block_lru[i] \notin block_pinned \cup InFlight}

\* _evict_one: the oldest victim; older keys that have left the index leave
\* the order too.
EvictedAt(i) ==
    SelectSeq(SubSeq(block_lru, 1, i), LAMBDA k : k \in block_pinned \cup InFlight)
        \o SubSeq(block_lru, i + 1, Len(block_lru))

put_evicts(k) ==
    /\ Wanted(k)
    /\ free_slots = <<>> /\ next_slot = block_setup.slots
    /\ \E i \in Victims :
        /\ \A j \in Victims : i <= j
        /\ StartWrite(k, block_index[block_lru[i]])
        /\ block_index' = [block_index EXCEPT ![block_lru[i]] = 0]
        /\ block_lru' = EvictedAt(i)
    /\ UNCHANGED <<block_setup, block_pinned, next_slot, free_slots, device, writes_since_save, saver, manifest,
                   block_reader, block_closed, restarts, lost_slots>>

\* No victim: the put raises, and the scan has dropped the keys that are not
\* in the index.
put_starved(k) ==
    /\ Wanted(k)
    /\ free_slots = <<>> /\ next_slot = block_setup.slots /\ Victims = {}
    /\ block_lru' = EvictedAt(Len(block_lru))
    /\ UNCHANGED <<block_setup, block_index, block_pinned, inflight, next_slot, free_slots, device, writes_since_save, saver,
                   manifest, block_reader, block_closed, restarts, lost_slots>>

\* _do_write, on a thread: header and payload are two writes.
write_begins(k) ==
    /\ inflight[k].stage = "queued"
    /\ inflight' = [inflight EXCEPT ![k].stage = "writing"]
    /\ device' = [device EXCEPT ![inflight[k].slot] = "torn"]
    /\ UNCHANGED <<block_setup, block_index, block_pinned, block_lru, next_slot, free_slots, writes_since_save, saver, manifest,
                   block_reader, block_closed, restarts, lost_slots>>

write_ends(k) ==
    /\ inflight[k].stage = "writing"
    /\ inflight' = [inflight EXCEPT ![k].stage = "written"]
    /\ device' = [device EXCEPT ![inflight[k].slot] = k]
    /\ UNCHANGED <<block_setup, block_index, block_pinned, block_lru, next_slot, free_slots, writes_since_save, saver, manifest,
                   block_reader, block_closed, restarts, lost_slots>>

\* _submit_write after the thread: the key is entered, unless it was removed
\* meanwhile.  _maybe_save_manifest counts the write either way; while the
\* loop is in it no other write finishes.
write_enters(k) ==
    /\ inflight[k].stage = "written" /\ ~SaveDue
    /\ inflight' = [inflight EXCEPT ![k] = NoWrite]
    /\ IF inflight[k].canceled
       THEN /\ free_slots' = Append(free_slots, inflight[k].slot)
            /\ UNCHANGED <<block_index, block_lru>>
       ELSE /\ block_index' = [block_index EXCEPT ![k] = inflight[k].slot]
            /\ block_lru' = Touched(block_lru, k)
            /\ UNCHANGED free_slots
    /\ writes_since_save' = IF block_setup.interval > 0 THEN writes_since_save + 1 ELSE 0
    /\ UNCHANGED <<block_setup, block_pinned, next_slot, device, saver, manifest, block_reader, block_closed, restarts, lost_slots>>

\* The write failed: its slot is free again, whatever it holds.
write_fails(k) ==
    /\ inflight[k].stage \in {"queued", "writing"} /\ ~SaveDue
    /\ inflight' = [inflight EXCEPT ![k] = NoWrite]
    /\ free_slots' = Append(free_slots, inflight[k].slot)
    /\ UNCHANGED <<block_setup, block_index, block_pinned, block_lru, next_slot, device, writes_since_save, saver, manifest,
                   block_reader, block_closed, restarts, lost_slots>>

(***************************************************************************)
(* Reading, pinning and removing                                           *)
(***************************************************************************)

\* contains(pin=True), pin and batched_async_contains: one flag per key,
\* however many lookups hold it.
block_pin(k) ==
    /\ ~block_closed
    /\ k \in Indexed
    /\ block_pinned' = block_pinned \cup {k}
    /\ UNCHANGED <<block_setup, block_index, inflight, block_lru, next_slot, free_slots, device, writes_since_save, saver,
                   manifest, block_reader, block_closed, restarts, lost_slots>>

block_unpin(k) ==
    /\ k \in block_pinned
    /\ block_pinned' = block_pinned \ {k}
    /\ UNCHANGED <<block_setup, block_index, inflight, block_lru, next_slot, free_slots, device, writes_since_save, saver,
                   manifest, block_reader, block_closed, restarts, lost_slots>>

\* Mutant: the slot of a write that is under way is handed out again.
remove_key_at_once(k) ==
    /\ ~block_closed
    /\ k \in Indexed \cup InFlight
    /\ block_index' = [block_index EXCEPT ![k] = 0]
    /\ block_pinned' = block_pinned \ {k}
    /\ block_lru' = Remove(block_lru, k)
    /\ inflight' = [inflight EXCEPT ![k].canceled = (inflight[k].slot # 0)]
    /\ free_slots' = Append(free_slots, IF k \in Indexed THEN block_index[k] ELSE inflight[k].slot)
    /\ UNCHANGED <<block_setup, next_slot, device, writes_since_save, saver, manifest, block_reader, block_closed, restarts, lost_slots>>

\* remove: pins do not protect.  The slot of a write under way is given back
\* when the write is over.
remove_key(k) ==
    /\ ~block_closed
    /\ k \in Indexed \cup InFlight
    /\ block_index' = [block_index EXCEPT ![k] = 0]
    /\ block_pinned' = block_pinned \ {k}
    /\ block_lru' = Remove(block_lru, k)
    /\ inflight' = [inflight EXCEPT ![k].canceled = (inflight[k].slot # 0)]
    /\ free_slots' = IF k \in Indexed THEN Append(free_slots, block_index[k]) ELSE free_slots
    /\ UNCHANGED <<block_setup, next_slot, device, writes_since_save, saver, manifest, block_reader, block_closed, restarts, lost_slots>>

read_begins(k) ==
    /\ ~block_closed
    /\ block_reader = NoReader /\ k \in Indexed
    /\ block_reader' = [key |-> k, slot |-> block_index[k]]
    /\ UNCHANGED <<block_setup, block_index, block_pinned, inflight, block_lru, next_slot, free_slots, device, writes_since_save,
                   saver, manifest, block_closed, restarts, lost_slots>>

\* pread_into without the lock, then _touch: a key that has left the index
\* comes back into the order.
read_ends ==
    /\ block_reader # NoReader
    /\ block_lru' = Touched(block_lru, block_reader.key)
    /\ block_reader' = NoReader
    /\ UNCHANGED <<block_setup, block_index, block_pinned, inflight, next_slot, free_slots, device, writes_since_save,
                   saver, manifest, block_closed, restarts, lost_slots>>

(***************************************************************************)
(* The manifest                                                            *)
(***************************************************************************)

\* The fields of the manifest; writing is history, no field of the file.
Snapshot ==
    [taken |-> TRUE, index |-> block_index, lru |-> block_lru, next |-> next_slot, free |-> free_slots,
     writing |-> {inflight[k].slot : k \in InFlight}]

snapshot_taken ==
    /\ SaveDue /\ ~saver.taken
    /\ saver' = Snapshot
    /\ UNCHANGED <<block_setup, block_index, block_pinned, inflight, block_lru, next_slot, free_slots, device, writes_since_save,
                   manifest, block_reader, block_closed, restarts, lost_slots>>

\* os.replace; an error on the way is logged and the old file stays.
manifest_replaced(ok) ==
    /\ saver.taken
    /\ manifest' = IF ok THEN saver ELSE manifest
    /\ saver' = NoSnapshot
    /\ writes_since_save' = 0
    /\ UNCHANGED <<block_setup, block_index, block_pinned, inflight, block_lru, next_slot, free_slots, device,
                   block_reader, block_closed, restarts, lost_slots>>

\* close saves once more, from another thread; writes under way go on.
close ==
    /\ ~block_closed
    /\ block_closed' = TRUE
    /\ manifest' = Snapshot
    /\ UNCHANGED <<block_setup, block_index, block_pinned, inflight, block_lru, next_slot, free_slots, device, writes_since_save,
                   saver, block_reader, restarts, lost_slots>>

\* The process ends, closed or not, and another one starts: _load_manifest.
LoadedLRU == SelectSeq(manifest.lru, LAMBDA k : manifest.index[k] # 0)

load_manifest ==
    /\ restarts < block_setup.restarts
    /\ restarts' = restarts + 1
    /\ IF manifest.taken
       THEN /\ block_index' = manifest.index
            /\ next_slot' = manifest.next
            /\ free_slots' = manifest.free
            /\ block_lru' = LoadedLRU
            /\ lost_slots' = lost_slots \cup manifest.writing
       ELSE /\ block_index' = [k \in BlockKeys |-> 0]
            /\ next_slot' = 0
            /\ free_slots' = <<>>
            /\ block_lru' = <<>>
            /\ lost_slots' = {}
    /\ inflight' = [k \in BlockKeys |-> NoWrite]
    /\ block_pinned' = {}
    /\ writes_since_save' = 0
    /\ saver' = NoSnapshot
    /\ block_reader' = NoReader
    /\ block_closed' = FALSE
    /\ UNCHANGED <<block_setup, device, manifest>>

BlockNext ==
    \/ \E k \in BlockKeys :
        \/ put_reuses(k) \/ put_extends(k) \/ put_evicts(k) \/ put_starved(k)
        \/ write_begins(k) \/ write_ends(k) \/ write_enters(k) \/ write_fails(k)
        \/ block_pin(k) \/ block_unpin(k) \/ remove_key(k) \/ read_begins(k)
    \/ read_ends
    \/ snapshot_taken
    \/ \E ok \in BOOLEAN : manifest_replaced(ok)
    \/ close
    \/ load_manifest

BlockSpec == BlockInit /\ [][BlockNext]_block_vars

(***************************************************************************)
(* Properties                                                              *)
(***************************************************************************)

Owners(s) ==
    {<<"index", k>> : k \in {x \in BlockKeys : block_index[x] = s}}
    \cup {<<"write", k>> : k \in {x \in BlockKeys : inflight[x].slot = s}}
    \cup {<<"free", i>> : i \in {x \in DOMAIN free_slots : free_slots[x] = s}}

\* Whatever order writes, removals, evictions, saves and restarts come in, a
\* slot handed out so far has one owner: a stored chunk, a write under way or
\* the free list.  Two owners would write over each other's chunk; none would
\* mean a slot that is never used again, which happens only to the slots a
\* manifest was taken over while they were being written.
SlotsAccounted ==
    \A s \in 1..next_slot : Cardinality(Owners(s)) = IF s \in lost_slots THEN 0 ELSE 1

\* What _save_manifest is for ("Save index to JSON file for crash recovery"):
\* a chunk in the index is the one its slot holds, after a restart too.  A
\* manifest older than the last eviction names slots that hold other chunks,
\* and the header that would tell is never read.
IndexMatchesDevice == \A k \in Indexed : device[block_index[k]] = k
=============================================================================
