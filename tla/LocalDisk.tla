------------------------------ MODULE LocalDisk ------------------------------
(***************************************************************************)
(* LocalDiskBackend with its LocalDiskWorker and the priority executor     *)
(* that runs the worker's jobs on threads (local_disk_backend.py,          *)
(* job_executor/pq_executor.py).                                           *)
(*                                                                         *)
(* A chunk is one unit of space.  submit_put_task reserves space under the *)
(* lock, evicting entries that are not pinned, and queues a save; a save   *)
(* opens the file, writes it, enters the key and leaves put_tasks.  The    *)
(* file of a key can be unlinked between any two of those steps.  Reads    *)
(* look the key up under the lock and open the file after it is released;  *)
(* prefetches pin, and are taken from the queue before saves.  Two paths   *)
(* raise between acquire and release: the lock then stays held for good.   *)
(***************************************************************************)
EXTENDS Integers, FiniteSets

CONSTANTS
    DiskKeys,
    MaxDisk,        \* max_cache_size, in chunks
    MaxPins,        \* bound: lookups that pin a key
    DiskWorkers     \* threads of the executor

ASSUME DiskAssumption == MaxDisk \in Nat

VARIABLES
    disk_dict,          \* keys of LocalDiskBackend.dict
    disk_pins,          \* their pin counts
    disk_lookups,       \* pins that lookups have taken and not given back
    disk_files,         \* none, partial or whole: the file at the key's path
    current_cache_size,
    put_tasks,
    put_job,            \* none, queued, writing, written or inserted
    load_job,           \* a prefetch: none, found, queued or reading, and its keys
    disk_reader,        \* the key get_blocking has looked up, if any
    disk_stuck          \* an exception left disk_lock held

disk_vars == <<disk_dict, disk_pins, disk_lookups, disk_files, current_cache_size, put_tasks,
               put_job, load_job, disk_reader, disk_stuck>>

NoLoad == [stage |-> "none", keys |-> {}]

DiskInit ==
    /\ disk_dict = {}
    /\ disk_pins = [k \in DiskKeys |-> 0]
    /\ disk_lookups = [k \in DiskKeys |-> 0]
    /\ disk_files = [k \in DiskKeys |-> "none"]
    /\ current_cache_size = 0
    /\ put_tasks = {}
    /\ put_job = [k \in DiskKeys |-> "none"]
    /\ load_job = NoLoad
    /\ disk_reader = {}
    /\ disk_stuck = FALSE

Evictable == {k \in disk_dict : disk_pins[k] <= 0}

\* dict.pop and os.remove: a key that comes back starts without pins.
Drop(K) ==
    /\ disk_dict' = disk_dict \ K
    /\ disk_pins' = [k \in DiskKeys |-> IF k \in K THEN 0 ELSE disk_pins[k]]
    /\ disk_files' = [k \in DiskKeys |-> IF k \in K THEN "none" ELSE disk_files[k]]

Queue(k) ==
    /\ put_tasks' = put_tasks \cup {k}
    /\ put_job' = [put_job EXCEPT ![k] = "queued"]

\* Mutant: the space of the chunk is reserved when it has been evicted for only.
PutFits_unreserved(k) ==
    /\ ~disk_stuck /\ k \notin put_tasks
    /\ current_cache_size < MaxDisk
    /\ Queue(k)
    /\ UNCHANGED <<disk_dict, disk_pins, disk_files, current_cache_size, load_job, disk_reader, disk_stuck, disk_lookups>>

PutFits(k) ==
    /\ ~disk_stuck /\ k \notin put_tasks
    /\ current_cache_size < MaxDisk
    /\ Queue(k)
    /\ current_cache_size' = current_cache_size + 1
    /\ UNCHANGED <<disk_dict, disk_pins, disk_files, load_job, disk_reader, disk_stuck, disk_lookups>>

\* The victim's space goes to k.
PutEvicts(k, victim) ==
    /\ ~disk_stuck /\ k \notin put_tasks
    /\ current_cache_size = MaxDisk
    /\ victim \in Evictable
    /\ disk_files[victim] # "none"
    /\ Drop({victim})
    /\ Queue(k)
    /\ UNCHANGED <<current_cache_size, load_job, disk_reader, disk_stuck, disk_lookups>>

\* os.remove finds no file: the exception leaves k among the put tasks.
PutRaises(k, victim) ==
    /\ ~disk_stuck /\ k \notin put_tasks
    /\ current_cache_size = MaxDisk
    /\ victim \in Evictable
    /\ disk_files[victim] = "none"
    /\ Drop({victim})
    /\ put_tasks' = put_tasks \cup {k}
    /\ current_cache_size' = current_cache_size - 1
    /\ UNCHANGED <<put_job, load_job, disk_reader, disk_stuck, disk_lookups>>

\* No candidate: nothing is stored, and k stays among the put tasks.
PutStarved(k) ==
    /\ ~disk_stuck /\ k \notin put_tasks
    /\ current_cache_size = MaxDisk
    /\ Evictable = {}
    /\ put_tasks' = put_tasks \cup {k}
    /\ UNCHANGED <<disk_dict, disk_pins, disk_files, current_cache_size, put_job, load_job, disk_reader, disk_stuck, disk_lookups>>

\* AsyncPQThreadPoolExecutor._worker: threads that run a job.
Running == {k \in DiskKeys : put_job[k] \in {"writing", "written", "inserted"}}
IdleWorker == Cardinality(Running) + (IF load_job.stage = "reading" THEN 1 ELSE 0) < DiskWorkers

\* write_file opens the path for writing, which truncates what is there.
SaveOpen(k) ==
    /\ put_job[k] = "queued" /\ IdleWorker /\ load_job.stage # "queued"
    /\ put_job' = [put_job EXCEPT ![k] = "writing"]
    /\ disk_files' = [disk_files EXCEPT ![k] = "partial"]
    /\ UNCHANGED <<disk_dict, disk_pins, current_cache_size, put_tasks, load_job, disk_reader, disk_stuck, disk_lookups>>

\* The rest of write_file: a file unlinked meanwhile does not come back.
SaveWrite(k) ==
    /\ put_job[k] = "writing"
    /\ put_job' = [put_job EXCEPT ![k] = "written"]
    /\ disk_files' = [disk_files EXCEPT ![k] = IF @ = "none" THEN "none" ELSE "whole"]
    /\ UNCHANGED <<disk_dict, disk_pins, current_cache_size, put_tasks, load_job, disk_reader, disk_stuck, disk_lookups>>

insert_key(k) ==
    /\ ~disk_stuck
    /\ put_job[k] = "written"
    /\ put_job' = [put_job EXCEPT ![k] = "inserted"]
    /\ disk_dict' = disk_dict \cup {k}
    /\ UNCHANGED <<disk_pins, disk_files, current_cache_size, put_tasks, load_job, disk_reader, disk_stuck, disk_lookups>>

remove_put_task(k) ==
    /\ put_job[k] = "inserted"
    /\ put_job' = [put_job EXCEPT ![k] = "none"]
    /\ put_tasks' = put_tasks \ {k}
    /\ UNCHANGED <<disk_dict, disk_pins, disk_files, current_cache_size, load_job, disk_reader, disk_stuck, disk_lookups>>

\* contains(pin=True) of a lookup, and lookup_unpin: the entry it pinned may
\* have been replaced by one it did not pin.
disk_pin(k) ==
    /\ ~disk_stuck /\ k \in disk_dict
    /\ disk_lookups[k] < MaxPins
    /\ disk_pins' = [disk_pins EXCEPT ![k] = @ + 1]
    /\ disk_lookups' = [disk_lookups EXCEPT ![k] = @ + 1]
    /\ UNCHANGED <<disk_dict, disk_files, current_cache_size, put_tasks, put_job, load_job, disk_reader, disk_stuck>>

disk_unpin(k) ==
    /\ ~disk_stuck /\ disk_lookups[k] > 0
    /\ disk_pins' = IF k \in disk_dict THEN [disk_pins EXCEPT ![k] = @ - 1] ELSE disk_pins
    /\ disk_lookups' = [disk_lookups EXCEPT ![k] = @ - 1]
    /\ UNCHANGED <<disk_dict, disk_files, current_cache_size, put_tasks, put_job, load_job, disk_reader, disk_stuck>>

\* remove(force=True) does not ask about pins, nor does it give space back; it
\* raises with the lock held when the file is gone.
disk_remove(k) ==
    /\ ~disk_stuck /\ k \in disk_dict
    /\ Drop({k})
    /\ disk_stuck' = (disk_files[k] = "none")
    /\ UNCHANGED <<current_cache_size, put_tasks, put_job, load_job, disk_reader, disk_lookups>>

\* get_blocking, under the lock.
get_blocking(k) ==
    /\ ~disk_stuck /\ disk_reader = {} /\ k \in disk_dict
    /\ disk_reader' = {k}
    /\ UNCHANGED <<disk_dict, disk_pins, disk_files, current_cache_size, put_tasks, put_job, load_job, disk_stuck, disk_lookups>>

\* read_file drops a key whose file is gone.
read_file(K) ==
    /\ disk_dict' = disk_dict \ {k \in K : disk_files[k] = "none"}
    /\ UNCHANGED <<disk_files, current_cache_size>>

load_bytes_from_disk ==
    /\ disk_reader # {}
    /\ read_file(disk_reader)
    /\ disk_reader' = {}
    /\ UNCHANGED <<disk_pins, put_tasks, put_job, load_job, disk_stuck, disk_lookups>>

\* The lookup of a prefetch pins its hits.
batched_async_contains(K) ==
    /\ ~disk_stuck /\ load_job.stage = "none" /\ K # {} /\ K \subseteq disk_dict
    /\ \A k \in K : disk_pins[k] + 2 <= MaxPins
    /\ disk_pins' = [k \in DiskKeys |-> IF k \in K THEN disk_pins[k] + 1 ELSE disk_pins[k]]
    /\ load_job' = [stage |-> "found", keys |-> K]
    /\ UNCHANGED <<disk_dict, disk_files, current_cache_size, put_tasks, put_job, disk_reader, disk_stuck, disk_lookups>>

\* Its load pins again; only that pin is taken back.  The assertion that a key
\* is still there fails with the lock held.
batched_get_non_blocking ==
    /\ ~disk_stuck /\ load_job.stage = "found"
    /\ IF load_job.keys \subseteq disk_dict
       THEN /\ disk_pins' = [k \in DiskKeys |-> IF k \in load_job.keys THEN disk_pins[k] + 1
                                                  ELSE disk_pins[k]]
            /\ load_job' = [load_job EXCEPT !.stage = "queued"]
            /\ UNCHANGED disk_stuck
       ELSE /\ disk_stuck' = TRUE
            /\ load_job' = NoLoad
            /\ UNCHANGED disk_pins
    /\ UNCHANGED <<disk_dict, disk_files, current_cache_size, put_tasks, put_job, disk_reader, disk_lookups>>

LoadStart ==
    /\ load_job.stage = "queued" /\ IdleWorker
    /\ load_job' = [load_job EXCEPT !.stage = "reading"]
    /\ UNCHANGED <<disk_dict, disk_pins, disk_files, current_cache_size, put_tasks, put_job, disk_reader, disk_stuck, disk_lookups>>

\* batched_async_load_bytes_from_disk, one key: a key that is gone ends the job.
LoadKey(k) ==
    /\ ~disk_stuck /\ load_job.stage = "reading" /\ k \in load_job.keys
    /\ read_file({k})
    /\ LET found == k \in disk_dict'
           left  == load_job.keys \ {k}
       IN  /\ disk_pins' = IF found THEN [disk_pins EXCEPT ![k] = @ - 1] ELSE disk_pins
           /\ load_job' = IF found /\ left # {} THEN [load_job EXCEPT !.keys = left] ELSE NoLoad
    /\ UNCHANGED <<put_tasks, put_job, disk_reader, disk_stuck, disk_lookups>>

DiskNext ==
    \/ \E k \in DiskKeys :
          \/ PutFits(k) \/ PutStarved(k)
          \/ SaveOpen(k) \/ SaveWrite(k) \/ insert_key(k) \/ remove_put_task(k)
          \/ disk_pin(k) \/ disk_unpin(k) \/ disk_remove(k)
          \/ get_blocking(k) \/ LoadKey(k)
    \/ \E k \in DiskKeys, victim \in DiskKeys : PutEvicts(k, victim) \/ PutRaises(k, victim)
    \/ \E K \in SUBSET DiskKeys : batched_async_contains(K)
    \/ batched_get_non_blocking
    \/ load_bytes_from_disk
    \/ LoadStart

DiskSpec == DiskInit /\ [][DiskNext]_disk_vars

----------------------------------------------------------------------------

\* The files, and the space promised to saves that have not opened theirs,
\* stay within max_local_disk_size, whatever is evicted, removed or stored
\* again while saves run (submit_put_task, remove, async_save_bytes_to_disk).
DiskBounded ==
    Cardinality({k \in DiskKeys : disk_files[k] # "none" \/ put_job[k] = "queued"}) <= MaxDisk

(***************************************************************************)
(* Known limits.  What the code or its docs say and the code does not keep *)
(* (README, Known limits); no run checks these.                            *)
(***************************************************************************)

\* A key a lookup has pinned is there when its load starts: the assertion of
\* batched_get_non_blocking.
PinnedKeyFound == load_job.stage = "found" => load_job.keys \subseteq disk_dict

\* A key that has been stored is not stored again: StorageManager.batched_put
\* leaves that check to the backend.
StoredOnce == \A k \in disk_dict : put_job[k] \notin {"queued", "writing"}

=============================================================================
