-------------------------- MODULE StoreController --------------------------
(***************************************************************************)
(* lmcache/v1/distributed/storage_controllers/store_controller.py: the     *)
(* thread that copies freshly written L1 objects to every L2 adapter.  It  *)
(* takes the keys its listener has queued, and for one adapter after the   *)
(* other locks them for read and submits a store task; when the adapter    *)
(* reports a task it gives the read locks back and, under the "skip_l1"    *)
(* policy, deletes the stored keys from L1.  Each call into L1Manager is   *)
(* atomic by itself only.                                                  *)
(*                                                                         *)
(* A key queued twice before one pop is handled once here; the code locks, *)
(* submits and releases it once per occurrence.                            *)
(***************************************************************************)
EXTENDS L2Adapter

CONSTANT SkipL1    \* store_policy "skip_l1" (TRUE) or "default" (FALSE)

ASSUME StoreAssumption == SkipL1 \in BOOLEAN

VARIABLES
    batch,         \* the keys _process_new_keys is working on
    targets,       \* the adapters it has not served yet
    deletions      \* keys of a completed task, still to be deleted from L1

store_vars == <<batch, targets, deletions>>

\* Which keys of a stored task leave L1.  (Both policies store everything at
\* every adapter.)
select_l1_deletions(keys) == IF SkipL1 THEN keys ELSE {}

StoreInit == batch = {} /\ targets = {} /\ deletions = {}

\* The thread does one thing at a time.
StoreThreadIdle == targets = {} /\ deletions = {}

\* Bound: the batch is taken once every adapter can get a task id for it.
TaskIdsLeft ==
    Cardinality({s \in StoreTasks : store_task[s].status = "none"}) >= Cardinality(Adapters)

\* _store_loop: the listener's eventfd is ready.
StorePopKeys ==
    /\ StoreThreadIdle
    /\ TaskIdsLeft
    /\ pending_keys # {}
    /\ pop_pending_keys
    /\ batch' = pending_keys
    /\ targets' = Adapters
    /\ UNCHANGED <<eviction_vars, l2_vars, deletions>>

\* Serve the next adapter: lock what can be read, submit it, track the task.
StoreSubmit ==
    LET a == Min(targets)
        keys == reserve_read_done(batch)
    IN  /\ targets # {}
        /\ l1_reserve_read(batch, 0)
        /\ IF keys = {} THEN UNCHANGED store_task
           ELSE \E s \in StoreTasks :
                    store_task[s].status = "none" /\ submit_store_task(s, a, keys)
        /\ targets' = targets \ {a}
        /\ batch' = IF targets = {a} THEN {} ELSE batch
        /\ UNCHANGED <<eviction_vars, content, l2_objects, l2_queue, l2_locked, l2_unlocks,
                       lookup_task, load_task, deletions>>

\* _process_completed_tasks, for one task: the read locks go whether the task
\* succeeded or not; the policy chooses deletions only if it did.
StoreComplete(s) ==
    /\ StoreThreadIdle
    /\ store_task[s].status = "done"
    /\ l1_finish_read(store_task[s].keys, 0)
    /\ deletions' = IF store_task[s].ok THEN select_l1_deletions(store_task[s].keys) ELSE {}
    /\ store_task' = [store_task EXCEPT ![s] = NoStoreTask]
    /\ UNCHANGED <<eviction_vars, content, l2_objects, l2_queue, l2_locked, l2_unlocks,
                   lookup_task, load_task, batch, targets>>

StoreDelete ==
    /\ deletions # {}
    /\ l1_delete(deletions)
    /\ deletions' = {}
    /\ UNCHANGED <<eviction_vars, l2_vars, batch, targets>>

StoreStep ==
    StorePopKeys \/ StoreSubmit \/ StoreDelete \/ \E s \in StoreTasks : StoreComplete(s)
=============================================================================
