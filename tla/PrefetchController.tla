------------------------- MODULE PrefetchController -------------------------
(***************************************************************************)
(* lmcache/v1/distributed/storage_controllers/prefetch_controller.py: the  *)
(* thread that brings keys from L2 into L1.  A request is looked up (and   *)
(* locked) at every adapter; the load plan takes each key from the first   *)
(* adapter that has it and is trimmed to the contiguous prefix; buffers    *)
(* are reserved in L1 as temporary objects; the loads are submitted; when  *)
(* all have returned, loaded keys become read-locked in one step, failed   *)
(* ones are finished and deleted in two, loaded keys beyond the first gap  *)
(* are released, and the number of prefix hits is published.               *)
(*                                                                         *)
(* The thread queries results when the eventfds fire; nobody else sees     *)
(* when, so a phase ends in one step once its last task is done.           *)
(***************************************************************************)
EXTENDS L2Adapter

CONSTANTS
    MaxInFlight,    \* _max_in_flight
    NumWorkers      \* tensor-parallel workers; extra_count = NumWorkers - 1

ASSUME PrefetchAssumption == MaxInFlight \in Nat \ {0} /\ NumWorkers \in Nat \ {0}

VARIABLES
    request,       \* the InFlightPrefetchRequest of every request
    queue          \* _submission_queue followed by _pending_queue

prefetch_vars == <<request, queue>>

\* The phases after LOOKUP and PLAN_AND_LOAD are the steps of _finalize_load;
\* a "done" request is in _completed_results until it is queried.
Phases == {"none", "queued", "lookup", "load", "finish_failed", "delete_failed",
           "release", "done"}

NoPlan == [a \in Adapters |-> {}]
NoRequest == [phase |-> "none", keys |-> {}, plan |-> NoPlan, reserved |-> {}, loaded |-> {}]

PrefetchInit ==
    /\ request = [r \in Requests |-> NoRequest]
    /\ queue = <<>>

Merged(plan) == UNION {plan[a] : a \in Adapters}

\* The leading keys of a list that are all good (count_leading_ones).
Prefix(keys, good) == {k \in keys : \A j \in keys : j <= k => j \in good}

trim_load_plan(plan, keys, good) == [a \in Adapters |-> plan[a] \cap Prefix(keys, good)]

\* DefaultPrefetchPolicy: each key from the lowest adapter that reported it.
select_load_plan(results) ==
    [a \in Adapters |-> {k \in results[a] : \A b \in Adapters : b < a => k \notin results[b]}]

lookup_results(r) == [a \in Adapters |-> lookup_task[r][a].ok]

InFlight == {r \in Requests : request[r].phase \notin {"none", "queued", "done"}}

\* The background thread is in the middle of finalizing a request.
Finalizing == {r \in Requests : request[r].phase \in {"finish_failed", "delete_failed", "release"}}

----------------------------------------------------------------------------
submit_prefetch_request(r, keys) ==
    /\ request' = [request EXCEPT ![r] = [NoRequest EXCEPT !.phase = "queued", !.keys = keys]]
    /\ queue' = Append(queue, r)

\* Mutant: a request that meets the limit is taken off the queue all the same.
PrefetchStartDropping ==
    LET r == Head(queue) IN
    /\ queue # <<>> /\ Finalizing = {}
    /\ queue' = Tail(queue)
    /\ IF Cardinality(InFlight) < MaxInFlight
         THEN /\ request' = [request EXCEPT ![r].phase = "lookup"]
              /\ submit_lookup_and_lock_task(r, request[r].keys)
         ELSE UNCHANGED <<request, lookup_task>>
    /\ UNCHANGED <<cache_vars, content, l2_store_vars, l2_locked, l2_unlocks, load_task>>

\* _start_pending_requests, _start_lookup_phase
PrefetchStart ==
    LET r == Head(queue) IN
    /\ queue # <<>> /\ Finalizing = {}
    /\ Cardinality(InFlight) < MaxInFlight
    /\ queue' = Tail(queue)
    /\ request' = [request EXCEPT ![r].phase = "lookup"]
    /\ submit_lookup_and_lock_task(r, request[r].keys)
    /\ UNCHANGED <<cache_vars, content, l2_store_vars, l2_locked, l2_unlocks, load_task>>

LookupsDone(r) ==
    /\ request[r].phase = "lookup"
    /\ Finalizing = {}
    /\ \A a \in Adapters : lookup_task[r][a].status = "done"

LookupsCollected(r) == lookup_task' = [lookup_task EXCEPT ![r] = [a \in Adapters |-> NoTask]]

\* Where a request goes once its loaded keys are read-locked: to the clean-up
\* of the reserved keys that hold no data, to the release of the loaded keys
\* beyond the prefix, or to completion.
AfterLoad(req) ==
    LET failed == req.reserved \ req.loaded
        beyond == req.loaded \ Prefix(req.keys, req.loaded)
    IN  [req EXCEPT !.phase = IF failed # {} /\ req.phase = "load" THEN "finish_failed"
                              ELSE IF beyond # {} THEN "release"
                              ELSE "done"]

\* _transition_to_load_phase, nothing found at the head of the list
PrefetchNothingFound(r) ==
    /\ LookupsDone(r)
    /\ Prefix(request[r].keys, Merged(lookup_results(r))) = {}
    /\ submit_unlock(lookup_results(r))
    /\ LookupsCollected(r)
    /\ request' = [request EXCEPT ![r].phase = "done"]
    /\ UNCHANGED <<cache_vars, content, l2_store_vars, l2_locked, load_task, queue>>

\* Mutant: a key found at two adapters stays locked at the second.
PrefetchPlanUnlockingUnplanned(r) ==
    LET results == lookup_results(r)
        plan == select_load_plan(results)
        keys == request[r].keys
        wanted == Prefix(keys, Merged(plan))
    IN  /\ LookupsDone(r)
        /\ wanted # {}
        /\ l1_reserve_write(wanted, wanted, "new")
        /\ FreshBuffersUnwritten
        /\ LET reserved == {k \in wanted \ Resident : memory_obj'[k] # NoObj}
               trimmed == trim_load_plan(plan, keys, reserved)
               req == [request[r] EXCEPT !.phase = "load", !.plan = trimmed,
                                         !.reserved = reserved]
           IN  /\ submit_unlock([a \in Adapters |-> results[a] \ Merged(trimmed)])
               /\ submit_load_tasks(r, trimmed)
               /\ request' = [request EXCEPT ![r] =
                      IF Merged(trimmed) = {} THEN AfterLoad(req) ELSE req]
        /\ LookupsCollected(r)
        /\ UNCHANGED <<eviction_vars, l2_store_vars, l2_locked, queue>>

\* _transition_to_load_phase: reserve buffers for the prefix, keep the prefix
\* of what could be reserved, unlock the rest at L2, submit the loads.
PrefetchPlan(r) ==
    LET results == lookup_results(r)
        plan == select_load_plan(results)
        keys == request[r].keys
        wanted == Prefix(keys, Merged(plan))
    IN  /\ LookupsDone(r)
        /\ wanted # {}
        /\ l1_reserve_write(wanted, wanted, "new")
        /\ FreshBuffersUnwritten
        /\ LET reserved == {k \in wanted \ Resident : memory_obj'[k] # NoObj}
               trimmed == trim_load_plan(plan, keys, reserved)
               req == [request[r] EXCEPT !.phase = "load", !.plan = trimmed,
                                         !.reserved = reserved]
           IN  /\ submit_unlock([a \in Adapters |-> results[a] \ trimmed[a]])
               /\ submit_load_tasks(r, trimmed)
               /\ request' = [request EXCEPT ![r] =
                      IF Merged(trimmed) = {} THEN AfterLoad(req) ELSE req]
        /\ LookupsCollected(r)
        /\ UNCHANGED <<eviction_vars, l2_store_vars, l2_locked, queue>>

----------------------------------------------------------------------------
\* Mutant: only the keys that were loaded are unlocked at L2.
PrefetchLoadedUnlockingLoaded(r) ==
    LET loaded == UNION {load_task[r][a].ok : a \in Adapters} IN
    /\ request[r].phase = "load" /\ Finalizing = {}
    /\ \A a \in Adapters : load_task[r][a].status # "submitted"
    /\ submit_unlock([a \in Adapters |-> load_task[r][a].ok])
    /\ l1_finish_write_and_reserve_read(loaded, NumWorkers - 1)
    /\ load_task' = [load_task EXCEPT ![r] = [a \in Adapters |-> NoTask]]
    /\ request' = [request EXCEPT ![r] = AfterLoad([request[r] EXCEPT !.loaded = loaded])]
    /\ UNCHANGED <<eviction_vars, content, l2_store_vars, l2_locked, lookup_task, queue>>

\* _finalize_load, up to the transition of the loaded keys
PrefetchLoaded(r) ==
    LET loaded == UNION {load_task[r][a].ok : a \in Adapters} IN
    /\ request[r].phase = "load" /\ Finalizing = {}
    /\ \A a \in Adapters : load_task[r][a].status # "submitted"
    /\ submit_unlock(request[r].plan)
    /\ l1_finish_write_and_reserve_read(loaded, NumWorkers - 1)
    /\ load_task' = [load_task EXCEPT ![r] = [a \in Adapters |-> NoTask]]
    /\ request' = [request EXCEPT ![r] = AfterLoad([request[r] EXCEPT !.loaded = loaded])]
    /\ UNCHANGED <<eviction_vars, content, l2_store_vars, l2_locked, lookup_task, queue>>

\* The failed keys give up their write locks ...
PrefetchFinishFailed(r) ==
    /\ request[r].phase = "finish_failed"
    /\ l1_finish_write(request[r].reserved \ request[r].loaded)
    /\ request' = [request EXCEPT ![r].phase = "delete_failed"]
    /\ UNCHANGED <<eviction_vars, l2_vars, queue>>

\* ... and are deleted by a second call.
PrefetchDeleteFailed(r) ==
    /\ request[r].phase = "delete_failed"
    /\ l1_delete(request[r].reserved \ request[r].loaded)
    /\ request' = [request EXCEPT ![r] = AfterLoad(request[r])]
    /\ UNCHANGED <<eviction_vars, l2_vars, queue>>

\* Mutant: one lock per key is released, whatever the number of workers.
PrefetchReleaseOne(r) ==
    LET req == request[r] IN
    /\ req.phase = "release"
    /\ l1_finish_read(req.loaded \ Prefix(req.keys, req.loaded), 0)
    /\ request' = [request EXCEPT ![r].phase = "done"]
    /\ UNCHANGED <<eviction_vars, l2_vars, queue>>

\* The loaded keys beyond the first gap are released.
PrefetchRelease(r) ==
    LET req == request[r] IN
    /\ req.phase = "release"
    /\ l1_finish_read(req.loaded \ Prefix(req.keys, req.loaded), NumWorkers - 1)
    /\ request' = [request EXCEPT ![r].phase = "done"]
    /\ UNCHANGED <<eviction_vars, l2_vars, queue>>

PrefetchStep ==
    \/ PrefetchStart
    \/ \E r \in Requests :
        \/ PrefetchNothingFound(r) \/ PrefetchPlan(r) \/ PrefetchLoaded(r)
        \/ PrefetchFinishFailed(r) \/ PrefetchDeleteFailed(r) \/ PrefetchRelease(r)

\* query_prefetch_result: the keys behind the hits, once; None until then.
ResultReady(r) == request[r].phase = "done"
prefix_hits(r) == Prefix(request[r].keys, request[r].loaded)
=============================================================================
