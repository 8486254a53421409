--------------------------- MODULE StorageManager ---------------------------
(***************************************************************************)
(* lmcache/v1/distributed/storage_manager.py with everything behind it, as *)
(* the handlers of lmcache/v1/multiprocess/server.py drive it.             *)
(*                                                                         *)
(* A client is a request of a serving engine.  It stores chunks (reserve,  *)
(* copy from the GPU, finish from a host callback of the stream), or looks *)
(* a prompt up: the prefix found in L1 is read-locked once per worker, the *)
(* rest goes to the PrefetchController, the answer is polled, and then the *)
(* workers retrieve the chunks, each giving one lock per key back when its *)
(* copy is done, or the scheduler gives the locks back unread.             *)
(*                                                                         *)
(* The threads (client handlers, stream callbacks, eviction, store,        *)
(* prefetch, the adapters' loops) interleave at the calls into L1Manager.  *)
(***************************************************************************)
EXTENDS StoreController, PrefetchController

CONSTANTS
    KeyLists,      \* the key lists clients ask for
    ClearModes     \* the force arguments of clear; {} if nobody clears

ASSUME ManagerAssumption ==
    /\ KeyLists \subseteq SUBSET Keys
    /\ ClearModes \subseteq BOOLEAN

VARIABLE client    \* what every client is doing

vars == <<cache_vars, l2_vars, store_vars, prefetch_vars, client>>

Idle == [op |-> "idle", keys |-> {}, held |-> {}, skipped |-> {}, objs |-> <<>>,
         left |-> 0, reading |-> 0]

Init ==
    /\ CacheInit /\ L2Init /\ StoreInit /\ PrefetchInit
    /\ client = [c \in Requests |-> Idle]

Becomes(c, state) == client' = [client EXCEPT ![c] = state]

----------------------------------------------------------------------------
(* store                                                                    *)

StoreBegin(c, keys) ==
    /\ client[c].op = "idle"
    /\ l1_reserve_write(keys, {}, "new")
    /\ FreshBuffersUnwritten
    /\ LET reserved == {k \in keys \ Resident : memory_obj'[k] # NoObj}
       IN  Becomes(c, [Idle EXCEPT !.op = "storing", !.held = reserved,
                                   !.objs = [k \in reserved |-> memory_obj'[k]]])
    /\ UNCHANGED <<eviction_vars, l2_store_vars, l2_locked, l2_unlocks, lookup_task,
                   load_task, store_vars, prefetch_vars>>

\* Mutant: finish_write runs before the copy has reached the buffers.
StoreEndBeforeCopy(c) ==
    /\ client[c].op = "storing"
    /\ l1_finish_write(client[c].held)
    /\ Becomes(c, Idle)
    /\ UNCHANGED <<eviction_vars, l2_vars, store_vars, prefetch_vars>>

\* The copies queued on the stream are done and its callback runs finish_write.
StoreEnd(c) ==
    LET held == client[c].held
        objs == client[c].objs
    IN  /\ client[c].op = "storing"
        /\ content' = [b \in MemObjs |->
               IF \E k \in held : objs[k] = b THEN CHOOSE k \in held : objs[k] = b
                                              ELSE content[b]]
        /\ l1_finish_write(held)
        /\ Becomes(c, Idle)
        /\ UNCHANGED <<eviction_vars, l2_store_vars, l2_locked, l2_unlocks, lookup_task,
                       load_task, store_vars, prefetch_vars>>

----------------------------------------------------------------------------
(* lookup and query_prefetch_status                                         *)

\* submit_prefetch_task, first half: one read lock per worker.
LookupBegin(c, keys) ==
    /\ client[c].op = "idle"
    /\ l1_reserve_read(keys, NumWorkers - 1)
    /\ LET found == reserve_read_done(keys)
           hits == Prefix(keys, found)
       IN  Becomes(c, [Idle EXCEPT !.op = "looking", !.keys = keys, !.held = hits,
                                   !.skipped = found \ hits])
    /\ UNCHANGED <<eviction_vars, l2_vars, store_vars, prefetch_vars>>

\* Mutant: the locks beyond the first miss are forgotten.
LookupSubmitDangling(c) ==
    LET remaining == client[c].keys \ client[c].held IN
    /\ client[c].op = "looking"
    /\ IF remaining # {} /\ Adapters # {}
         THEN submit_prefetch_request(c, remaining)
         ELSE UNCHANGED prefetch_vars
    /\ Becomes(c, [client[c] EXCEPT !.op = "waiting", !.skipped = {}])
    /\ UNCHANGED <<cache_vars, l2_vars, store_vars>>

\* Second half: release what lies beyond the first miss, prefetch the rest.
LookupSubmit(c) ==
    LET remaining == client[c].keys \ client[c].held IN
    /\ client[c].op = "looking"
    /\ l1_finish_read(client[c].skipped, NumWorkers - 1)
    /\ IF remaining # {} /\ Adapters # {}
         THEN submit_prefetch_request(c, remaining)
         ELSE UNCHANGED prefetch_vars
    /\ Becomes(c, [client[c] EXCEPT !.op = "waiting", !.skipped = {}])
    /\ UNCHANGED <<eviction_vars, l2_vars, store_vars>>

\* query_prefetch_status has an answer: the L1 hits and the L2 hits after them.
Poll(c) ==
    LET hits == client[c].held \cup prefix_hits(c) IN
    /\ client[c].op = "waiting"
    /\ request[c].phase = "none" \/ ResultReady(c)
    /\ request' = [request EXCEPT ![c] = NoRequest]
    /\ Becomes(c, IF hits = {} THEN Idle
                  ELSE [Idle EXCEPT !.op = "ready", !.held = hits, !.left = NumWorkers])
    /\ UNCHANGED <<cache_vars, l2_vars, store_vars, queue>>

----------------------------------------------------------------------------
(* retrieve and free_lookup_locks                                           *)

\* The client is done when its last worker is.
Settled(state) == IF state.left = 0 /\ state.reading = 0 THEN Idle ELSE state

\* read_prefetched_results: a worker reads all keys, or gives back the locks
\* of those it can read.
Retrieve(c) ==
    LET held == client[c].held
        good == unsafe_read_done(held)
    IN  /\ client[c].op = "ready" /\ client[c].left > 0
        /\ IF good = held
             THEN /\ Becomes(c, [client[c] EXCEPT !.left = @ - 1, !.reading = @ + 1])
                  /\ UNCHANGED <<l1vars, order, pending_keys>>
             ELSE /\ l1_finish_read(good, 0)
                  /\ Becomes(c, Settled([client[c] EXCEPT !.left = @ - 1]))
        /\ UNCHANGED <<eviction_vars, l2_vars, store_vars, prefetch_vars>>

\* A worker's copies are done: finish_read_prefetched.
RetrieveDone(c) ==
    /\ client[c].reading > 0
    /\ l1_finish_read(client[c].held, 0)
    /\ Becomes(c, Settled([client[c] EXCEPT !.reading = @ - 1]))
    /\ UNCHANGED <<eviction_vars, l2_vars, store_vars, prefetch_vars>>

\* free_lookup_locks: the engine already has the first chunks, or the request
\* is gone, so no worker will read them.
FreeLookupLocks(c) ==
    /\ client[c].op = "ready" /\ client[c].left = NumWorkers
    /\ \E keys \in SUBSET client[c].held \ {{}} :
        /\ keys = Prefix(client[c].held, keys)
        /\ l1_finish_read(keys, NumWorkers - 1)
        /\ Becomes(c, IF keys = client[c].held THEN Idle
                      ELSE [client[c] EXCEPT !.held = @ \ keys])
    /\ UNCHANGED <<eviction_vars, l2_vars, store_vars, prefetch_vars>>

Clear ==
    /\ \E force \in ClearModes : l1_clear(force)
    /\ UNCHANGED <<eviction_vars, l2_vars, store_vars, prefetch_vars, client>>

----------------------------------------------------------------------------
ClientStep ==
    \/ \E c \in Requests, keys \in KeyLists : StoreBegin(c, keys) \/ LookupBegin(c, keys)
    \/ \E c \in Requests :
        \/ StoreEnd(c) \/ LookupSubmit(c) \/ Poll(c)
        \/ Retrieve(c) \/ RetrieveDone(c) \/ FreeLookupLocks(c)

EvictionStep ==
    /\ EvictionLoop \/ Expire
    /\ UNCHANGED <<l2_vars, store_vars, prefetch_vars, client>>

StoreThread == StoreStep /\ UNCHANGED <<prefetch_vars, client>>
PrefetchThread == PrefetchStep /\ UNCHANGED <<store_vars, client>>
AdapterThread == AdapterStep /\ UNCHANGED <<store_vars, prefetch_vars, client>>

Next ==
    ClientStep \/ Clear \/ EvictionStep \/ StoreThread \/ PrefetchThread \/ AdapterThread

Spec == Init /\ [][Next]_vars

\* The prefetch thread and every adapter's event loop run for ever and take
\* up what is ready; the scheduler polls every outstanding lookup.
PrefetchFairness ==
    /\ WF_vars(PrefetchStart /\ UNCHANGED <<store_vars, client>>)
    /\ \A r \in Requests :
        /\ WF_vars(PrefetchStep /\ request'[r] # request[r] /\ UNCHANGED <<store_vars, client>>)
        /\ WF_vars(LookupSubmit(r)) /\ WF_vars(Poll(r))
        /\ \A a \in Adapters :
            WF_vars((ExecuteLookup(r, a) \/ ExecuteLoad(r, a))
                    /\ UNCHANGED <<cache_vars, store_vars, prefetch_vars, client>>)
    /\ \A a \in Adapters, k \in Keys :
        WF_vars(ExecuteUnlock(a, k)
                /\ UNCHANGED <<cache_vars, store_vars, prefetch_vars, client>>)

FairSpec == Spec /\ PrefetchFairness

----------------------------------------------------------------------------
TypeOK ==
    /\ CacheTypeOK
    /\ content \in [MemObjs -> Data]
    /\ \A a \in Adapters : l2_objects[a] \in [Keys -> Data \cup {Absent}]
    /\ batch \subseteq Keys /\ targets \subseteq Adapters /\ deletions \subseteq Keys
    /\ \A r \in Requests : request[r].phase \in Phases
    /\ queue \in Seq(Requests)
    /\ \A c \in Requests :
        client[c].op \in {"idle", "storing", "looking", "waiting", "ready"}

ClientHolds(c, k) ==
    CASE client[c].op \in {"looking", "waiting"}
            /\ k \in client[c].held \cup client[c].skipped -> NumWorkers
      [] client[c].op = "ready" /\ k \in client[c].held -> client[c].left + client[c].reading
      [] OTHER -> 0

PrefetchHolds(r, k) ==
    IF \/ r \in Finalizing /\ k \in request[r].loaded
       \/ ResultReady(r) /\ k \in prefix_hits(r)
      THEN NumWorkers ELSE 0

StoreHolds(k) == Cardinality({s \in StoreTasks : k \in store_task[s].keys})

\* Every read lock in L1 belongs to somebody who will give it back: a client
\* between its lookup and its last retrieve, a finished prefetch nobody has
\* polled yet, or a store task in flight; and each of them still has all the
\* locks it counts on.  No path (gap in the prefix, partial load, failed
\* store, unread chunks) loses a lock or gives back one that is another's.
ReadLocksAccounted ==
    \A k \in Keys :
        read_lock[k] = MapThenSumSet(LAMBDA c : ClientHolds(c, k), Requests)
                        + MapThenSumSet(LAMBDA r : PrefetchHolds(r, k), Requests)
                        + StoreHolds(k)

\* Every lock at an L2 adapter belongs to a lookup not planned yet, to the
\* load plan of a request being loaded, or to an unlock already scheduled.
L2LocksAccounted ==
    \A a \in Adapters, k \in Keys :
        l2_locked[a][k] =
              Cardinality({r \in Requests : lookup_task[r][a].status = "done"
                                             /\ k \in lookup_task[r][a].ok})
            + Cardinality({r \in Requests : request[r].phase = "load"
                                             /\ k \in request[r].plan[a]})
            + l2_unlocks[a][k]

\* What lookup has promised is there: until the last worker has read it, no
\* eviction, clear, L1 deletion after an L2 store, or other client's release
\* takes a chunk away, so retrieve never finds one missing.
RetrieveNeverFails ==
    \A c \in Requests :
        client[c].op = "ready" => unsafe_read_done(client[c].held) = client[c].held

\* A buffer that a copy is going into or coming from is still the buffer of
\* its key and still locked: GPU copies of a store, L2 loads, L2 stores.
TransfersPinned ==
    /\ \A c \in Requests : client[c].op = "storing" =>
        \A k \in client[c].held : memory_obj[k] = client[c].objs[k] /\ WriteLocked(k)
    /\ \A r \in Requests, a \in Adapters : load_task[r][a].status = "submitted" =>
        \A k \in load_task[r][a].keys :
            memory_obj[k] = load_task[r][a].objs[k] /\ WriteLocked(k)
    /\ \A s \in StoreTasks : store_task[s].status = "submitted" =>
        \A k \in store_task[s].keys :
            memory_obj[k] = store_task[s].objs[k] /\ ReadLocked(k)

\* Whatever a reader can lock in L1 holds the data of its key, and so does
\* whatever a lookup can find in L2.
PublishedDataValid ==
    /\ \A k \in Resident : available_for_read(k) => content[memory_obj[k]] = k
    /\ \A a \in Adapters, k \in Keys : l2_objects[a][k] \in {k, Absent}

\* The lock that lookup_and_lock takes holds until the load: an adapter at
\* its capacity never evicts what a submitted load is about to read.
LoadFindsData ==
    \A r \in Requests, a \in Adapters :
        load_task[r][a].status = "submitted" => load_task[r][a].keys \subseteq Stored(a)

\* Every lookup is answered: neither the limit on requests in flight, nor a
\* partial load, nor a reservation that fails leaves a client polling for ever.
LookupAnswered ==
    \A c \in Requests : (client[c].op = "waiting") ~> (client[c].op # "waiting")
=============================================================================
