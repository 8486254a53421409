----------------------------- MODULE L2Adapter -----------------------------
(***************************************************************************)
(* lmcache/v1/distributed/l2_adapters: the asynchronous interface of       *)
(* base.py as mock_l2_adapter.py implements it.  A caller submits a task   *)
(* and returns at once; the adapter's event loop executes it later, in one *)
(* step, and the caller picks the result up after the eventfd fires.       *)
(* Tasks execute in any order: adapters with a pool of workers give no     *)
(* more than that.                                                         *)
(*                                                                         *)
(* The data in a buffer or in L2 is abstracted to whose data it is: a key, *)
(* or Garbage for bytes that nobody has written yet.  Every object takes   *)
(* one unit of the adapter's capacity.                                     *)
(***************************************************************************)
EXTENDS L1Cache

CONSTANTS
    Adapters,      \* adapter indices
    Requests,      \* prefetch requests
    StoreTasks,    \* ids of the store tasks that can be in flight at a time
    L2Capacity,    \* _max_capacity_bytes, in objects
    Unreliable     \* the adapters whose stores and loads may fail

ASSUME L2Assumption ==
    /\ Adapters \subseteq Nat
    /\ L2Capacity \in Nat \ {0}
    /\ Unreliable \subseteq Adapters
    /\ IsFiniteSet(Requests) /\ IsFiniteSet(StoreTasks)

VARIABLES
    content,        \* what every L1 buffer holds
    l2_objects,     \* _memory_objects: what every adapter holds for every key
    l2_queue,       \* _key_queue: the order of eviction
    l2_locked,      \* _locked_keys
    l2_unlocks,     \* unlocks scheduled on the event loop, per key
    store_task,     \* the store tasks in flight
    lookup_task,    \* the lookup_and_lock task of a request at an adapter
    load_task       \* the load task of a request at an adapter

l2_store_vars == <<l2_objects, l2_queue, store_task>>
l2_vars == <<content, l2_objects, l2_queue, l2_locked, l2_unlocks,
             store_task, lookup_task, load_task>>

Garbage == 0
Absent == -1
Data == Keys \cup {Garbage}

NoTask == [status |-> "none", keys |-> {}, objs |-> <<>>, ok |-> {}]
Submitted(keys, objs) == [status |-> "submitted", keys |-> keys, objs |-> objs, ok |-> {}]
Completed(task, ok) == [task EXCEPT !.status = "done", !.ok = ok]

NoStoreTask == [status |-> "none", adapter |-> Absent, keys |-> {}, objs |-> <<>>, ok |-> FALSE]

L2Init ==
    /\ content = [b \in MemObjs |-> Garbage]
    /\ l2_objects = [a \in Adapters |-> [k \in Keys |-> Absent]]
    /\ l2_queue = [a \in Adapters |-> <<>>]
    /\ l2_locked = [a \in Adapters |-> [k \in Keys |-> 0]]
    /\ l2_unlocks = [a \in Adapters |-> [k \in Keys |-> 0]]
    /\ store_task = [s \in StoreTasks |-> NoStoreTask]
    /\ lookup_task = [r \in Requests |-> [a \in Adapters |-> NoTask]]
    /\ load_task = [r \in Requests |-> [a \in Adapters |-> NoTask]]

Stored(a) == {k \in Keys : l2_objects[a][k] # Absent}

----------------------------------------------------------------------------
\* The buffers reserve_write has just handed out hold whatever was there before.
FreshBuffersUnwritten ==
    content' = [b \in MemObjs |-> IF b \in allocated' \ allocated THEN Garbage ELSE content[b]]

submit_store_task(s, a, keys) ==
    store_task' = [store_task EXCEPT ![s] =
        [status |-> "submitted", adapter |-> a, keys |-> keys,
         objs |-> [k \in keys |-> memory_obj[k]], ok |-> FALSE]]

submit_lookup_and_lock_task(r, keys) ==
    lookup_task' = [lookup_task EXCEPT ![r] = [a \in Adapters |-> Submitted(keys, <<>>)]]

\* Load tasks go only to the adapters that have something to load.
submit_load_tasks(r, plan) ==
    load_task' = [load_task EXCEPT ![r] = [a \in Adapters |->
        IF plan[a] = {} THEN NoTask
        ELSE Submitted(plan[a], [k \in plan[a] |-> memory_obj'[k]])]]

\* Schedule the unlock of keys[a] at every adapter.
submit_unlock(keys) ==
    l2_unlocks' = [a \in Adapters |-> [k \in Keys |->
        IF k \in keys[a] THEN l2_unlocks[a][k] + 1 ELSE l2_unlocks[a][k]]]

----------------------------------------------------------------------------
\* Mutant: eviction from L2 takes the oldest object, locked or not.
StoreOneEvictingLocked(a, objs, st, k) ==
    LET data == IF k \in DOMAIN objs THEN content[objs[k]] ELSE Garbage
        Put(queue, stored) == [objects |-> [stored EXCEPT ![k] = data],
                               queue |-> Append(queue, k), ok |-> TRUE]
    IN  IF ~st.ok \/ st.objects[k] # Absent THEN st
        ELSE IF Len(st.queue) < L2Capacity THEN Put(st.queue, st.objects)
        ELSE Put(Tail(st.queue), [st.objects EXCEPT ![Head(st.queue)] = Absent])

\* Store one object: nothing if L2 has the key; evict the first unlocked key
\* of the FIFO queue when L2 is full, and put the locked ones met on the way
\* back at its end; give up the rest of the batch when every key is locked.
StoreOne(a, objs, st, k) ==
    LET data == IF k \in DOMAIN objs THEN content[objs[k]] ELSE Garbage
        victim == SelectInSeq(st.queue, LAMBDA j : l2_locked[a][j] = 0)
        Put(queue, stored) == [objects |-> [stored EXCEPT ![k] = data],
                               queue |-> Append(queue, k), ok |-> TRUE]
    IN  IF ~st.ok \/ st.objects[k] # Absent THEN st
        ELSE IF Len(st.queue) < L2Capacity THEN Put(st.queue, st.objects)
        ELSE IF victim = 0 THEN [st EXCEPT !.ok = FALSE]
        ELSE Put(SubSeq(st.queue, victim + 1, Len(st.queue)) \o SubSeq(st.queue, 1, victim - 1),
                 [st.objects EXCEPT ![st.queue[victim]] = Absent])

\* The keys of a batch are stored one after the other, in ascending order.
StoreAll(a, objs, keys, st0) ==
    MapThenFoldSet(LAMBDA k, st : StoreOne(a, objs, st, k), st0, LAMBDA k : k, Max, keys)

ExecuteStore(s) ==
    LET t == store_task[s]
        a == t.adapter
        result == StoreAll(a, t.objs, t.keys,
                           [objects |-> l2_objects[a], queue |-> l2_queue[a], ok |-> TRUE])
    IN  /\ t.status = "submitted"
        /\ \/ /\ l2_objects' = [l2_objects EXCEPT ![a] = result.objects]
              /\ l2_queue' = [l2_queue EXCEPT ![a] = result.queue]
              /\ store_task' = [store_task EXCEPT ![s].status = "done", ![s].ok = result.ok]
           \/ /\ a \in Unreliable
              /\ store_task' = [store_task EXCEPT ![s].status = "done"]
              /\ UNCHANGED <<l2_objects, l2_queue>>
        /\ UNCHANGED <<content, l2_locked, l2_unlocks, lookup_task, load_task>>

ExecuteLookup(r, a) ==
    LET t == lookup_task[r][a]
        found == t.keys \cap Stored(a)
    IN  /\ t.status = "submitted"
        /\ lookup_task' = [lookup_task EXCEPT ![r][a] = Completed(t, found)]
        /\ l2_locked' = [l2_locked EXCEPT ![a] = [k \in Keys |->
               IF k \in found THEN l2_locked[a][k] + 1 ELSE l2_locked[a][k]]]
        /\ UNCHANGED <<content, l2_store_vars, l2_unlocks, load_task>>

\* Copy every object L2 still has into its buffer.
ExecuteLoad(r, a) ==
    LET t == load_task[r][a] IN
    /\ t.status = "submitted"
    /\ \E loaded \in SUBSET (t.keys \cap Stored(a)) :
        /\ a \in Unreliable \/ loaded = t.keys \cap Stored(a)
        /\ content' = [b \in MemObjs |->
               IF \E k \in loaded : t.objs[k] = b
                 THEN l2_objects[a][CHOOSE k \in loaded : t.objs[k] = b]
                 ELSE content[b]]
        /\ load_task' = [load_task EXCEPT ![r][a] = Completed(t, loaded)]
    /\ UNCHANGED <<l2_store_vars, l2_locked, l2_unlocks, lookup_task>>

ExecuteUnlock(a, k) ==
    /\ l2_unlocks[a][k] > 0
    /\ l2_unlocks' = [l2_unlocks EXCEPT ![a][k] = @ - 1]
    /\ l2_locked' = [l2_locked EXCEPT ![a][k] = IF @ <= 1 THEN 0 ELSE @ - 1]
    /\ UNCHANGED <<content, l2_store_vars, lookup_task, load_task>>

AdapterStep ==
    /\ \/ \E s \in StoreTasks : ExecuteStore(s)
       \/ \E r \in Requests, a \in Adapters : ExecuteLookup(r, a) \/ ExecuteLoad(r, a)
       \/ \E a \in Adapters, k \in Keys : ExecuteUnlock(a, k)
    /\ UNCHANGED cache_vars
=============================================================================
