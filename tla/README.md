# TLA+ verification of LMCache

A TLA+ development for LMCache as it stands in this repository: the distributed
(multi-process) storage stack, the in-process cache engine with its fidelity
cache, the storage backends that keep protocol state of their own, the vLLM
integrations, the cache controller's full sync and the health monitor. Paths are
relative to `LMCache-precision-allfull/`; `PROJECT.json` maps every definition
to the lines it models and lists the hazards line by line.

## The system

A serving engine (vLLM) keeps KV caches of prompts in chunks outside the GPU.
It does so in one of two ways. Multi-process: a server process owns pinned CPU
memory (L1) and any number of L2 adapters, and vLLM's scheduler and workers talk
to it over a message queue. In-process: a cache engine inside each worker owns
a CPU tier and other backends (disk, raw device, remote server, peers, the
decoder of a disaggregated pair).

| Component | State | Operations | Talks to |
|---|---|---|---|
| `TTLLock` (`csrc/storage_manager`) | counter, expiration (two atomics) | lock, unlock, is_locked, reset | L1Manager, under its mutex |
| `L1Manager` | objects: buffer, write and read lock, temporary flag | reserve/finish read and write, delete, clear | listeners, inside its lock |
| LRU policy, `EvictionController` | order; thread | touched, removed; watermark, victims, delete | L1Manager |
| `StoreController` | pending keys, tasks in flight | take keys, submit per adapter, complete | L1Manager, L2 adapters |
| `PrefetchController` | queue, requests, results | submit, lookup, plan, load, finalize, query | L2 adapters, L1Manager |
| L2 adapters | objects, FIFO, locks, tasks | store, lookup_and_lock, load, unlock | eventfds |
| `StorageManager`, `MPCacheEngine` | the above; prefetch jobs | store, lookup, query_prefetch_status, retrieve, free_lookup_locks | GPU streams |
| vLLM multi-process adapters | futures, job ids, health flag | submit, poll, get_finished, heartbeat | message queue |
| `LMCacheEngine` | hot cache, reference and pin counts, lookup pins, fidelity state | store, retrieve, lookup, lookup_unpin, freeze, clear, by chunk or by layer | backends, pin monitor |
| vLLM connector | request trackers, load and save specs | lookup, load, save, failed blocks | engine, lookup clients |
| Asynchronous lookup | ids, answers, event futures | lookup, prefetch, cleanup | engine's storage manager |
| `AddressManager` | free list, heap size | allocate, batched_allocate, free, sbrk | allocators |
| Disk, raw block, P2P, PD backends | index, tasks in flight, slots, manifest, sockets | put, get, pin, remove, evict, load | pool threads, event loops, peers |
| Cache controller | registry of workers, full-sync tracker | start, batch, end, status; incremental operations; heartbeat | workers over ZMQ |
| Health monitor | status, bypassed backends, saved setting | check, fall back, recover | remote backend, hot cache |

What is hard here: every multi-step protocol (lookup, poll, retrieve; reserve,
load, publish; choose victims, delete; allocate, write, acknowledge) is made of
calls that are atomic one by one only. Locks have a TTL and pins a monitor that
takes them away; locks, references and pins are counted and given back by
different threads; adapters, peers and servers answer late, twice, in part or
not at all, and restart; memories, devices and disks run at their capacity;
copies run on GPU streams and pool threads while tables already name their
result.

What makes the parts correct: a lock, pin or reference is given back once, by
its owner, on every path; what was promised to a request is still there, whole
and its own, when the request takes it; what cannot be had is reported; two
owners never share memory, a slot or space; what must end (a lookup, a freeze, a
fallback, memory pressure, a call) ends.

## Modules

`X <- Y` reads "X extends Y".

| Module | Models | State and actions |
|---|---|---|
| `HoldCounter` | what `ttl_lock.h` promises | holds in force; Lock, Unlock, Drop, IsLocked |
| `TTLLock` | `ttl_lock.cpp` | one action per atomic access, a clock that ticks between any two; refines `HoldCounter` |
| `L1Manager` | `l1_manager.py`, `memory_manager.py` | one action per method; `..._done` is the set of keys it succeeds on; `ExpireWrite`/`ExpireRead` are the TTLs |
| `L1Cache` <- `L1Manager` | `lru.py`, `eviction.py`, `eviction_controller.py`, `StoreListener` | `l1_...` are the manager's methods with the listeners' reactions; the eviction thread checks, chooses, executes |
| `L2Adapter` <- `L1Cache` | `mock_l2_adapter.py` as the instance of `base.py` | task records, eviction around locks, execution steps that may fail |
| `StoreController`, `PrefetchController` <- `L2Adapter` | the controllers and their policies | one action per phase |
| `StorageManager` <- both | `storage_manager.py`, the handlers of `server.py` | clients that store, look up, poll, retrieve, free; all threads composed |
| `LookupJobs` | `lookup`, `query_prefetch_status` of `server.py` | jobs of several precision spans over abstract handles |
| `MPWorker`, `MPScheduler` | `vllm_multi_process_adapter.py` with `mq.py`, `futures.py` | futures, heartbeat, polls; a server that answers, raises, restarts or is slow |
| `Engine` | `cache_engine.py`, `storage_manager.py`, `local_cpu_backend.py`, `remote_backend.py`, `pin_monitor.py`, `fidelity/`; the allocation of `redis_connector.py` | store and retrieve as a job with one action per stretch no other thread can enter; lookup, remote writes, a get that nobody waits for any more, pin time-outs, clear and freeze beside it |
| `Layerwise` | `store_layer`, `retrieve_layer`, `lookup` by layers, the connector's hooks, the store stream of `gpu_connectors.py` | one forward step of a batch advances generators layer by layer |
| `VLLMConnector` | `vllm_v1_adapter.py` for one request, with what `store` and `_process_tokens_internal` may do to it | token-exact trackers; scheduling, preemption, stores that stop early, loads of any subset of the chunks, eviction |
| `AsyncLoading` | `lmcache_async_lookup_client.py`, `event_manager.py`, prefetch of `storage_manager.py` | lookups by id and round, workers' answers, time-out, cleanup messages |
| `Allocator` | `AddressManager`, `TensorMemoryAllocator.batched_free`, `lazy_memory_allocator.py` | a set of free blocks; batches carve a copy of it; frees run after run |
| `LocalDisk` | `local_disk_backend.py`, `pq_executor.py` | space reserved at submission, files written, entered, unlinked step by step |
| `RawBlock` | `rust_raw_block_backend.py` | slots, writes in flight, manifest snapshots, crash and restart |
| `P2PBackend` | `p2p_backend.py` | client with retries, peer that serves what it has whenever its turn comes |
| `PDTransfer` | `pd_backend.py` | allocation thread, transfers, references promised to requests, retrieves that give chunks up |
| `FullSync` | `cache_controller/` full sync, registry, heartbeat; `batched_message_sender.py` | snapshot and batches on a PUSH socket overtaken by DEALER requests; restarts, lost answers |
| `HealthMonitor` | `health_monitor/`, `set_hot_cache`, the CPU tier it competes with | check, fallback, recovery in steps, stores and reads between them |
| `L1Proofs`, `StorageManagerProofs` <- `L1Proofs`, `StorageSafetyProofs` <- `StorageManagerProofs`, `SpaceProofs`, `TTLLockProofs`, `ProtocolProofs`, `ConnectorProofs`, `TransferProofs` | | theorems (Proofs, below) |
| `MC...` | | bounds and small instances |

Composition. `StorageManager` composes the threads that share L1 and L2. The
other components share no state with one another beyond the interfaces their
modules model on both sides (adapter and server, client and peer, prefiller and
decoder, worker and controller, monitor and CPU tier, connector and cache).
`MCUnits` and `MCProgress` check such components side by side: a behaviour
chooses one and the others stay in an initial state.

Abstractions. A method under a lock is one action; listeners run inside it. A
list of keys is a set unless its order matters. A TTL lock is its holds in
force, which `ImplementsHoldCounter` justifies for callers under a mutex.
Buffers are of one size (except in `Allocator`), but an L1 allocation may fail
whatever is free, because precision tiers differ in size. Data is the name of
the chunk it belongs to, or "unwritten". Sizes, formats, hashes and logging are
left out. `Engine` follows the Python object model: a buffer no object refers to
is freed by `__del__`, whatever its counts. A mutated form of a definition (a
plausible bug, comment "Mutant:") stands before the definition it breaks; no
specification uses it.

## Runs

| Run | Question | Instance | States |
|---|---|---|---|
| `units` | do thirteen components keep their promises under every interleaving, fault and retry? | below | 1,075,339 |
| `progress` | are jobs answered, do freezes, fallbacks and memory pressure end, and is what they leave consistent? | below | 147,585 |
| `manager_adapters` | are L1 and L2 locks accounted for with two adapters, partial failures and skip_l1? | 1 client, 2 workers, 2 chunks, 2 buffers, one unreliable adapter | 1,279,875 |
| `manager_clients` | are promises and transfers kept with two clients on overlapping prompts? | 2 clients, 2 chunks, skip_l1 | 602,935 |
| `manager_eviction` | is readable data valid, and what a lookup locked still there for its load, with eviction from L1 and L2 and clears? | 2 clients, one-chunk prompts, L2 for one object | 908,153 |
| `manager_expiry` | is every lookup answered with expired locks, forced clears and failures, at the in-flight limit? | 2 clients, 1 key, limit 1, failing L2 | 179,262 |
| `manager_cleanup` | is readable data valid with prompts of two chunks? **violated** | 2 clients | stops at the violation |
| `raw_block_crash` | does the index match the device after a crash? **violated** | 2 keys | stops at the violation |
| `pd_overlap` | does the decoder read only what has arrived? **violated** | 2 requests that share a chunk | stops at the violation |
| `hot_cache` | is the hot cache cleared after recovery? **violated** | 2 buffers | stops at the violation |
| `layerwise_sync` | is a layer put only when it is copied, whoever stores first? **violated** | 2 requests, 2 layers | stops at the violation |
| `engine_hang` | do stores clear while a call waits for memory? **violated** | 2 requests, dual stores, no fault | stops at the violation |

`units`, component by component:

| Component | Properties | Instance, and why it is enough |
|---|---|---|
| TTLLock | `ImplementsHoldCounter`, `NoHoldLost` | 2 threads, clock to 3, TTL 2: an expiration in the middle of a call; under a mutex with every method or without resets (2 holds a thread), or free on a live lock (1 hold each beside the one it starts with) |
| L1Manager | `ReadersExcludeWriters`, `NoBufferLeaked`, `BuffersPinned` | 2 keys, 2 buffers, extra counts from -1 to above the limit, 3 read holds |
| Allocator | `NoOverlap`, `FreeListCoalesced` | heap of 7 growing to 14, sizes 1 and 3 aligned to 2, batches of 3: exact fits, splits, neighbours on both sides, growth beside a used end |
| LocalDisk | `DiskBounded` | 3 keys, room for 2, 2 pool threads: an eviction while two saves are in flight |
| AsyncLoading | `AnswerIsLoaded` | 2 workers with 2 chunks; 1 worker with a repeated lookup |
| MPWorker | `UnansweredLoadsReported` | 1 request, 2 stores, engine reports it twice |
| MPScheduler | `OrphanedLocksExplained` | 2 requests, 2 jobs, a server restart |
| VLLMConnector | `HolesAreShortStores`, `LossIsBeforeFailure` | chunks of 2 tokens, prompts of 4 and 5: with and without a partial chunk; two chunks, so that one ends where the failed one starts |
| PDTransfer | `PromisedChunksStay` | 2 prompts with a common first chunk, 2 entries of memory, a preemption |
| RawBlock | `SlotsAccounted` | 1 slot saved after each write, with pins and readers; 2 slots saved at close; a restart |
| P2PBackend | `GotItsChunks` | 2 requests, 2 buffers, a second try, a peer restart, removal or new store |
| Layerwise | `PromisedLayersStay`, `PutAfterCopy` | 2 requests that share a chunk, 2 layers, a freeze |
| Engine | `HeldDataIntact`, `PinnedStays`, `ReferencesAccounted`, `CallNeverBlocked`, `CleanupKeepsACopy` | 2 chunks, 2 buffers, 1 or 2 requests, 9 configurations: without faults, with a clear, pins that time out, a freeze, a remote tier that fails or forgets, a cleanup, stores that wait, the codec; with 2 buffers for 2 chunks of two variants every allocation meets pressure |

`progress`: lookup jobs (`AnswerIsPrefix`, `UniformJobReleased`,
`UniformJobAnswered`; a job of one span and one of two spans with two keys a
chunk), full sync (`SyncingHoldsSnapshot`, `FreezeEnds`; one key, two syncs, one
fault), health monitor (`HotSettingRestored`, `RecoveryReached`; every policy and
configured setting, two buffers, an operator's toggle), L1 cache
(`OrderFollowsCache`, `EveryObjectEvictable`, `ColdObjectsEvicted`; three keys,
two buffers).

Bounds are named constants used in guards: `MaxReadHolds`, `MaxFreeHolds`, `MaxUnlocks`,
`StoreTasks`, `MaxTime`, `MaxHolds`, `MaxPins`, `MaxStores`, `MaxRepeats`,
`MaxJobs`, `MaxServerRuns`, `MaxTokens`, `MaxPreempts`, `MaxRefs`, `MaxSyncs`,
`MaxFaults`, `MaxOps`, `MaxPush`, `MaxSwitches` and the fields of the setups.
Symmetry is over buffers, clients and store task ids, in runs without liveness.
`CHECK_DEADLOCK FALSE` stands where a bounded component has nothing left to do.

Fairness. Only threads that never wait for a client are assumed to go on.
`EvictionFairness`: the eviction loop sleeps a second and takes mutexes that are
held briefly. `PrefetchFairness`: the prefetch thread polls for ever, an
adapter's event loop runs every task scheduled on it, a handler runs to its end,
the scheduler polls every outstanding lookup. `JobsFairness`: handlers, polls,
and every prefetch request completes, which is `LookupAnswered`. `SyncFairness`:
the sender's coroutine, the controller's handlers and the heartbeat loop; answers
may be lost within `MaxFaults`. `HealthFairness`: the monitor's thread, its
clock, stores that end, readers that return; the probe allocates and gets memory
infinitely often, so strong fairness lets it succeed once. `EngineSpec`
(run `engine_hang`) has weak fairness on the steps of the worker's call, on
remote writes, which the event loop runs unless it sleeps, and on a get asleep on
it, which retries every 0.1 s and takes a buffer that stays free. Requests, pin
time-outs and evictions of the server need never come. Clients may stop at any
point.

## What the violated runs show

1. `manager_cleanup`: a prefetch gives up buffers it could not fill with
   `finish_write` and then `delete`. In between they are readable and queued for
   L2. No fault is needed: another client storing an earlier chunk makes the gap.
2. `raw_block_crash`: the manifest is older than the device when slots were
   reused after it was saved; the index loaded from it serves other chunks, and
   the header before each chunk is not compared.
3. `pd_overlap`: a chunk that another request is still transferring is answered
   as already sent; the second request can be started on the decoder first.
4. `hot_cache`: recovery switches the hot cache off before `clear()`, which then
   returns at once. What the fallback stored keeps its memory.
5. `layerwise_sync`: only the first request of a batch waits for the store
   stream; if it has nothing new to store, nobody does.
6. `engine_hang`: a get that needs memory sleeps in `allocate` on the event loop
   on which the remote writes that hold the memory have to end. Its caller's
   time-out does not wake it, and the next call that asks the remote tier for a
   key waits on that loop without a time-out. A call that has found its chunks
   is never blocked (`CallNeverBlocked`).

## Known limits

What a doc, a comment or an assertion says and the code does not keep, met while
modelling. Where a predicate is named it is defined in the component's module,
with TLC's counterexample as the reason it is in no run.

- `TTLLock`: two concurrent first `lock()` calls on a fresh or expired lock can
  leave one hold (`ttl_lock.h:20`, "All operations are thread-safe").
  `L1Manager` calls under its mutex and is not affected.
- L1: an object whose write lock expires before `finish_write` stays in L1,
  readable and announced to nobody. `RetrieveNeverFails`, `TransfersPinned` and
  `ReadLocksAccounted` are about locks in force: no expirations, no forced
  clears.
- `LookupJobs`: a poll between the completions of two spans loses the first
  result for ever (`JobAnswered`). With several spans or several keys a chunk,
  locks of what is not reported stay until the TTL (`UniformJobReleased` is about
  the others).
- `Engine`: after a failed chunk `_process_tokens_internal` drops the chunk that
  ends where the failed one starts (`end < last_failed_block_start`,
  `cache_engine.py:2355`), but `ret_mask` still counts it (`MaskCopied`). Nobody
  gives the reference of a dropped chunk back (`ReferencesReturned`); one that
  is in the hot cache is then never collected or evicted, although
  `memory_management.py:511-512` calls `__del__` the safety net for this case.
  `dropped` counts these references and `MaxRefs` bounds them; every other
  reference has a holder, which is `ReferencesAccounted`.
  The last failure counts, not the first: when two tiers fail, a chunk behind the
  first hole is copied, and vLLM recomputes from the hole on.
  With the int8 codec or `force_store_wait` a store can wait for ever for memory
  it holds itself, so `CallNeverBlocked` is about the others. A Redis worker
  (`pq_executor.py`, four of them) ends when it completes a job whose future was
  cancelled by a get that timed out; `OrphanEnds` leaves the worker alive, and
  one sleeping get stands for all. `lookup` is one step: the CPU pins it holds
  while the remote tier does not answer are not modelled. A dual store under
  memory pressure raises; a full store that ran out of memory cleans up base
  variants of chunks it did not store and marks the prefix FULL_READY; PROMOTING
  is never left when the promotion does not come
  (`PHASE2_STATE_MACHINE.md:16-34`); after a forced unpin a late unpin works on
  whatever object has the key.
- `AsyncLoading`: `prefetch_all_done_callback` can release a chunk twice
  (`NoDoubleRelease`), and `lookup_cache` can raise for an id that was cleaned up
  (`LookupCacheReturns`); the cleanup message of a lookup given up on can release
  what a second one loaded.
- `LocalDisk`: a pinned key can be gone when its load starts (`PinnedKeyFound`);
  a stored key can be stored again (`StoredOnce`); `remove` by force does not
  lower `current_cache_size`; a starved put stays in `put_tasks`; two paths raise
  with the lock held.
- `RawBlock`: slots in flight when a manifest is taken are lost after a restart;
  a read after the unlock can see a reused slot; a pin is a flag, not a count; a
  payload too large for O_DIRECT leaves its key in `_inflight`.
- `P2PBackend`: a peer can write late into buffers the client gave up; a
  reconnect that raises leaks the client's buffers, a peer get that raises the
  peer's pins.
- `PDTransfer`: a chunk that was skipped is never released by the prefiller that
  found it; after a failed transfer an unwritten entry counts as sent; a request
  loaded again after a preemption gives up references of others.
- `Layerwise`: in freeze mode, or unhealthy, `store_layer` ends before the
  connector's last `next()`; lookup pins the layers of the first incomplete chunk
  without recording them; only one layer is checked before storing.
- `HealthMonitor`: an operator's toggle during a fallback is overwritten; the
  probe's own failures count as failures.
- `FullSync`: stores that began before the freeze change the cache under it
  (`FrozenCacheStill`); operations can be reported in another order than they
  happened (`QueueFollowsCache`); nothing calls `check_sync_timeout`
  (`SyncTimesOut`).
- `MPWorker`: a request can be reported finished with a STORE still reading its
  blocks (`SafeToFree`), or twice (`ReturnedOnce`).
- `VLLMConnector`: the tracker counts tokens as saved when the save is planned
  (`vllm_v1_adapter.py:372-374`; `:1221`, "We assume all tokens are saved"). A
  store that is skipped because the engine is unhealthy (`cache_engine.py:793-795`)
  or frozen (`839-844`), or gets no memory for a chunk (`888-895`), leaves a hole
  that the request never saves again (`SavedWasCached`). That there is no other
  kind of hole is `HolesAreShortStores`, checked and proved. A load that fails in
  the middle does not report the chunk that `_process_tokens_internal` drops (see
  `Engine`), so vLLM uses blocks nobody wrote (`LostChunkReported`), although
  `ret_mask` is documented as what "was successfully loaded"
  (`vllm_v1_adapter.py:930-932`). That nothing else is lost unreported is
  `LossIsBeforeFailure`, checked and proved. The assertion on preempted requests
  can fail (`PreemptedAssertionHolds`); a step whose load failed can save chunks
  computed from it (`CachedContentValid`); the lost tail of a partial chunk is not
  counted.

## Proofs

TLAPS checks every theorem for all values of the constants that satisfy the
named assumption; TLC evaluates those assumptions in the runs. Each safety
proof has the same shape: an inductive invariant that implies the property, one
lemma per action (or group of actions) that keeps it, and a last step that joins
them with `PTL`. Where TLC checks the property too, the theorem's statement is
the property of the run.

**`L1Proofs`**: any keys, buffers and extra counts, `MAX_READ_LOCK_COUNT >= 1`
(`L1Assumption`); a finite set of keys, named by numbers for their place in a
prompt, and any watermark and eviction ratio (`CacheAssumption`).

| Theorem | Statement |
|---|---|
| `L1TypeCorrect` | `L1Spec => []L1TypeOK` |
| `L1Exclusion` | `L1Spec => []ReadersExcludeWriters` |
| `L1BuffersAccounted` | `L1Spec => [](NoBufferShared /\ NoBufferLeaked)` |
| `L1NoOrphanLock` | `L1Spec => []LocksOnResidentKeys` |
| `L1BuffersStayPinned` | `L1Spec => BuffersPinned` |
| `OrderIsTheCache` | `CacheSpec => []OrderFollowsCache` |
| `NothingEscapesEviction` | `CacheSpec => []EveryObjectEvictable`, if `~TTLExpires` |
| `CacheImplementsManager` | `CacheSpec => L1Spec` |

`L1Inv` is the conjunction of the five state predicates. None is inductive
alone: exclusion after `reserve_write` of an absent key needs that absent keys
carry no lock; the accounting of buffers after a deletion needs that no two keys
share one; that locked keys are resident after a deletion needs exclusion,
because `finish_read` drops an object on its read locks alone.

`CacheInv` joins `L1Inv` with the two properties of the LRU order, which need
it: a key enters the order when its write lock is given up, and only a resident
key carries one. The order is a sequence without repetitions, and the lemmas
`DroppedLists`, `NewestLists` and `JoinedLists` say what the listener's
operations make of one. They rest on `AscendingLists`: the elements of a finite
set of numbers, listed by rank. The hypothesis of `NothingEscapesEviction` is
the property's own: an object whose write lock runs out stays in L1 and is
announced to nobody.

**`StorageManagerProofs`**: any clients, store tasks (finitely many of each),
adapters, capacities, workers, key lists and bound on requests in flight;
adapters of `Unreliable` may lose a store or a load (`L2Assumption`,
`StoreAssumption`, `PrefetchAssumption`, `ManagerAssumption`).

| Theorem | Statement |
|---|---|
| `L2LocksAreAccounted` | `Spec => []L2LocksAccounted` |
| `LoadsFindData` | `Spec => []LoadFindsData` |
| `ManagerImplementsCache` | `Spec => CacheSpec`, if `CountsCovered` |
| `ManagerKeepsCachePromises` | `Spec => []OrderFollowsCache /\ BuffersPinned /\ []ReadersExcludeWriters`, if `CountsCovered` |

`L2Inv` is `L1Inv`, the types, `Protocol`, the account of the L2 locks and
`L2KeysStored`. A lock belongs to a lookup until the plan is made and to a load
until it has come back, so the account is inductive only with `TasksOK`, which
says in which phase of a request its tasks can be; a request waits in the queue
once (`QueueOK`), or a second start would overwrite the tasks of the first with
their locks. `L2KeysStored`, that what is locked for someone stays stored, is
what eviction in an adapter keeps (`StoreOneShelves`) and what the loads rely on.
The steps of the prefetch controller are restated once, field by field
(`PlanEffect`, `LoadedEffect`, ...), and every later proof cites those.

`ManagerImplementsCache` is a refinement between modules: the composed threads
are callers of the open environment of `L1Cache`. `CountsCovered` says that
`ExtraCounts`, which only that environment reads, contains the two arguments the
code passes, 0 and the number of workers less one (the run `manager_adapters`
gives it both).

**`StorageSafetyProofs`**: as above, and each theorem assumes `LocksLast`: no
TTL runs out, no client forces a clear, and `NumWorkers <=
MAX_READ_LOCK_COUNT`. In these three ways L1Manager drops or withholds locks
that somebody counts on, by design of the code; each can break the
properties. The runs `manager_adapters`, `manager_clients` and
`manager_eviction` satisfy it.

| Theorem | Statement |
|---|---|
| `ReadLocksAreAccounted` | `Spec => []ReadLocksAccounted` |
| `RetrievesSucceed` | `Spec => []RetrieveNeverFails` |
| `TransfersStayPinned` | `Spec => []TransfersPinned` |
| `OnlyFailedPrefetchesPublishGarbage` | `Spec /\ []NoFailedPrefetch => []PublishedDataValid` |

`SafeInv` adds to `L2Inv` the account of the read locks, `WritersOwn` (a key
being written is write-locked and has one writer) and `BuffersBound` (the buffer
a copy, a load or a store was given is still the buffer of its key). The account
needs `WritersOwn`: turning the write locks of loaded keys into read locks must
not meet a key that someone else is writing. `BuffersBound` needs the account: a
buffer stays with a key as long as the key is locked across the step. The
account is a sum over clients and prefetches; `SumChange` says what one holder's
change does to it, and from there each step is a lemma about one holder.

`DataInv` adds that readable keys hold their own data, that L2 does, and that
what a load reports has arrived. It is not inductive for one step, and that step
is the finding of `manager_cleanup`: when a load fails, `finish_write` makes the
keys that have no data readable before `delete` takes them out. The theorem
says that this is the only way: without such a cleanup (`NoFailedPrefetch`, which
holds throughout `manager_eviction`) nothing unwritten is ever published.

**`SpaceProofs`**, the allocator: any heap size, growth, alignment, batch size
and set of request sizes (`AllocatorAssumption`); the backends on disk: any keys
and capacity, any number of slots, save interval and restarts (`DiskAssumption`,
`RawBlockAssumption`).

| Theorem | Statement |
|---|---|
| `NoOverlapHolds` | `AllocSpec => []NoOverlap` |
| `FreeListCoalescedHolds` | `AllocSpec => []FreeListCoalesced` |
| `DiskStaysBounded` | `DiskSpec => []DiskBounded` |
| `SlotsStayAccounted` | `BlockSpec => []SlotsAccounted` |

`AllocInv` adds to the two the types and `BatchApart`, which says the same of
the working copy of a batch: the copy replaces the list at the end, so the list
is only as good as the copy. The facts about addresses are lemmas over arbitrary
sets of blocks: `CarveLayout` (taking the front of a free block), `ReplaceLayout`
and `CoalesceLayout` (putting a block back, joined with the free neighbours),
`FewerUsed` and `JoinUsed` (the runs of a batched free). First fit itself plays
no part: any fitting block would do, and the theorems cover that.

`DiskBounded` counts files; `DiskInv` shows that each belongs to an entry or to
a save under way (`FilesOwned`) and that the size counted covers both
(`SpaceReserved`). `SlotsAccounted` after a restart is a fact about the manifest
of an earlier time, so `BlockInv` says it of every snapshot that may still be
loaded (`SnapshotsAccounted`): its index, its free list and the slots being
written when it was taken account for every slot it knows.

**`TTLLockProofs`**: any finite set of threads, any TTL above 0
(`TTLLockAssumption`).

| Theorem | Statement |
|---|---|
| `HoldsAreKept` | `LockSpec => []NoHoldLost` |
| `LockImplementsCounter` | `LockSpec => ImplementsHoldCounter` |

`NoHoldLost` speaks of a quiet lock; `LockInv` says what the counter is in the
middle of calls. `LiveCount`: it is the number of holds and of `lock()` calls
that have counted but not yet stored their expiration. `CallsConsistent` and
`CallAlone` bound what a thread can have read: under the mutex the values of the
call at hand are those of the lock. For the refinement each step is shown to be
a step of `HoldCounter` or a stutter, with the effect of a `lock()` placed where
it reads the clock; only serialised locks are mapped, as `ImplementsHoldCounter`
says.

**`ProtocolProofs`**: any requests, stores, spans and keys to a chunk
(`JobsAssumption`), setups, keys and bounds (`HealthAssumption`); the adapters
and full sync need no assumption.

| Theorem | Statement |
|---|---|
| `LoadsReported` | `MPWSpec => []UnansweredLoadsReported` |
| `OrphansExplained` | `MPSSpec => []OrphanedLocksExplained` |
| `PrefixReported` | `JobsSpec => []AnswerIsPrefix` |
| `NothingStaysLocked` | `JobsSpec => []UniformJobReleased` |
| `HotSettingComesBack` | `HealthSpec => []HotSettingRestored` |
| `OneSnapshotAtATime` | `SyncSpec => []SyncingHoldsSnapshot` |

The worker needs `SubmittedRetrieves` (a retrieve with a future has been
submitted, so none is submitted twice). The scheduler needs that a lookup is sent
only for a request without a job, and that what the server executes after the
client gave up was charged to its request. Lookup jobs: `FoundIsLocked` ties the
locks of a span to its handle, and `CountsLeading` says what a poll in the
middle has counted: `found_count` covers the first spans in full and ends inside
the span where something was missing. Both properties are read off the state
`CountsLeading` describes after the last span.

`HotInv` follows the saved setting through the steps of a fallback and a
recovery. `SyncInv`: sync ids only grow (`IdsUsed`); the sender, every copy of
its start request and the registry agree on the snapshot of an id
(`OneSnapshot`); and every batch on the socket or still to be sent, again or for
the first time, is part of the snapshot of its id (`BatchesOfSnapshot`).

**`ConnectorProofs`**: any chunk size, prompts, token bound and number of
layers; any workers, chunks and number of lookups (`ConnectorAssumption`,
`LayerwiseAssumption`, `AsyncAssumption`).

| Theorem | Statement |
|---|---|
| `HolesComeFromStores` | `ConnectorSpec => []HolesAreShortStores` |
| `UnretrievedIsReported` | `ConnectorSpec => []LossIsBeforeFailure` |
| `PromisedLayersKept` | `LWSpec => []PromisedLayersStay` |
| `CopiedBeforePut` | `LWSpec => []PutAfterCopy` |
| `AnswersAreLoaded` | `AsyncSpec => []AnswerIsLoaded` |

`HolesAreShortStores` needs `CachedWasEver`: a lookup counts what is in the cache
now, and the tracker starts from that count. `LossIsBeforeFailure` is about any
set of chunks the tiers bring: a load that lacks a full chunk cannot reach the
count vLLM expects, although it counts tokens vLLM already had
(`MissingIsCounted`); one that lacks nothing is not reported
(`CompleteIsNotReported`); and before the first missing token the copy leaves
out at most the chunk in front of the failed one (`LoadLosesLastGood`). `PromisedLayersStay` needs `PinsHeld`, a
pin on a layer for every request that was promised it, so that one request's
unpin leaves the pins of the others; `TodoIsSuffix` and `BatchLooked` say which
requests of a batch still have their turn. `PutAfterCopy` needs `StreamClean`:
after the first storer has waited, only copies of the layer at hand are on the
stream, by requests that have had their turn. `AnswerIsLoaded` needs to know
where a lookup under way is: `OneCall` says that a worker has it in its socket,
or loads it, or has answered it, and one of these only, and that an answer on
the socket counts chunks that are loaded and held; `Collected`, that the answers
collected so far are those of that many workers with nothing more to say, so
that the last one makes them all. A preempted request finds its workers `Quiet`,
which is why its second lookup cannot be served with an answer to the first.

**`TransferProofs`**: any requests, chunks, prompts, buffers, retries and faults
(`PDAssumption`, `P2PAssumption`).

| Theorem | Statement |
|---|---|
| `PromisedChunksKept` | `PDSpec => []PromisedChunksStay` |
| `FetchedFromPeer` | `P2PSpec => []GotItsChunks` |

`PDInv`: a retrieve gives up only references its request was promised, because
by then every chunk of it has been promised (`PromisesMade`), stage by stage: up
to what was transferred, what the allocation thread has done of its batch
(`JobMatches`), what it answered. `P2PInv`: an answer belongs to the request
that waits for it because the socket in use carries one message or its answer
(`OneOutstanding`), and a socket left in the middle is never used again; the
data is right when written, when answered and when got, since buffers are apart
(`BufsApart`) and a message names its request's buffers (`MsgsMatch`). As the
properties say, the first is about behaviours before a preemption, the second
about those without a late write into buffers that were given up.

Only model-checked, and why:

- All liveness (`UniformJobAnswered`, `FreezeEnds`, `RecoveryReached`,
  `ColdObjectsEvicted`, `LookupAnswered`): the prover does not handle fairness.
  `CallNeverBlocked`: it is about ENABLED.
- What `Engine` promises (`HeldDataIntact`, `PinnedStays`,
  `ReferencesAccounted`, `CleanupKeepsACopy`): its hot cache is filtered with
  `SelectSeq`, which the prover has no definition of. The LRU order of `L1Cache`
  shows the way round it, sequences listed by rank.

## Not modelled

- Stop and close paths of the controllers and managers; the two GPU streams of
  the server's `retrieve`.
- The L2 back ends (file, native, NIXL, plugin), the NIXL storage backend, GDS,
  and the remote connectors: I/O behind interfaces that are modelled with
  failures and late completions.
- `P2PBackend`'s put direction and the controller's orchestration commands
  (move, compress, clear, pin); paged allocators.
- Blend servers and blending; sessions and token hasher; the arithmetic of the
  precision codecs; SGLang and other connectors; multi-modal inputs.
- Observability, configuration, CUDA kernels, command line, operator, examples,
  benchmarks.

The map covers about an eighth of the repository's implementation lines. Most of
the rest is of the kinds above, in which no state outlives a call or is shared
between two actors; a model of it would restate it.

## Next

1. Proofs: what `Engine` promises, with its hot cache listed by rank as the
   order of `L1Cache` is.
2. `Shutdown`: the stop paths of the two controllers.
3. `RetrieveStreams`: copies and release callback on different streams.
4. The controller's orchestration commands over the registry of `FullSync`.
