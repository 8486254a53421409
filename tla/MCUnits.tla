------------------------------ MODULE MCUnits ------------------------------
(***************************************************************************)
(* Components that share no state, each on a small instance of its own: a  *)
(* behaviour picks one of them and the others stay in an initial state, so *)
(* the states of the run are the sum of theirs, not the product.           *)
(***************************************************************************)
EXTENDS TTLLock, L1Manager, Allocator, LocalDisk, AsyncLoading, MPWorker, MPScheduler, VLLMConnector,
    PDTransfer, RawBlock, P2PBackend, Layerwise, Engine

CONSTANTS
    MaxReadHolds,   \* bound on the read locks of one L1 key
    MaxFreeHolds    \* bound on the holds a thread keeps on a lock without a mutex

VARIABLE unit

\* L1Manager's use of the lock, with and without resets, and free concurrency
\* on a lock that is live when it is shared.
MCSettings ==
    {[ops |-> {"lock", "unlock", "is_locked", "reset"}, serialized |-> TRUE, first_locks |-> 0],
     [ops |-> {"lock", "unlock", "is_locked"}, serialized |-> TRUE, first_locks |-> 0],
     [ops |-> {"lock", "unlock", "is_locked"}, serialized |-> FALSE, first_locks |-> 1]}

\* Below, at and above the limits validate_extra_count clamps to.
MCExtraCounts == {-1, 0, 1, 2}

\* Two workers that load two chunks; one worker and a lookup repeated.
MCAsyncSetups == {[workers |-> {"w1", "w2"}, chunks |-> 2, rounds |-> 1],
                  [workers |-> {"w1"}, chunks |-> 1, rounds |-> 2]}

MCConnectorSetups == {[discard |-> TRUE, save_decode |-> FALSE, min_retrieve |-> 0],
                      [discard |-> FALSE, save_decode |-> TRUE, min_retrieve |-> 3]}

\* Two requests whose prompts share their first chunk.
MCPDKeysOf == [p |-> <<1, 2>>, q |-> <<1, 3>>]
MCPDReqs == {"p", "q"}

\* One slot and a manifest after every write, with pins and readers; two slots and
\* no manifest until close, without them: they matter to the choice of a victim.
MCBlockSetups == {[slots |-> 1, interval |-> 1, restarts |-> 1],
                  [slots |-> 2, interval |-> 0, restarts |-> 1]}

\* Two chunks and one try; one chunk, tried twice.
MCP2PSetups == {[chunks |-> 2, retries |-> 1, faults |-> 1], [chunks |-> 1, retries |-> 2, faults |-> 1]}

\* A request whose only chunk may be cached, and one that has it and another.
MCLWPrompts == <<<<1>>, <<1, 2>>>>

EngineSetup(codec, dual, cleanup, store_wait, configs, reqs, prompt, may_happen) ==
    [codec |-> codec, dual |-> dual, cleanup |-> cleanup, store_wait |-> store_wait,
     configs |-> configs, reqs |-> reqs, chunks |-> prompt, faults |-> may_happen]

\* Without faults; with two requests; with the cleanup and pins that time
\* out; with a cleanup after stores of one variant; with a clear; with a
\* remote tier that fails; with one that is frozen out and evicts; with
\* stores that wait for memory; and with the codec.
MCEngineSetups ==
    {EngineSetup("fake", TRUE, FALSE, FALSE, {"auto", "full"}, 1, 2, {}),
     EngineSetup("fake", FALSE, FALSE, FALSE, {"full"}, 2, 2, {}),
     EngineSetup("fake", TRUE, TRUE, FALSE, {"auto"}, 1, 2, {"pin_timeout"}),
     EngineSetup("fake", FALSE, TRUE, FALSE, {"auto"}, 1, 2, {}),
     EngineSetup("fake", FALSE, FALSE, FALSE, {"full"}, 1, 2, {"clear"}),
     EngineSetup("fake", FALSE, FALSE, FALSE, {"full"}, 1, 2, {"remote_down"}),
     EngineSetup("fake", TRUE, FALSE, FALSE, {"auto"}, 1, 2, {"freeze", "remote_evict"}),
     EngineSetup("fake", TRUE, FALSE, TRUE, {"auto"}, 1, 2, {}),
     EngineSetup("int8", TRUE, FALSE, FALSE, {"auto", "full"}, 1, 1, {})}

MCBlockKeys == {"a", "b"}
MCDiskKeys == {"a", "b", "c"}

One(S) == CHOOSE x \in S : TRUE

UnitsInit ==
    /\ unit \in {"lock", "l1", "alloc", "disk", "async", "worker", "sched", "connector", "pd", "block", "p2p", "layer", "engine"}
    /\ LockInit /\ L1Init /\ AllocInit /\ DiskInit /\ AsyncInit /\ MPWInit /\ MPSInit /\ ConnectorInit
    /\ PDInit /\ BlockInit /\ P2PInit /\ LWInit /\ EngineInit
    /\ unit # "lock" => setting = One(Settings)
    /\ unit # "async" => async_setup = One(AsyncSetups)
    /\ unit # "connector" => vc_setup = One(ConnectorSetups) /\ prompt_len = One(PromptLens)
    /\ unit # "block" => block_setup = One(BlockSetups)
    /\ unit # "p2p" => p2p_setup = One(P2PSetups)
    /\ unit # "layer" => lw_cache = {}
    /\ unit # "engine" => setup = One(EngineSetups)

LockStep ==
    /\ unit = "lock" /\ LockNext
    /\ \A t \in Threads :
          ~setting.serialized /\ pc[t] = "idle" /\ pc'[t] = "lock_exp" => holds[t] < MaxFreeHolds
    /\ UNCHANGED <<unit, l1vars, alloc_vars, disk_vars, async_vars, mpw_vars, mps_vars,
                   vc_vars, pd_vars, block_vars, p2p_vars, lw_vars, eng_vars>>

L1Step ==
    /\ unit = "l1" /\ L1Next /\ \A k \in Keys : read_lock'[k] <= MaxReadHolds
    /\ UNCHANGED <<unit, lock_vars, alloc_vars, disk_vars, async_vars, mpw_vars, mps_vars,
                   vc_vars, pd_vars, block_vars, p2p_vars, lw_vars, eng_vars>>

AllocStep ==
    /\ unit = "alloc" /\ AllocNext
    /\ UNCHANGED <<unit, lock_vars, l1vars, disk_vars, async_vars, mpw_vars, mps_vars,
                   vc_vars, pd_vars, block_vars, p2p_vars, lw_vars, eng_vars>>

DiskStep ==
    /\ unit = "disk" /\ DiskNext
    /\ UNCHANGED <<unit, lock_vars, l1vars, alloc_vars, async_vars, mpw_vars, mps_vars,
                   vc_vars, pd_vars, block_vars, p2p_vars, lw_vars, eng_vars>>

AsyncStep ==
    /\ unit = "async" /\ AsyncNext
    /\ UNCHANGED <<unit, lock_vars, l1vars, alloc_vars, disk_vars, mpw_vars, mps_vars,
                   vc_vars, pd_vars, block_vars, p2p_vars, lw_vars, eng_vars>>

MPWorkerStep ==
    /\ unit = "worker" /\ MPWNext
    /\ UNCHANGED <<unit, lock_vars, l1vars, alloc_vars, disk_vars, async_vars, mps_vars,
                   vc_vars, pd_vars, block_vars, p2p_vars, lw_vars, eng_vars>>

SchedulerStep ==
    /\ unit = "sched" /\ MPSNext
    /\ UNCHANGED <<unit, lock_vars, l1vars, alloc_vars, disk_vars, async_vars, mpw_vars,
                   vc_vars, pd_vars, block_vars, p2p_vars, lw_vars, eng_vars>>

ConnectorStep ==
    /\ unit = "connector" /\ ConnectorNext
    /\ UNCHANGED <<unit, lock_vars, l1vars, alloc_vars, disk_vars, async_vars, mpw_vars,
                   mps_vars, pd_vars, block_vars, p2p_vars, lw_vars, eng_vars>>

PDStep ==
    /\ unit = "pd" /\ PDNext
    /\ UNCHANGED <<unit, lock_vars, l1vars, alloc_vars, disk_vars, async_vars, mpw_vars,
                   mps_vars, vc_vars, block_vars, p2p_vars, lw_vars, eng_vars>>

BlockStep ==
    /\ unit = "block" /\ BlockNext
    /\ block_setup.slots > 1 => block_pinned' = {} /\ block_reader' = NoReader
    /\ UNCHANGED <<unit, lock_vars, l1vars, alloc_vars, disk_vars, async_vars, mpw_vars,
                   mps_vars, vc_vars, pd_vars, p2p_vars, lw_vars, eng_vars>>

P2PStep ==
    /\ unit = "p2p" /\ P2PNext
    /\ UNCHANGED <<unit, lock_vars, l1vars, alloc_vars, disk_vars, async_vars, mpw_vars,
                   mps_vars, vc_vars, pd_vars, block_vars, lw_vars, eng_vars>>

LayerStep ==
    /\ unit = "layer" /\ LWNext
    /\ UNCHANGED <<unit, lock_vars, l1vars, alloc_vars, disk_vars, async_vars, mpw_vars,
                   mps_vars, vc_vars, pd_vars, block_vars, p2p_vars, eng_vars>>

EngineStep ==
    /\ unit = "engine" /\ EngineNext
    /\ UNCHANGED <<unit, lock_vars, l1vars, alloc_vars, disk_vars, async_vars, mpw_vars,
                   mps_vars, vc_vars, pd_vars, block_vars, p2p_vars, lw_vars>>

UnitsNext ==
    \/ LockStep \/ L1Step \/ AllocStep \/ DiskStep \/ AsyncStep \/ MPWorkerStep
    \/ SchedulerStep \/ ConnectorStep \/ PDStep \/ BlockStep \/ P2PStep \/ LayerStep \/ EngineStep

units_vars == <<unit, lock_vars, l1vars, alloc_vars, disk_vars, async_vars, mpw_vars,
                mps_vars, vc_vars, pd_vars, block_vars, p2p_vars, lw_vars, eng_vars>>

UnitsSpec == UnitsInit /\ [][UnitsNext]_units_vars
=============================================================================
