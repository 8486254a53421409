------------------------------- MODULE Engine -------------------------------
(***************************************************************************)
(* The in-process cache engine (lmcache/v1/cache_engine.py) over its       *)
(* storage manager (storage_backend/storage_manager.py), the CPU tier      *)
(* (local_cpu_backend.py), the remote tier (remote_backend.py), the        *)
(* reference-counted memory objects (memory_management.py), the pin        *)
(* monitor (pin_monitor.py) and the fidelity state of a prefix             *)
(* (fidelity/).                                                            *)
(*                                                                         *)
(* The chunks of one prompt prefix are 1, 2, ...; each has a base and a    *)
(* full variant, stored under different keys.  One worker thread runs      *)
(* store and retrieve; the lookup server's thread runs lookup; the remote  *)
(* connector, the pin monitor and the controller's clear run beside them.  *)
(* A call of the worker is `job`: one action per stretch of it in which no *)
(* other thread can interfere.                                             *)
(*                                                                         *)
(* A buffer that no Python object refers to any more is freed by           *)
(* TensorMemoryObj.__del__, whatever its counts say: the buffers in use    *)
(* are those of the hot cache, of the worker's call, of pending writes     *)
(* and, through the pin monitor, the pinned ones.                          *)
(***************************************************************************)
EXTENDS Integers, SequencesExt

CONSTANTS
    MaxReqs,        \* bound on the requests (lookup ids) at a time
    MaxChunks,      \* bound on the chunks of the prompt
    Bufs,           \* the buffers the CPU memory holds
    MinAccess,      \* hits that make a prefix hot
    MaxRefs,        \* bound on the references leaked before a retrieve starts
    EngineSetups    \* the configurations a process may be started with

FaultKinds == {"pin_timeout", "clear", "freeze", "remote_down", "remote_evict"}

ASSUME EngineAssumption ==
    /\ MaxReqs \in Nat \ {0}
    /\ MaxChunks \in Nat \ {0}
    /\ MinAccess \in Nat \ {0}
    /\ MaxRefs \in Nat \ {0}
    /\ EngineSetups \subseteq [codec : {"fake", "int8"},    \* base_codec
                         dual : BOOLEAN,    \* store_base_variant, store_full_variant
                         cleanup : BOOLEAN,            \* cleanup_base_on_full_store
                         store_wait : BOOLEAN,         \* force_store_wait
                         configs : SUBSET {"auto", "base", "full"},   \* lmcache.fidelity
                         reqs : 1 .. MaxReqs,          \* requests at a time
                         chunks : 1 .. MaxChunks,      \* of the prompt
                         faults : SUBSET FaultKinds]   \* what the environment may do
    \* the codec's metadata does not survive the remote tier
    /\ \A s \in EngineSetups : s.codec = "int8" => s.dual

VARIABLES
    setup,            \* the configuration, fixed at start
    cpu_cache,        \* LocalCPUBackend.hot_cache: [key, buf], oldest first
    ref_count,        \* of the memory object in every buffer
    pin_count,
    dropped,          \* references of chunks that a failed retrieve fetched and left out
    content,          \* what every buffer holds
    remote,           \* keys the remote server has
    saving,           \* pending remote writes: [key, buf]
    fidelity_state,   \* FidelityStateStore of the prefix
    access_count,     \* HotnessTracker of the prefix
    freeze,           \* StorageManager._freeze
    loop_stuck,       \* the event loop's thread sleeps in the allocate of a get nobody waits for
    request_state,    \* where each request stands
    lookup_pins,      \* LMCacheEngine.lookup_pins: [loc, keys] per tier
    clear_keys,       \* the keys a running clear has collected
    job               \* the worker's call

Faults == setup.faults
Configs == setup.configs
Reqs == 1 .. setup.reqs
PrefixLen == setup.chunks
counts == <<ref_count, pin_count, dropped>>
fidelity == <<fidelity_state, access_count>>
flags == <<freeze, loop_stuck>>
eng_vars == <<setup, cpu_cache, counts, content, remote, saving, fidelity, flags,
                 request_state, lookup_pins, clear_keys, job>>

PrefixChunks == 1 .. MaxChunks
Levels == {"base", "full"}
PrefixKeys == [level : Levels, chunk : PrefixChunks]
NoData == [chunk |-> 0, form |-> "none"]
States == {"MISS", "BASE_READY", "PROMOTING", "FULL_READY", "FULL_EVICTED"}

HotKeys == {e.key : e \in ToSet(cpu_cache)}
HotBuf(k) == (CHOOSE e \in ToSet(cpu_cache) : e.key = k).buf
KeySeq(level, lo, hi) == [i \in 1 .. hi - lo + 1 |-> [level |-> level, chunk |-> lo + i - 1]]

NoWork == [pc |-> "idle", req |-> 0, level |-> "base", want |-> <<>>, todo |-> <<>>,
         batch |-> <<>>, got |-> <<>>, enc |-> <<>>, mask |-> {}, failed |-> 0, stored |-> 0]

\* The buffers some Python object refers to.
HeldBufs == {e.buf : e \in ToSet(cpu_cache)} \cup {s.buf : s \in saving}
        \cup {e.buf : e \in ToSet(job.batch) \cup ToSet(job.got) \cup ToSet(job.enc)}
Allocated == {b \in Bufs : (b \in HeldBufs /\ ref_count[b] > 0) \/ pin_count[b] > 0}

\* New counts and contents; an object nothing refers to is collected, and
\* what a free buffer holds is of no interest.
SetMemoryDropping(refs, pins, data, drops) ==
    /\ pin_count' = pins
    /\ ref_count' = [b \in Bufs |-> IF b \in HeldBufs' \/ pins[b] > 0 THEN refs[b] ELSE 0]
    /\ content' = [b \in Bufs |-> IF ref_count'[b] > 0 \/ pins[b] > 0 THEN data[b] ELSE NoData]
    /\ dropped' = [b \in Bufs |-> IF ref_count'[b] > 0 THEN drops[b] ELSE 0]
SetMemory(refs, pins, data) == SetMemoryDropping(refs, pins, data, dropped)
SetCounts(refs, pins) == SetMemory(refs, pins, content)

\* f with n added at every buffer of the entries; a count never falls below 0.
Add(f, entries, n) ==
    [b \in Bufs |-> LET c == f[b] + n * Cardinality({i \in DOMAIN entries : entries[i].buf = b})
                    IN  IF c < 0 THEN 0 ELSE c]

----------------------------------------------------------------------------
(* LocalCPUBackend and the memory objects.                                 *)

\* Mutant: a reader does not keep an object in the cache.
can_evict_ignoring_readers(e) == pin_count[e.buf] = 0

\* Mutant: a pinned object may be evicted.
can_evict_ignoring_pins(e) == ref_count[e.buf] = 1

\* TensorMemoryObj.can_evict.
can_evict(e) == pin_count[e.buf] = 0 /\ ref_count[e.buf] = 1

get_evict_candidates == SelectSeq(cpu_cache, LAMBDA e : can_evict(e))

\* allocate: a free buffer, or the one of the oldest object that may go.
\* What is left of the hot cache, for the buffer b that is handed out.
cpu_allocate(b) ==
    \/ /\ Allocated # Bufs
       /\ b = CHOOSE x \in Bufs \ Allocated : TRUE
       /\ cpu_cache' = cpu_cache
    \/ /\ Allocated = Bufs
       /\ get_evict_candidates # <<>>
       /\ b = Head(get_evict_candidates).buf
       /\ cpu_cache' = SelectSeq(cpu_cache, LAMBDA e : e.buf # b)

NoMemory == Allocated = Bufs /\ get_evict_candidates = <<>>

Fresh(b) == <<[ref_count EXCEPT ![b] = 1], [pin_count EXCEPT ![b] = 0]>>

Admitted(hot, entries) ==
    SelectSeq(entries, LAMBDA e : ~\E h \in ToSet(hot) : h.key = e.key)

\* remove(force): whatever its counts, the entry leaves and loses a reference.
Removed(keys) == SelectSeq(cpu_cache, LAMBDA e : e.key \in keys)
Remaining(keys) == SelectSeq(cpu_cache, LAMBDA e : e.key \notin keys)

----------------------------------------------------------------------------
(* Fidelity: which variant a request reads or writes.                      *)

decide_fidelity(config) ==
    IF config # "auto" THEN config
    ELSE IF fidelity_state \in {"FULL_READY", "FULL_EVICTED"} THEN "full"
    ELSE "base"

update_state_after_store(level) ==
    IF level = "base"
    THEN /\ fidelity_state' = IF fidelity_state \in {"PROMOTING", "FULL_READY"}
                                THEN fidelity_state ELSE "BASE_READY"
         /\ UNCHANGED access_count
    ELSE /\ fidelity_state' = "FULL_READY"
         /\ access_count' = 0

update_state_after_retrieve(level, hit) ==
    LET current == IF fidelity_state = "MISS" THEN "BASE_READY" ELSE fidelity_state
        \* the count matters only up to the threshold
        accesses == IF access_count < MinAccess THEN access_count + 1 ELSE MinAccess
    IN  CASE ~hit ->
              /\ fidelity_state' = IF level = "full" /\ fidelity_state = "FULL_READY"
                                     THEN "FULL_EVICTED" ELSE fidelity_state
              /\ UNCHANGED access_count
          [] hit /\ level = "full" ->
              fidelity_state' = "FULL_READY" /\ access_count' = 0
          [] hit /\ level = "base" ->
              /\ access_count' = accesses
              /\ fidelity_state' = IF accesses >= MinAccess /\ current = "BASE_READY"
                                     THEN "PROMOTING" ELSE current

\* Mutant: the cleanup follows a store or hit of either level.
base_keys_to_clean_any(level, want) ==
    IF setup.cleanup
    THEN {[level |-> "base", chunk |-> c] : c \in {want[i].chunk : i \in DOMAIN want}}
    ELSE {}

\* cleanup_base_on_full_store: the base keys a full store or hit removes.
base_keys_to_clean(level, want) ==
    IF setup.cleanup /\ level = "full"
    THEN {[level |-> "base", chunk |-> c] : c \in {want[i].chunk : i \in DOMAIN want}}
    ELSE {}

EngineInit ==
    /\ setup \in EngineSetups
    /\ cpu_cache = <<>>
    /\ ref_count = [b \in Bufs |-> 0]
    /\ pin_count = [b \in Bufs |-> 0]
    /\ dropped = [b \in Bufs |-> 0]
    /\ content = [b \in Bufs |-> NoData]
    /\ remote = {}
    /\ saving = {}
    /\ fidelity_state = "MISS"
    /\ access_count = 0
    /\ freeze = FALSE /\ loop_stuck = FALSE
    /\ request_state = [r \in Reqs |-> [at |-> "new", hits |-> 0, config |-> "auto"]]
    /\ lookup_pins = [r \in Reqs |-> <<>>]
    /\ clear_keys = {}
    /\ job = NoWork

Prefix(keys, present) == CHOOSE n \in 0 .. Len(keys) :
    /\ \A i \in 1 .. n : keys[i] \in present
    /\ n < Len(keys) => keys[n + 1] \notin present

\* A remote contains that fails answers "absent": any shorter prefix.
RemotePrefixes(keys) ==
    IF freeze THEN {0}
    ELSE LET n == Prefix(keys, remote)
         IN  IF "remote_down" \in Faults THEN 0 .. n ELSE {n}

\* The remote tier is asked on the event loop, with no timeout, for the keys no other tier has.
RemoteAnswers(keys) == keys = <<>> \/ freeze \/ ~loop_stuck

\* batched_contains and get_block_mapping: the tiers in order, by prefix.
Mapping(keys, cpu_hits, remote_hits) ==
    SelectSeq(<<[loc |-> "cpu", keys |-> SubSeq(keys, 1, cpu_hits)],
                [loc |-> "remote", keys |-> SubSeq(keys, cpu_hits + 1, cpu_hits + remote_hits)]>>,
              LAMBDA m : m.keys # <<>>)

Entries(keys) == [i \in DOMAIN keys |-> [key |-> keys[i], buf |-> HotBuf(keys[i])]]

----------------------------------------------------------------------------
(* The lookup server's thread and the scheduler.                           *)

\* lookup(pin=True), with touch_cache: the pinned keys become the most
\* recent ones, the first chunk last.
lookup(req, config) ==
    LET keys == KeySeq(decide_fidelity(config), 1, PrefixLen)
        cpu_hits == Prefix(keys, HotKeys)
        pinned == Entries(SubSeq(keys, 1, cpu_hits))
        rest == SubSeq(keys, cpu_hits + 1, PrefixLen)
    IN  /\ request_state[req].at = "new"
        /\ RemoteAnswers(rest)
        /\ \E remote_hits \in RemotePrefixes(rest) :
              /\ request_state' = [request_state EXCEPT ![req] =
                    [at |-> "looked", hits |-> cpu_hits + remote_hits, config |-> config]]
              /\ lookup_pins' = [lookup_pins EXCEPT ![req] = Mapping(keys, cpu_hits, remote_hits)]
        /\ cpu_cache' = SelectSeq(cpu_cache, LAMBDA e : e \notin ToSet(pinned)) \o Reverse(pinned)
        /\ UNCHANGED <<remote, saving, fidelity, flags, clear_keys, job>>
        /\ SetCounts(ref_count, Add(pin_count, pinned, 1))

\* lookup_unpin: by key, whatever object the cache holds under it now.
lookup_unpin(req) ==
    LET cpu == SelectSeq(lookup_pins[req], LAMBDA m : m.loc = "cpu")
        keys == IF cpu = <<>> THEN <<>> ELSE cpu[1].keys
    IN  /\ job.pc = "idle"
        /\ request_state[req].at \in {"looked", "loaded"}
        /\ lookup_pins' = [lookup_pins EXCEPT ![req] = <<>>]
        /\ request_state' = [request_state EXCEPT ![req] = [at |-> "new", hits |-> 0, config |-> "auto"]]
        /\ UNCHANGED <<cpu_cache, remote, saving, fidelity, flags, clear_keys, job>>
        /\ SetCounts(ref_count,
                     Add(pin_count, Entries(SelectSeq(keys, LAMBDA k : k \in HotKeys)), -1))

\* PinMonitor: an object pinned for longer than the timeout loses its pins.
pin_timeout(b) ==
    /\ "pin_timeout" \in Faults
    /\ pin_count[b] > 0
    /\ UNCHANGED <<cpu_cache, remote, saving, fidelity, flags, request_state, lookup_pins,
                   clear_keys, job>>
    /\ SetCounts(ref_count, [pin_count EXCEPT ![b] = 0])

----------------------------------------------------------------------------
(* retrieve.                                                               *)

\* Which tier each chunk comes from: the tier of the lookup if it pinned in
\* one tier only, else a new search.
retrieve(req, skip) ==
    LET level == decide_fidelity(request_state[req].config)
        want == KeySeq(level, skip + 1, request_state[req].hits)
        pins == lookup_pins[req]
    IN  /\ job.pc = "idle"
        /\ request_state[req].at = "looked"
        /\ skip < request_state[req].hits
        /\ \A b \in Bufs : ref_count[b] <= MaxRefs
        /\ job' = IF Len(pins) = 1
                  THEN [NoWork EXCEPT !.pc = "fetch", !.req = req, !.level = level, !.want = want,
                                    !.todo = <<[loc |-> pins[1].loc, keys |-> want]>>]
                  ELSE [NoWork EXCEPT !.pc = "search", !.req = req, !.level = level, !.want = want]
        /\ UNCHANGED <<cpu_cache, counts, content, remote, saving, fidelity, flags, request_state,
                       lookup_pins, clear_keys>>

\* get_block_mapping.
Search ==
    LET cpu_hits == Prefix(job.want, HotKeys)
        rest == SubSeq(job.want, cpu_hits + 1, Len(job.want))
    IN  /\ job.pc = "search"
        /\ RemoteAnswers(rest)
        /\ \E remote_hits \in RemotePrefixes(rest) :
              job' = [job EXCEPT !.pc = "fetch", !.todo = Mapping(job.want, cpu_hits, remote_hits)]
        /\ UNCHANGED <<cpu_cache, counts, content, remote, saving, fidelity, flags, request_state,
                       lookup_pins, clear_keys>>

NotFound(k) == [key |-> k, buf |-> "none"]
Source == Head(job.todo)
Fetched == Len(job.batch) = Len(Source.keys)
Encoded(e) == content[e.buf].form = "int8"
Undecoded == SelectSeq(job.got, Encoded)

\* Mutant: a hit is handed out without a reference of its own.
refs_after_get_unchanged(batch) == ref_count

\* LocalCPUBackend.batched_get_blocking: a reference to every key present.
refs_after_get(batch) == Add(ref_count, batch, 1)

FetchCPU ==
    /\ job.pc = "fetch" /\ job.todo # <<>> /\ ~Fetched /\ Undecoded = <<>>
    /\ Source.loc = "cpu"
    /\ LET batch == [i \in DOMAIN Source.keys |->
                        IF Source.keys[i] \in HotKeys
                        THEN Entries(Source.keys)[i] ELSE NotFound(Source.keys[i])]
       IN  /\ job' = [job EXCEPT !.batch = batch]
           /\ cpu_cache' = cpu_cache /\ saving' = saving
           /\ SetCounts(refs_after_get(batch), pin_count)
    /\ UNCHANGED <<remote, fidelity, flags, request_state, lookup_pins, clear_keys>>

\* A get that brings nothing: an error, a miss, a freeze, or a timeout while the loop sleeps.
get_fails(k) == k \notin remote \/ freeze \/ loop_stuck \/ "remote_down" \in Faults

\* Mutant: a get that waits for memory has no timeout.
get_times_out_never(k) == FALSE

\* A get that waits for memory for longer than its timeout.  It waits on the event loop, in a busy
\* loop that cancelling its future does not end.
get_times_out(k) == k \in remote /\ ~freeze /\ ~loop_stuck /\ NoMemory

\* RemoteBackend.batched_get_blocking, the next key: data in a new buffer, or None.
FetchRemote ==
    /\ job.pc = "fetch" /\ job.todo # <<>> /\ ~Fetched /\ Undecoded = <<>>
    /\ Source.loc = "remote"
    /\ saving' = saving /\ freeze' = freeze
    /\ LET k == Source.keys[Len(job.batch) + 1]
       IN  \/ /\ \/ get_fails(k) /\ loop_stuck' = loop_stuck
                 \/ get_times_out(k) /\ loop_stuck' = TRUE
              /\ job' = [job EXCEPT !.batch = Append(@, NotFound(k))]
              /\ cpu_cache' = cpu_cache
              /\ UNCHANGED <<counts, content>>
           \/ /\ k \in remote /\ ~freeze /\ ~loop_stuck
              /\ \E b \in Bufs :
                    /\ cpu_allocate(b)
                    /\ job' = [job EXCEPT !.batch = Append(@, [key |-> k, buf |-> b])]
                    /\ SetMemory(Fresh(b)[1], Fresh(b)[2],
                                 [content EXCEPT ![b] = [chunk |-> k.chunk, form |-> "raw"]])
              /\ loop_stuck' = loop_stuck
    /\ UNCHANGED <<remote, fidelity, request_state, lookup_pins, clear_keys>>

\* The get nobody waits for has found memory: the loop goes on, the buffer is dropped.
OrphanEnds ==
    /\ loop_stuck
    /\ \E b \in Bufs :
          /\ cpu_allocate(b)
          /\ saving' = saving /\ job' = job
          /\ SetCounts([ref_count EXCEPT ![b] = 0], [pin_count EXCEPT ![b] = 0])
    /\ loop_stuck' = FALSE /\ freeze' = freeze
    /\ UNCHANGED <<remote, fidelity, request_state, lookup_pins, clear_keys>>

\* The entries of the batch before its first None are kept; a complete
\* remote batch is written back to the CPU tier.
Collect ==
    LET missing == {i \in DOMAIN job.batch : job.batch[i].buf = "none"}
        n == IF missing = {} THEN Len(job.batch) ELSE Min(missing) - 1
        kept == SubSeq(job.batch, 1, n)
        back == IF Source.loc = "remote" /\ missing = {}
                THEN Admitted(cpu_cache, job.batch) ELSE <<>>
    IN  /\ job.pc = "fetch" /\ job.todo # <<>> /\ Fetched
        /\ cpu_cache' = cpu_cache \o back
        /\ saving' = saving
        /\ job' = [job EXCEPT !.todo = Tail(@), !.batch = <<>>, !.got = @ \o kept,
                     !.mask = @ \cup {kept[i].key.chunk : i \in DOMAIN kept},
                     !.failed = IF missing = {} THEN @
                                ELSE Max({@, job.batch[n + 1].key.chunk})]
        /\ SetMemoryDropping(Add(ref_count, back, 1), pin_count, content,
                             Add(dropped, SubSeq(job.batch, n + 1, Len(job.batch)), 1))
        /\ UNCHANGED <<remote, fidelity, flags, request_state, lookup_pins, clear_keys>>

\* Int8BaseCodec.decode into a buffer of its own, waiting for one if need be.
Decode ==
    /\ job.pc = "fetch" /\ Undecoded # <<>>
    /\ saving' = saving
    /\ \E b \in Bufs :
          LET e == Head(Undecoded)
          IN  /\ cpu_allocate(b)
              /\ job' = [job EXCEPT !.got = [i \in DOMAIN @ |->
                            IF @[i] = e THEN [e EXCEPT !.buf = b] ELSE @[i]]]
              /\ SetMemory(Add(Fresh(b)[1], <<e>>, -1), Fresh(b)[2],
                           [content EXCEPT ![b] = [chunk |-> content[e.buf].chunk, form |-> "raw"]])
    /\ UNCHANGED <<remote, fidelity, flags, request_state, lookup_pins, clear_keys>>

\* What lies behind the last failed chunk is dropped, and so is the chunk
\* before it (end < last_failed_block_start); their references stay.
kept_after_failure(e) == job.failed = 0 \/ e.key.chunk < job.failed - 1
left_after_failure(e) == ~kept_after_failure(e)

\* The end of _process_tokens_internal.
EndProcess ==
    /\ job.pc = "fetch" /\ job.todo = <<>> /\ Undecoded = <<>>
    /\ cpu_cache' = cpu_cache /\ saving' = saving
    /\ job' = [job EXCEPT !.pc = "load", !.got = SelectSeq(@, kept_after_failure),
                 !.mask = IF job.failed = 0 THEN @ ELSE {c \in @ : c < job.failed}]
    /\ SetMemoryDropping(ref_count, pin_count, content,
                         Add(dropped, SelectSeq(job.got, left_after_failure), 1))
    /\ UNCHANGED <<remote, fidelity, flags, request_state, lookup_pins, clear_keys>>

\* The objects have been copied to the GPU.
RetrieveFinish ==
    LET hit == job.mask # {}
        gone == IF hit THEN base_keys_to_clean(job.level, job.want) ELSE {}
    IN  /\ job.pc = "load"
        /\ cpu_cache' = Remaining(gone)
        /\ saving' = saving
        /\ job' = NoWork
        /\ request_state' = [request_state EXCEPT ![job.req].at = "loaded"]
        /\ SetCounts(Add(Add(ref_count, job.got, -1), Removed(gone), -1), pin_count)
        /\ update_state_after_retrieve(job.level, hit)
        /\ UNCHANGED <<remote, flags, lookup_pins, clear_keys>>

----------------------------------------------------------------------------
(* store.                                                                  *)

store(config, skip) ==
    /\ job.pc = "idle" /\ ~freeze
    /\ LET level == decide_fidelity(config)
       IN  job' = [NoWork EXCEPT !.pc = "alloc", !.level = level,
                               !.want = KeySeq(level, skip + 1, PrefixLen)]
    /\ UNCHANGED <<cpu_cache, counts, content, remote, saving, fidelity, flags, request_state,
                   lookup_pins, clear_keys>>

Dual == setup.dual /\ job.level = "base"

\* allocate, by default without waiting: under pressure only the chunks so far
\* are stored, and a dual store, whose full keys then outnumber them, raises.
\* With force_store_wait it waits, also for what the store itself holds.
StoreAllocate ==
    /\ job.pc = "alloc" /\ Len(job.got) < Len(job.want)
    /\ saving' = saving
    /\ \/ \E b \in Bufs :
             LET k == job.want[Len(job.got) + 1]
             IN  /\ cpu_allocate(b)
                 /\ job' = [job EXCEPT !.got = Append(@, [key |-> k, buf |-> b])]
                 /\ SetMemory(Fresh(b)[1], Fresh(b)[2],
                              [content EXCEPT ![b] = [chunk |-> k.chunk, form |-> "raw"]])
       \/ /\ NoMemory /\ ~setup.store_wait
          /\ job' = IF job.got = <<>> \/ Dual THEN NoWork ELSE [job EXCEPT !.pc = "encode"]
          /\ cpu_cache' = cpu_cache
          /\ SetCounts(ref_count, pin_count)
    /\ UNCHANGED <<remote, fidelity, flags, request_state, lookup_pins, clear_keys>>

StoreCopied ==
    /\ job.pc = "alloc" /\ Len(job.got) = Len(job.want)
    /\ job' = [job EXCEPT !.pc = "encode"]
    /\ UNCHANGED <<cpu_cache, counts, content, remote, saving, fidelity, flags, request_state,
                   lookup_pins, clear_keys>>

NeedsCodec == setup.codec = "int8" /\ job.level = "base"

\* Int8BaseCodec.encode: allocate with its default, waiting for memory.
StoreEncode ==
    /\ job.pc = "encode" /\ NeedsCodec /\ Len(job.enc) < Len(job.got)
    /\ saving' = saving
    /\ \E b \in Bufs :
          LET e == job.got[Len(job.enc) + 1]
          IN  /\ cpu_allocate(b)
              /\ job' = [job EXCEPT !.enc = Append(@, [e EXCEPT !.buf = b])]
              /\ SetMemory(Fresh(b)[1], Fresh(b)[2],
                           [content EXCEPT ![b] = [chunk |-> e.key.chunk, form |-> "int8"]])
    /\ UNCHANGED <<remote, fidelity, flags, request_state, lookup_pins, clear_keys>>

\* batched_put: to the CPU tier and the remote tier, or, for a dual store,
\* the full objects to the remote tier and the base ones to the CPU tier.
StorePut ==
    LET base == IF NeedsCodec THEN job.enc ELSE job.got
        to_remote == IF Dual
                     THEN [i \in DOMAIN job.got |-> [job.got[i] EXCEPT !.key.level = "full"]]
                     ELSE base
        submitted == SelectSeq(to_remote, LAMBDA e : ~\E s \in saving : s.key = e.key)
        admitted == Admitted(cpu_cache, base)
    IN  /\ job.pc = "encode" /\ (NeedsCodec => Len(job.enc) = Len(job.got))
        /\ cpu_cache' = cpu_cache \o admitted
        /\ saving' = saving \cup ToSet(submitted)
        /\ job' = [job EXCEPT !.pc = "finish", !.got = <<>>, !.enc = <<>>,
                          !.stored = Len(job.got)]
        /\ SetCounts(Add(Add(Add(Add(ref_count, admitted, 1), submitted, 1), job.got, -1),
                         job.enc, -1), pin_count)
        /\ UNCHANGED <<remote, fidelity, flags, request_state, lookup_pins, clear_keys>>

StoreFinish ==
    LET gone == base_keys_to_clean(job.level, job.want)
    IN  /\ job.pc = "finish"
        /\ cpu_cache' = Remaining(gone)
        /\ saving' = saving
        /\ job' = NoWork
        /\ SetCounts(Add(ref_count, Removed(gone), -1), pin_count)
        /\ update_state_after_store(job.level)
        /\ UNCHANGED <<remote, flags, request_state, lookup_pins, clear_keys>>

----------------------------------------------------------------------------
(* The remote connector, the controller, the operator.                     *)

\* A remote write ends on the event loop, in success or not; the callback forgets the task.
PutDone(s) ==
    /\ ~loop_stuck
    /\ saving' = saving \ {s}
    /\ remote' \in {remote \cup {s.key}} \cup IF "remote_down" \in Faults THEN {remote} ELSE {}
    /\ cpu_cache' = cpu_cache /\ job' = job
    /\ SetCounts(Add(ref_count, <<s>>, -1), pin_count)
    /\ UNCHANGED <<fidelity, flags, request_state, lookup_pins, clear_keys>>

RemoteEvict(k) ==
    /\ "remote_evict" \in Faults
    /\ remote' = remote \ {k}
    /\ UNCHANGED <<cpu_cache, counts, content, saving, fidelity, flags, request_state, lookup_pins,
                   clear_keys, job>>

set_freeze(on) ==
    /\ "freeze" \in Faults
    /\ freeze' = on /\ loop_stuck' = loop_stuck
    /\ UNCHANGED <<cpu_cache, counts, content, remote, saving, fidelity, request_state, lookup_pins,
                   clear_keys, job>>

\* clear: the keys that can go are listed under the lock, and removed, by
\* force, after it has been released.
clear_collect ==
    /\ "clear" \in Faults /\ clear_keys = {}
    /\ clear_keys' = {e.key : e \in ToSet(get_evict_candidates)}
    /\ UNCHANGED <<cpu_cache, counts, content, remote, saving, fidelity, flags, request_state,
                   lookup_pins, job>>

clear_remove ==
    /\ clear_keys # {}
    /\ cpu_cache' = Remaining(clear_keys)
    /\ clear_keys' = {}
    /\ saving' = saving /\ job' = job
    /\ SetCounts(Add(ref_count, Removed(clear_keys), -1), pin_count)
    /\ UNCHANGED <<remote, fidelity, flags, request_state, lookup_pins>>

CallStep ==
    \/ Search \/ FetchCPU \/ FetchRemote \/ Collect \/ Decode \/ EndProcess \/ RetrieveFinish
    \/ StoreAllocate \/ StoreCopied \/ StoreEncode \/ StorePut \/ StoreFinish

EngineNext ==
    /\ UNCHANGED setup
    /\ \/ CallStep
       \/ \E r \in Reqs, c \in Configs : lookup(r, c)
       \/ \E r \in Reqs : lookup_unpin(r)
       \/ \E r \in Reqs, skip \in 0 .. PrefixLen - 1 : retrieve(r, skip)
       \/ \E c \in Configs, skip \in 0 .. PrefixLen - 1 : store(c, skip)
       \/ \E b \in Bufs : pin_timeout(b)
       \/ \E s \in saving : PutDone(s)
       \/ OrphanEnds
       \/ \E k \in remote : RemoteEvict(k)
       \/ \E on \in BOOLEAN : set_freeze(on)
       \/ clear_collect
       \/ clear_remove

\* The worker goes on while it can; a remote write ends, unless the event loop sleeps; a get that
\* sleeps there takes memory that is free for good.
EngineSpec ==
    /\ EngineInit /\ [][EngineNext]_eng_vars
    /\ WF_eng_vars(UNCHANGED setup /\ CallStep)
    /\ WF_eng_vars(UNCHANGED setup /\ \E s \in saving : PutDone(s))
    /\ WF_eng_vars(UNCHANGED setup /\ OrphanEnds)

----------------------------------------------------------------------------

EngineTypeOK ==
    /\ ToSet(cpu_cache) \subseteq [key : PrefixKeys, buf : Bufs]
    /\ ref_count \in [Bufs -> Nat] /\ pin_count \in [Bufs -> Nat] /\ dropped \in [Bufs -> Nat]
    /\ content \in [Bufs -> [chunk : PrefixChunks, form : {"raw", "int8"}] \cup {NoData}]
    /\ remote \subseteq PrefixKeys /\ saving \subseteq [key : PrefixKeys, buf : Bufs]
    /\ fidelity_state \in States /\ access_count \in 0 .. MinAccess
    /\ \A r \in Reqs : request_state[r].hits \in 0 .. PrefixLen
    /\ job.failed \in 0 .. PrefixLen /\ job.mask \subseteq PrefixChunks

\* What a reader, the cache or a pending write refers to is still the chunk
\* it was stored as, however eviction, forced removal and unpinning interleave
\* (can_evict, ref_count_down and unpin of TensorMemoryObj).
HeldDataIntact ==
    \A e \in ToSet(cpu_cache) \cup saving \cup ToSet(job.got) \cup ToSet(job.enc)
              \cup {x \in ToSet(job.batch) : x.buf # "none"} :
        content[e.buf].chunk = e.key.chunk /\ ref_count[e.buf] > 0

\* While nothing forces keys out, what a lookup pinned in the CPU tier stays
\* there until its lookup_unpin, and a pin belongs to a lookup that waits
\* (lookup, lookup_unpin, get_evict_candidates).
PinnedStays ==
    (Faults \cap {"pin_timeout", "clear"} = {} /\ ~setup.cleanup) =>
        \A b \in Bufs : pin_count[b] =
            Cardinality({r \in Reqs : \E i \in DOMAIN lookup_pins[r] :
                /\ lookup_pins[r][i].loc = "cpu"
                /\ \E j \in DOMAIN lookup_pins[r][i].keys :
                      [key |-> lookup_pins[r][i].keys[j], buf |-> b] \in ToSet(cpu_cache)})

\* The references to a buffer: of the cache, of pending writes, of the worker's call.
Holders(b) ==
    LET entries == cpu_cache \o job.batch \o job.got \o job.enc
    IN  Cardinality({i \in DOMAIN entries : entries[i].buf = b}) + Cardinality({s \in saving : s.buf = b})

\* Every holder of a memory object has one reference to it, and the only
\* references without a holder are those of chunks that a failed retrieve
\* fetched and left out: eviction, forced removal, late puts, failed gets and
\* stores that stop early give each of theirs back once (ref_count_up and
\* ref_count_down of the engine, the tiers and their callbacks).
ReferencesAccounted == \A b \in Bufs : ref_count[b] = Holders(b) + dropped[b]

\* A chunk whose full variant is stored or about to be.
Backed(c) == LET k == [level |-> "full", chunk |-> c]
             IN  k \in HotKeys \cup remote \cup {s.key : s \in saving}

\* The call has stored or retrieved every chunk it was asked for.
CallComplete == \/ job.pc = "finish" /\ job.stored = Len(job.want)
                \/ job.pc = "load" /\ Cardinality(job.mask) = Len(job.want)

\* A cleanup that ends a complete store or retrieve removes no last copy:
\* the chunk's full variant is in the cache, on the remote server or on its
\* way there, unless the server itself loses or refuses it
\* (_cleanup_base_variant at the end of store and retrieve).
CleanupKeepsACopy ==
    [][(CallComplete /\ job'.pc = "idle" /\ Faults = {}) =>
          \A k \in HotKeys \ HotKeys' : Backed(k.chunk)']_eng_vars

\* Once the worker's call has found its chunks it needs nobody to go on: it can
\* always take its next step, although LocalCPUBackend.allocate waits for a
\* buffer in a busy loop, the event loop may sleep there and the buffers may
\* all be pinned, leaked or on their way to the remote server (timeout of
\* RemoteBackend.batched_get_blocking, busy_loop of store).  With the codec
\* that needs no buffers of its own and stores that do not wait.
CallNeverBlocked ==
    (job.pc \notin {"idle", "search"} /\ setup.codec = "fake" /\ ~setup.store_wait) => ENABLED CallStep

\* "one retrieve at a time (okay to busy loop because stores will clear)"
\* (LocalCPUBackend.allocate): while the writes of stores hold the memory, a
\* call of the worker returns or they end.  The writes a get waits for end on
\* the loop it sleeps on, and the next search asks the remote tier on that loop
\* without a timeout.
StoresClear ==
    (job.pc # "idle") ~> (job.pc = "idle" \/ {s.buf : s \in saving} # Bufs)

(***************************************************************************)
(* Known limits.  What the code or its docs say and the code does not keep *)
(* (README, Known limits); no run checks these.                            *)
(***************************************************************************)

\* Every chunk ret_mask calls retrieved was handed to the GPU connector.
MaskCopied ==
    job.pc = "load" => job.mask = {job.got[i].key.chunk : i \in DOMAIN job.got}

\* "a safety net to prevent memory leaks if ref_count_down() is not called
\* properly" (TensorMemoryObj.__del__): no memory object keeps a reference that
\* nobody is left to give back.  In the hot cache an object that a failed
\* retrieve has left out is never collected nor evicted.
ReferencesReturned == \A b \in Bufs : ref_count[b] <= Holders(b)

=============================================================================
