------------------------------ MODULE Layerwise ------------------------------
(***************************************************************************)
(* Layerwise loading and storing: the generators retrieve_layer and        *)
(* store_layer of the cache engine (cache_engine.py), the ones of the      *)
(* layerwise GPU connector under them (gpu_connectors.py), and the calls   *)
(* of the vLLM adapter that advance them layer by layer                    *)
(* (vllm_v1_adapter.py).  Every layer of a chunk is a cache entry of its   *)
(* own.                                                                    *)
(*                                                                         *)
(* One forward step serves a batch of requests: it starts their retrievers,*)
(* then for every layer waits for the loads and advances the storers in    *)
(* the order of the batch, and at the end finishes the storers.  Lookups   *)
(* and evictions happen on other threads; the copies from the GPU run on a *)
(* stream that only the first request of the batch waits for.              *)
(***************************************************************************)
EXTENDS Integers, Sequences, FiniteSets, SequencesExt

CONSTANTS
    LWPrompts,      \* the chunks of every request, in order; requests are 1..Len(LWPrompts)
    LWLayers,       \* num_layers
    MaxSwitches     \* bound on changes of the freeze mode

LWReqs == DOMAIN LWPrompts
LWChunks == UNION {ToSet(LWPrompts[r]) : r \in LWReqs}
LWEntries == LWChunks \X (1..LWLayers)
AllLayers(C) == C \X (1..LWLayers)

ASSUME LayerwiseAssumption ==
    /\ IsFiniteSet(LWReqs) /\ LWLayers \in Nat \ {0}
    /\ \A r \in LWReqs : LWPrompts[r] \in Seq(LWChunks)

VARIABLES
    lw_cache,       \* entries of hot_cache
    lw_pins,        \* their pin counts
    lw_req,         \* per request: stage, chunks found, layers loaded, and its storer's mode and new chunks
    lw_step,        \* the forward step: stage, layer, the requests still to do at it, its batch
    store_stream,   \* copies from the GPU that are not done, oldest first: request and layer
    lw_frozen,
    lw_switches,
    early_puts      \* history: the first request of the batch had a storer that copies, per put before its copy

lw_vars == <<lw_cache, lw_pins, lw_req, lw_step, store_stream, lw_frozen, lw_switches, early_puts>>

NoStep == [stage |-> "idle", layer |-> 0, todo |-> <<>>, batch |-> <<>>]

LWInit ==
    /\ \E C \in SUBSET LWChunks : lw_cache = AllLayers(C)
    /\ lw_pins = [e \in LWEntries |-> 0]
    /\ lw_req = [r \in LWReqs |-> [stage |-> "new", hit |-> 0, loaded |-> 0, storer |-> "none", new |-> {}]]
    /\ lw_step = NoStep
    /\ store_stream = <<>>
    /\ lw_frozen = FALSE
    /\ lw_switches = 0
    /\ early_puts = {}

HitChunks(r) == {LWPrompts[r][i] : i \in 1..lw_req[r].hit}

(***************************************************************************)
(* lookup with pin: all layers of a chunk, chunk after chunk               *)
(***************************************************************************)

LayersHit(c) == CHOOSE n \in 0..LWLayers : (\A l \in 1..n : <<c, l>> \in lw_cache)
                                           /\ (n < LWLayers => <<c, n + 1>> \notin lw_cache)

\* Mutant: the first layer stands for the chunk, as the TODO in lookup proposes.
ChunksHit_first(p) ==
    CHOOSE n \in 0..Len(p) : (\A i \in 1..n : LayersHit(p[i]) > 0)
                             /\ (n < Len(p) => LayersHit(p[n + 1]) = 0)

ChunksHit(p) ==
    CHOOSE n \in 0..Len(p) : (\A i \in 1..n : LayersHit(p[i]) = LWLayers)
                             /\ (n < Len(p) => LayersHit(p[n + 1]) < LWLayers)

\* batched_contains pins the layers it finds of the first chunk that is not
\* whole, too; lookup_pins does not have them, and nothing unpins them.
Pinned(p, n) ==
    {<<p[i], l>> : i \in 1..n, l \in 1..LWLayers}
    \cup (IF n < Len(p) THEN {<<p[n + 1], l>> : l \in 1..LayersHit(p[n + 1])} ELSE {})

lw_lookup(r) ==
    /\ lw_req[r].stage = "new"
    /\ LET n == ChunksHit(LWPrompts[r]) IN
        /\ lw_req' = [lw_req EXCEPT ![r].stage = "looked", ![r].hit = n]
        /\ lw_pins' = [e \in LWEntries |->
                        lw_pins[e] + (IF e \in Pinned(LWPrompts[r], n) \cap lw_cache THEN 1 ELSE 0)]
    /\ UNCHANGED <<lw_cache, lw_step, store_stream, lw_frozen, lw_switches, early_puts>>

lw_evict(e) ==
    /\ e \in lw_cache /\ lw_pins[e] = 0
    /\ lw_cache' = lw_cache \ {e}
    /\ UNCHANGED <<lw_pins, lw_req, lw_step, store_stream, lw_frozen, lw_switches, early_puts>>

lw_freeze ==
    /\ lw_switches < MaxSwitches
    /\ lw_switches' = lw_switches + 1
    /\ lw_frozen' = ~lw_frozen
    /\ UNCHANGED <<lw_cache, lw_pins, lw_req, lw_step, store_stream, early_puts>>

(***************************************************************************)
(* The forward step                                                        *)
(***************************************************************************)

\* vLLM schedules requests that have been looked up, in some order.
lw_schedule(batch) ==
    /\ lw_step.stage = "idle"
    /\ \A i \in DOMAIN batch : lw_req[batch[i]].stage = "looked"
    /\ lw_step' = [stage |-> "start", layer |-> 1, todo |-> batch, batch |-> batch]
    /\ UNCHANGED <<lw_cache, lw_pins, lw_req, store_stream, lw_frozen, lw_switches, early_puts>>

Turn == Head(lw_step.todo)
Advance(stage) == lw_step.stage = stage /\ lw_step.todo # <<>>
StepOn == lw_step' = [lw_step EXCEPT !.todo = Tail(@)]

\* start_load_kv runs a retriever to the second yield, which takes the first
\* layer; wait_for_layer_load takes the next one.  A layer that is gone
\* raises KeyError.
Loads(r, l) ==
    IF HitChunks(r) \X {l} \subseteq lw_cache
    THEN StepOn /\ lw_req' = [lw_req EXCEPT ![r].loaded = l]
    ELSE lw_step' = [lw_step EXCEPT !.stage = "raised"] /\ UNCHANGED lw_req

start_load_kv ==
    /\ Advance("start")
    /\ Loads(Turn, 1)
    /\ UNCHANGED <<lw_cache, lw_pins, store_stream, lw_frozen, lw_switches, early_puts>>

wait_for_layer_load ==
    /\ Advance("load")
    /\ Loads(Turn, IF lw_step.layer < LWLayers THEN lw_step.layer + 1 ELSE LWLayers)
    /\ UNCHANGED <<lw_cache, lw_pins, store_stream, lw_frozen, lw_switches, early_puts>>

\* store_layer up to its first yield: the chunks after the ones loaded whose
\* first layer is not cached, as far as the memory goes (position m).
NotCached(r, m) ==
    {LWPrompts[r][i] : i \in {j \in lw_req[r].hit + 1 .. m : <<LWPrompts[r][j], 1>> \notin lw_cache}}

save_first_layer ==
    /\ Advance("save") /\ lw_step.layer = 1
    /\ LET r == Turn
       IN  \E m \in 0..Len(LWPrompts[r]) :
            LET new == NotCached(r, m)
                mode == IF lw_req[r].hit = Len(LWPrompts[r]) THEN "skipped"
                        ELSE IF lw_frozen THEN "frozen"
                        ELSE IF new = {} THEN "empty" ELSE "storing"
            IN  /\ lw_frozen => m = 0
                /\ lw_req' = [lw_req EXCEPT ![r].storer = mode, ![r].new = new]
                /\ store_stream' = IF mode = "storing" THEN Append(store_stream, <<r, 1>>) ELSE store_stream
    /\ StepOn
    /\ UNCHANGED <<lw_cache, lw_pins, lw_frozen, lw_switches, early_puts>>

\* Mutant: the last request of the batch waits for the stream instead.
sync_last(r) == r = Last(lw_step.batch)

\* The first request that gets a storer, whether or not the storer copies
\* anything; requests with nothing to save are skipped.
sync(r) ==
    \E i \in DOMAIN lw_step.batch :
        /\ lw_step.batch[i] = r
        /\ lw_req[r].storer # "skipped"
        /\ \A j \in 1..(i - 1) : lw_req[lw_step.batch[j]].storer = "skipped"

Put(r, l) ==
    /\ lw_cache' = lw_cache \cup (lw_req[r].new \X {l})
    /\ early_puts' = early_puts \cup
            IF <<r, l>> \in ToSet(store_stream)
            THEN {\E q \in ToSet(lw_step.batch) : sync(q) /\ lw_req[q].storer = "storing"}
            ELSE {}

\* A later next(): batched_from_gpu waits for the stream if it is the one to,
\* and queues the next layer; the layer before it is put.
save_kv_layer ==
    /\ Advance("save") /\ lw_step.layer > 1
    /\ LET r == Turn IN
        IF lw_req[r].storer = "storing"
        THEN /\ sync(r) => store_stream = <<>>
             /\ Put(r, lw_step.layer - 1)
             /\ store_stream' = Append(store_stream, <<r, lw_step.layer>>)
        ELSE UNCHANGED <<lw_cache, early_puts, store_stream>>
    /\ StepOn
    /\ UNCHANGED <<lw_pins, lw_req, lw_frozen, lw_switches>>

\* The next() after the last layer puts it, and lookup_unpin gives the pins
\* back.  In freeze mode store_layer has one yield less: StopIteration.
wait_for_save ==
    /\ Advance("finish")
    /\ LET r == Turn
           recorded == AllLayers(HitChunks(r)) IN
        IF lw_req[r].storer = "frozen"
        THEN /\ lw_step' = [lw_step EXCEPT !.stage = "raised"]
             /\ UNCHANGED <<lw_cache, lw_pins, lw_req, early_puts>>
        ELSE /\ StepOn
             /\ IF lw_req[r].storer = "storing"
                THEN (sync(r) => store_stream = <<>>) /\ Put(r, LWLayers)
                ELSE UNCHANGED <<lw_cache, early_puts>>
             /\ lw_pins' = [e \in LWEntries |-> lw_pins[e] - (IF e \in recorded THEN 1 ELSE 0)]
             /\ lw_req' = [lw_req EXCEPT ![r].stage = "done"]
    /\ UNCHANGED <<store_stream, lw_frozen, lw_switches>>

\* The model goes on to the next layer, or to the end of the step.
NextStage ==
    CASE lw_step.stage = "start" -> [lw_step EXCEPT !.stage = "load", !.todo = lw_step.batch]
      [] lw_step.stage = "load" -> [lw_step EXCEPT !.stage = "save", !.todo = lw_step.batch]
      [] lw_step.stage = "save" /\ lw_step.layer < LWLayers ->
            [lw_step EXCEPT !.stage = "load", !.layer = @ + 1, !.todo = lw_step.batch]
      [] lw_step.stage = "save" /\ lw_step.layer = LWLayers ->
            [lw_step EXCEPT !.stage = "finish", !.todo = lw_step.batch]
      [] lw_step.stage = "finish" -> NoStep

forward ==
    /\ lw_step.stage \in {"start", "load", "save", "finish"} /\ lw_step.todo = <<>>
    /\ lw_step' = NextStage
    /\ UNCHANGED <<lw_cache, lw_pins, lw_req, store_stream, lw_frozen, lw_switches, early_puts>>

\* The GPU finishes the oldest copy.
copy_done ==
    /\ store_stream # <<>>
    /\ store_stream' = Tail(store_stream)
    /\ UNCHANGED <<lw_cache, lw_pins, lw_req, lw_step, lw_frozen, lw_switches, early_puts>>

Batches == {b \in UNION {[1..n -> LWReqs] : n \in 1..Cardinality(LWReqs)} :
                \A i, j \in DOMAIN b : i # j => b[i] # b[j]}

LWNext ==
    \/ \E r \in LWReqs : lw_lookup(r)
    \/ \E e \in LWEntries : lw_evict(e)
    \/ lw_freeze
    \/ \E b \in Batches : lw_schedule(b)
    \/ start_load_kv \/ wait_for_layer_load
    \/ save_first_layer \/ save_kv_layer \/ wait_for_save \/ forward \/ copy_done

LWSpec == LWInit /\ [][LWNext]_lw_vars

(***************************************************************************)
(* Properties                                                              *)
(***************************************************************************)

\* The chunks lookup promised the scheduler can be loaded to the last layer:
\* whatever other requests store and evict meanwhile, no layer that is still
\* to be taken leaves the cache.
PromisedLayersStay ==
    \A r \in LWReqs :
        lw_req[r].stage = "looked" => HitChunks(r) \X (lw_req[r].loaded + 1 .. LWLayers) \subseteq lw_cache

\* No layer enters the cache while the GPU is still copying it, in a batch
\* whose first storer copies: that one waits for the stream, and every copy
\* of the layer was queued before.
PutAfterCopy == TRUE \notin early_puts

\* What batched_from_gpu says of itself ("it will first wait until the storing
\* of previous layer finishes"), for every batch.  When the first request has
\* nothing new to store no one waits.
EveryPutAfterCopy == early_puts = {}
=============================================================================
