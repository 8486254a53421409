---------------------------- MODULE VLLMConnector ----------------------------
(***************************************************************************)
(* LMCacheConnectorV1Impl for one request (vllm_v1_adapter.py): the lookup *)
(* when vLLM schedules a waiting request, the tracker and the load and     *)
(* save ranges build_connector_meta derives from it, the load before the   *)
(* forward pass and the save after it.  vLLM, external, picks how many     *)
(* tokens to run, preempts, resumes, and recomputes from the first block   *)
(* reported as not loaded.                                                 *)
(*                                                                         *)
(* Token positions are exact.  A cached chunk is named by the position it  *)
(* ends at: full chunks end at multiples of ChunkSize, a partial chunk at  *)
(* the end of the prompt it was saved for.  A GPU block is one token.      *)
(***************************************************************************)
EXTENDS Integers, FiniteSets, FiniteSetsExt

CONSTANTS
    ChunkSize,
    PromptLens,
    MaxTokens,          \* bound: prompt and output tokens
    ConnectorSetups     \* discard_partial_chunks, save_decode_cache, min_retrieve_tokens

ASSUME ConnectorAssumption ==
    /\ ChunkSize \in Nat \ {0} /\ MaxTokens \in Nat
    /\ PromptLens \subseteq 1..MaxTokens

VARIABLES
    vc_setup,
    prompt_len,
    num_tokens,         \* prompt and output tokens of the request
    num_computed_tokens,
    req_status,         \* waiting, running or preempted
    tracker,            \* RequestTracker: tokens, saved, decode
    cached,             \* chunk end -> none, good or bad content
    ever_cached,        \* full chunks that were in the cache at some time
    left_out,           \* full chunks that only came as far as a store that left them out
    gpu_valid,          \* tokens whose KV in vLLM's blocks is right
    last_load,          \* of this step's load: full chunks lost that vLLM counts, and the failed start
    scheduler_raised    \* an assertion of build_connector_meta failed

cache_vars == <<cached, ever_cached, left_out>>
vc_vars == <<vc_setup, prompt_len, num_tokens, num_computed_tokens, req_status, tracker, cache_vars,
             gpu_valid, last_load, scheduler_raised>>

NoTracker == [tokens |-> 0, saved |-> 0, decode |-> FALSE]
NoLoss == [lost |-> {}, failed_start |-> 0]
Ends == 1..MaxTokens

ConnectorInit ==
    /\ vc_setup \in ConnectorSetups
    /\ prompt_len \in PromptLens
    /\ num_tokens = prompt_len
    /\ num_computed_tokens = 0 /\ gpu_valid = 0
    /\ req_status = "waiting"
    /\ tracker = NoTracker
    /\ cached = [e \in Ends |-> "none"]
    /\ ever_cached = {} /\ left_out = {}
    /\ last_load = NoLoss
    /\ scheduler_raised = FALSE

aligned(n) == (n \div ChunkSize) * ChunkSize

\* The chunks process_tokens cuts n tokens into, by their ends; a partial one may be dropped.
ChunkEnds(n, partial) == {e \in 1..n : e % ChunkSize = 0 \/ (partial /\ e = n)}
full(ends) == {e \in ends : e % ChunkSize = 0}

\* The longest run of cached chunks from the start.
LookupHit(n) ==
    LET ends == ChunkEnds(n, ~vc_setup.discard)
        hits == {e \in ends : \A d \in ends : d <= e => cached[d] # "none"}
    IN  Max(hits \cup {0})

\* ---------------------------------------------------------------- the scheduler side

\* get_num_new_matched_tokens: tokens to load beyond the local ones.  On a full hit the last
\* token is recomputed for its logits.
num_external_tokens(local, hit) ==
    LET need == hit - local - (IF hit = num_tokens THEN 1 ELSE 0)
    IN  IF need <= 0 \/ need < vc_setup.min_retrieve THEN 0 ELSE need

\* ReqMeta.from_request_tracker for a tracker t.
skip_save(t) ==
    \/ t.saved > 0 /\ t.tokens < ((t.saved + ChunkSize) \div ChunkSize) * ChunkSize
    \/ t.decode /\ ~vc_setup.save_decode

num_tokens_to_save(t) ==
    IF t.tokens < prompt_len \/ vc_setup.discard THEN aligned(t.tokens) ELSE t.tokens

\* Mutant: the range is counted as saved although the save is skipped.
SavedTracker_always(t) == [t EXCEPT !.saved = num_tokens_to_save(t)]

SavedTracker(t) == IF skip_save(t) THEN t ELSE [t EXCEPT !.saved = num_tokens_to_save(t)]

\* wait_for_save stores whole chunks from the one that holds the first unsaved token.
ChunksToSave(t) ==
    IF skip_save(t) \/ t.saved = num_tokens_to_save(t) THEN {}
    ELSE {e \in ChunkEnds(num_tokens_to_save(t), TRUE) : e > aligned(t.saved)}

\* ---------------------------------------------------------------- the worker side

\* The chunk that ends at e starts after this token.
chunk_start(e) == aligned(e - 1)

\* The chunks a load of hit tokens asks for when vLLM has local ones.
ChunksToLoad(local, hit) == {e \in ChunkEnds(hit, TRUE) : e > aligned(local)}

\* What _process_tokens_internal may set in ret_mask: got, the chunks retrieved before the last
\* one that failed.  Each tier stops at its first failure, so what several tiers bring can have
\* holes.  Without a failure (0) the chunks no tier has any more are a tail.
retrieved(chunks, got, failed) ==
    IF failed = 0 THEN \A e \in got : \A d \in chunks : d <= e => d \in got
                  ELSE \A e \in got : e < failed

\* Only chunks that end before the failed one starts are copied to the GPU: the one that ends
\* where it starts stays in ret_mask and is not.
copied(got, failed) == {e \in got : failed = 0 \/ e < chunk_start(failed)}

\* The tokens of ret_mask.
ret_mask(got) == UNION {chunk_start(e) + 1 .. e : e \in got}

\* What is right on the GPU once the chunks in on_gpu are there.
LoadedValid(local, hit, on_gpu) ==
    Min({Max({local, hit})}
        \cup {chunk_start(e) : e \in {d \in on_gpu : cached[d] = "bad"}}
        \cup {Max({local, chunk_start(e)}) : e \in ChunksToLoad(local, hit) \ on_gpu})

\* Mutant: only a load that brought nothing is a failure.
reports_failure_empty(local, hit, got) == got = {} /\ hit > local

\* start_load_kv compares a count that includes tokens vLLM had with one that does not.
reports_failure(local, hit, got) == Cardinality(ret_mask(got)) < hit - local

\* One engine step of n tokens with tracker t: forward pass on valid tokens, save, and vLLM's
\* bookkeeping.  first_invalid is where vLLM has to recompute from, 0 if nothing was reported.
\* A store that is unhealthy or frozen stores nothing, one that gets no memory for a chunk stops
\* there: the tracker counts the tokens as saved all the same.
RunStep(t, computed, n, valid, first_invalid, reported) ==
    LET after == IF valid >= computed THEN computed + n ELSE valid
        sampled == ~reported /\ computed + n = num_tokens
    IN  /\ tracker' = SavedTracker(t)
        /\ \E stop \in {0} \cup ChunksToSave(t) :
              LET stored == {e \in ChunksToSave(t) : e <= stop}
              IN  /\ cached' = [e \in Ends |-> IF e \in stored /\ cached[e] = "none"
                                               THEN (IF after >= e THEN "good" ELSE "bad") ELSE cached[e]]
                  /\ ever_cached' = ever_cached \cup full(stored)
                  /\ left_out' = (left_out \cup full(ChunksToSave(t))) \ ever_cached'
        /\ gpu_valid' = IF reported THEN Min({after, first_invalid}) ELSE after
        /\ num_computed_tokens' = IF reported THEN first_invalid ELSE computed + n
        /\ num_tokens' = num_tokens + (IF sampled THEN 1 ELSE 0)
        /\ sampled => num_tokens < MaxTokens
        /\ req_status' = "running"

\* What of a load vLLM counts as computed, and is not: full chunks before first_invalid.
LoadReport(chunks, hit, got, failed, reported, first_invalid) ==
    [lost |-> {e \in full(chunks \ copied(got, failed)) : e <= (IF reported THEN first_invalid ELSE hit)},
     failed_start |-> IF failed = 0 THEN 0 ELSE chunk_start(failed)]

\* start_load_kv, and the step after it: vLLM recomputes from the first token that is missing.
LoadAndRun(t, local, hit, computed, n, got, failed) ==
    LET chunks == ChunksToLoad(local, hit)
        reported == reports_failure(local, hit, got)
        first_invalid == IF reported THEN chunk_start(Min(chunks \ got)) ELSE 0
    IN  /\ retrieved(chunks, got, failed)
        /\ RunStep(t, computed, n, LoadedValid(local, hit, copied(got, failed)), first_invalid, reported)
        /\ last_load' = LoadReport(chunks, hit, got, failed, reported, first_invalid)

\* A waiting or preempted request: lookup, allocation, build_connector_meta, load, step.
schedule_waiting(local, n) ==
    LET hit == LookupHit(num_tokens)
        need == num_external_tokens(local, hit)
        \* RequestTracker.from_new_request; update(preempted=True)
        t == IF req_status = "waiting"
             THEN [tokens |-> Min({local + need + n, prompt_len}), saved |-> hit, decode |-> FALSE]
             ELSE [tokens |-> Min({Max({hit, local}) + n, num_tokens}), saved |-> hit,
                   decode |-> tracker.decode \/ n = 1]
    IN  /\ req_status \in {"waiting", "preempted"} /\ ~scheduler_raised
        /\ local < num_tokens /\ local + need + n <= num_tokens
        /\ req_status = "preempted" => local + need = Max({hit, local})
        /\ IF need = 0
           THEN RunStep(t, local, n, local, 0, FALSE) /\ last_load' = NoLoss
           ELSE \E got \in SUBSET ChunksToLoad(local, hit), failed \in {0} \cup ChunksToLoad(local, hit) :
                    LoadAndRun(t, local, hit, local + need, n, got, failed)
        /\ UNCHANGED <<vc_setup, prompt_len, scheduler_raised>>

\* The assertion build_connector_meta makes of a preempted request's num_computed_tokens.
preempted_assertion_fails(local) ==
    LET hit == LookupHit(num_tokens)
    IN  /\ req_status = "preempted" /\ local < num_tokens /\ ~scheduler_raised
        /\ local + num_external_tokens(local, hit) # Max({hit, local})
        /\ scheduler_raised' = TRUE /\ last_load' = NoLoss
        /\ UNCHANGED <<vc_setup, prompt_len, num_tokens, num_computed_tokens, req_status, tracker,
                       cache_vars, gpu_valid>>

\* A running request; one that vLLM rolled back has its tracker truncated first.
schedule_running(n) ==
    LET kept == Min({tracker.tokens, num_computed_tokens})
        t == [tokens |-> kept + n, saved |-> Min({tracker.saved, kept}), decode |-> tracker.decode \/ n = 1]
    IN  /\ req_status = "running" /\ ~scheduler_raised
        /\ num_computed_tokens + n <= num_tokens
        /\ RunStep(t, num_computed_tokens, n, gpu_valid, 0, FALSE)
        /\ last_load' = NoLoss
        /\ UNCHANGED <<vc_setup, prompt_len, scheduler_raised>>

preempt ==
    /\ req_status = "running" /\ ~scheduler_raised
    /\ req_status' = "preempted"
    /\ num_computed_tokens' = 0 /\ gpu_valid' = 0
    /\ last_load' = NoLoss
    /\ UNCHANGED <<vc_setup, prompt_len, num_tokens, tracker, cache_vars, scheduler_raised>>

\* Other requests with the same prefix fill the cache; eviction empties it.
other_stores(e) ==
    /\ cached[e] = "none" /\ e \in ChunkEnds(num_tokens, ~vc_setup.discard)
    /\ cached' = [cached EXCEPT ![e] = "good"]
    /\ ever_cached' = ever_cached \cup full({e})
    /\ left_out' = left_out \ {e}
    /\ last_load' = NoLoss
    /\ UNCHANGED <<vc_setup, prompt_len, num_tokens, num_computed_tokens, req_status, tracker, gpu_valid,
                   scheduler_raised>>

chunk_evicted(e) ==
    /\ cached[e] # "none"
    /\ cached' = [cached EXCEPT ![e] = "none"]
    /\ last_load' = NoLoss
    /\ UNCHANGED <<vc_setup, prompt_len, num_tokens, num_computed_tokens, req_status, tracker, ever_cached,
                   left_out, gpu_valid, scheduler_raised>>

ConnectorNext ==
    \/ \E local \in 0..MaxTokens, n \in 1..MaxTokens : schedule_waiting(local, n)
    \/ \E local \in 0..MaxTokens : preempted_assertion_fails(local)
    \/ \E n \in 1..MaxTokens : schedule_running(n)
    \/ preempt
    \/ \E e \in Ends : other_stores(e) \/ chunk_evicted(e)

ConnectorSpec == ConnectorInit /\ [][ConnectorNext]_vc_vars

-----------------------------------------------------------------------------

(***************************************************************************)
(* The tracker's own count leaves no hole: every full chunk it counts as   *)
(* saved, and so skips in later saves, has been in the cache or was handed *)
(* to a store that left it out, across chunked prefill, preemption,        *)
(* recomputation and skipped saves (ReqMeta.from_request_tracker,          *)
(* RequestTracker.update).                                                 *)
(***************************************************************************)
HolesAreShortStores == ChunkEnds(tracker.saved, FALSE) \subseteq ever_cached \cup left_out

(***************************************************************************)
(* Every full chunk that could not be retrieved is reported to vLLM,       *)
(* although start_load_kv compares counts of different tokens: the only    *)
(* one vLLM can count and not have is the chunk that ends where the last   *)
(* failed one starts, which the copy leaves out.                           *)
(***************************************************************************)
LossIsBeforeFailure == last_load.lost \subseteq {last_load.failed_start}

(***************************************************************************)
(* Known limits.  What the code or its docs say and the code does not keep *)
(* (README, Known limits); no run checks these.                            *)
(***************************************************************************)

(***************************************************************************)
(* "We assume all tokens are saved" (wait_for_save): every full chunk the  *)
(* tracker counts as saved has been in the cache.  A store that gets no    *)
(* memory, or is skipped in an unhealthy or frozen engine, breaks it, and  *)
(* the request never saves the chunk again.                                *)
(***************************************************************************)
SavedWasCached == ChunkEnds(tracker.saved, FALSE) \subseteq ever_cached

(***************************************************************************)
(* ret_mask: "True means the token was successfully loaded"                *)
(* (record_failed_blocks): no full chunk vLLM counts as loaded is missing  *)
(* on the GPU.                                                             *)
(***************************************************************************)
LostChunkReported == last_load.lost = {}

(***************************************************************************)
(* Chunks in the cache were computed from a valid context: a load that     *)
(* failed is known before the save of the same step (start_load_kv,        *)
(* wait_for_save).                                                         *)
(***************************************************************************)
CachedContentValid == \A e \in Ends : cached[e] # "bad"

(***************************************************************************)
(* "Preempted request has num_computed_tokens ... but                      *)
(* max(lmcache_cached_tokens, vllm_cached_tokens)": the assertion holds.   *)
(***************************************************************************)
PreemptedAssertionHolds == ~scheduler_raised
=============================================================================
