---------------------------- MODULE AsyncLoading ----------------------------
(***************************************************************************)
(* Asynchronous loading: the lookup client of the scheduler, the lookup    *)
(* server of every worker, the event manager, and the prefetch that        *)
(* StorageManager runs over its tiers (lmcache_async_lookup_client.py,     *)
(* event_manager.py, storage_manager.py, cache_engine.py), as the          *)
(* scheduler and the workers drive them (vllm_v1_adapter.py).              *)
(*                                                                         *)
(* A request asks for the chunks 1 .. NChunks.  On a worker the first tier *)
(* finds a prefix of them and the second a prefix of the rest; each may    *)
(* load fewer than it found.  A prefetched chunk is held once for the      *)
(* request; the request is named <<id, round>> because a preempted request *)
(* looks up again under the same id.                                       *)
(***************************************************************************)
EXTENDS Integers, Sequences, FiniteSets, FiniteSetsExt, Functions

CONSTANTS
    Lookups,        \* request ids
    AsyncSetups     \* the instances to start from: workers with a lookup server,
                    \* chunks of a request, and the bound on lookups of one id

ASSUME AsyncAssumption ==
    \A s \in AsyncSetups : IsFiniteSet(s.workers) /\ s.chunks \in Nat /\ s.rounds \in Nat

VARIABLES
    async_setup,
    reqs_status,            \* absent, None (ongoing) or the chunks hit
    first_lookup_time,      \* ids whose wait is timed
    res_for_each_worker,    \* answers so far
    aborted_lookups,
    lookup_answer,          \* what lookup_cache last returned to the scheduler
    round,                  \* lookups sent, per id
    request,                \* waiting, admitted, loaded, done or aborted, per id
    to_worker, to_scheduler,\* sockets
    ongoing, done,          \* EventManager.events of each worker: id -> round, 0 if none
    future,                 \* the prefetch of <<id, round>> on each worker
    scheduler_up,           \* FALSE once an exception has left lookup_cache
    gave_up                 \* history: ids lookup_cache has given up on

async_vars == <<async_setup, reqs_status, first_lookup_time, res_for_each_worker,
                aborted_lookups, lookup_answer, round, request, to_worker, to_scheduler, ongoing, done, future, scheduler_up, gave_up>>
client == <<async_setup, reqs_status, first_lookup_time, res_for_each_worker, aborted_lookups,
            lookup_answer, round,
            scheduler_up, gave_up>>
servers == <<async_setup, ongoing, done, future>>

AWorkers == async_setup.workers
NChunks == async_setup.chunks
MaxRounds == async_setup.rounds
LoadChunks == 1 .. NChunks
Absent == -1
Ongoing == -2
NoFuture == [stage |-> "none", hits |-> <<0, 0>>, got |-> {}, holds |-> [c \in LoadChunks |-> 0]]

AsyncInit ==
    /\ async_setup \in AsyncSetups
    /\ reqs_status = [r \in Lookups |-> Absent]
    /\ first_lookup_time = {}
    /\ res_for_each_worker = [r \in Lookups |-> <<>>]
    /\ aborted_lookups = {}
    /\ lookup_answer = [r \in Lookups |-> Ongoing]
    /\ round = [r \in Lookups |-> 0]
    /\ request = [r \in Lookups |-> [stage |-> "waiting", computed |-> 0, asked |-> 0, left |-> {}]]
    /\ to_worker = [w \in AWorkers |-> <<>>]
    /\ to_scheduler = [w \in AWorkers |-> <<>>]
    /\ ongoing = [w \in AWorkers |-> [r \in Lookups |-> 0]]
    /\ done = [w \in AWorkers |-> [r \in Lookups |-> 0]]
    /\ future = [w \in AWorkers |-> [i \in Lookups \X (1 .. MaxRounds) |-> NoFuture]]
    /\ scheduler_up = TRUE
    /\ gave_up = {}

----------------------------------------------------------------------------
\* The scheduler.

Finished == {r \in aborted_lookups : reqs_status[r] >= 0}

\* _cleanup_finished_aborted_lookups tells the workers about one finished id
\* at a time; lookup_cache looks at its own id once none is left.
CleanupAborted(r) ==
    /\ scheduler_up /\ r \in Finished
    /\ aborted_lookups' = aborted_lookups \ {r}
    /\ reqs_status' = [reqs_status EXCEPT ![r] = Absent]
    /\ first_lookup_time' = first_lookup_time \ {r}
    /\ to_worker' = [w \in AWorkers |-> Append(to_worker[w], [type |-> "cleanup", id |-> r, round |-> 0])]
    /\ UNCHANGED <<res_for_each_worker, lookup_answer, round, request, to_scheduler, scheduler_up, gave_up, servers>>

Polls(r) == scheduler_up /\ Finished = {} /\ request[r].stage = "waiting"

\* lookup_cache finds nothing, so lookup sends the request to every worker.
lookup_request(r) ==
    /\ Polls(r) /\ reqs_status[r] = Absent /\ round[r] < MaxRounds
    /\ reqs_status' = [reqs_status EXCEPT ![r] = Ongoing]
    /\ first_lookup_time' = first_lookup_time \cup {r}
    /\ round' = [round EXCEPT ![r] = @ + 1]
    /\ lookup_answer' = [lookup_answer EXCEPT ![r] = Ongoing]
    /\ to_worker' = [w \in AWorkers |->
                       Append(to_worker[w], [type |-> "request", id |-> r, round |-> round[r] + 1])]
    /\ UNCHANGED <<res_for_each_worker, aborted_lookups, request, to_scheduler, scheduler_up, gave_up, servers>>

\* lookup_cache gives up on an answer: the request is computed from scratch.
lookup_timeout(r) ==
    /\ Polls(r) /\ reqs_status[r] = Ongoing /\ r \in first_lookup_time
    /\ aborted_lookups' = aborted_lookups \cup {r}
    /\ first_lookup_time' = first_lookup_time \ {r}
    /\ gave_up' = gave_up \cup {r}
    /\ lookup_answer' = [lookup_answer EXCEPT ![r] = 0]
    /\ UNCHANGED <<reqs_status, res_for_each_worker, round, request, to_worker, to_scheduler,
                   scheduler_up, servers>>

\* The scheduler could not admit the request it was told 0 for and asks again.
lookup_again(r) ==
    /\ Polls(r) /\ reqs_status[r] = Ongoing /\ r \notin first_lookup_time
    /\ scheduler_up' = FALSE
    /\ UNCHANGED <<reqs_status, first_lookup_time, res_for_each_worker, aborted_lookups, lookup_answer, round,
                   request, to_worker, to_scheduler, gave_up, servers>>

lookup_answered(r) ==
    /\ Polls(r) /\ reqs_status[r] >= 0 /\ lookup_answer[r] # reqs_status[r]
    /\ lookup_answer' = [lookup_answer EXCEPT ![r] = reqs_status[r]]
    /\ UNCHANGED <<reqs_status, first_lookup_time, res_for_each_worker, aborted_lookups, round, request,
                   to_worker, to_scheduler, scheduler_up, gave_up, servers>>

\* update_state_after_alloc: the request is admitted with the answer it got; the
\* serving engine has `computed` chunks of its own.
update_state_after_alloc(r, computed) ==
    /\ scheduler_up /\ request[r].stage = "waiting" /\ lookup_answer[r] >= 0
    /\ request' = [request EXCEPT ![r] = [stage |-> "admitted", computed |-> computed,
                                          asked |-> lookup_answer[r], left |-> AWorkers]]
    /\ reqs_status' = [reqs_status EXCEPT ![r] = Absent]
    /\ first_lookup_time' = first_lookup_time \ {r}
    /\ lookup_answer' = [lookup_answer EXCEPT ![r] = Ongoing]
    /\ UNCHANGED <<res_for_each_worker, aborted_lookups, round, to_worker, to_scheduler,
                   scheduler_up, gave_up, servers>>

\* request_finished of a request that was aborted: cancel_lookup.
request_finished(r) ==
    /\ scheduler_up /\ request[r].stage \in {"waiting", "done"}
    /\ round[r] > 0 /\ r \notin aborted_lookups
    /\ aborted_lookups' = aborted_lookups \cup {r}
    /\ request' = [request EXCEPT ![r].stage = "aborted"]
    /\ UNCHANGED <<reqs_status, first_lookup_time, res_for_each_worker, lookup_answer, round, to_worker,
                   to_scheduler, scheduler_up, gave_up, servers>>

preempted(r) ==
    /\ scheduler_up /\ request[r].stage = "done" /\ round[r] < MaxRounds
    /\ request' = [request EXCEPT ![r].stage = "waiting"]
    /\ UNCHANGED <<client, to_worker, to_scheduler, servers>>

\* Mutant: the largest of the workers' answers.
AllAnswers_max(res) == Max(Range(res))

\* Ranks may differ: the smallest number of hit tokens counts.
AllAnswers(res) == Min(Range(res))

process_responses_from_workers(w) ==
    /\ to_scheduler[w] # <<>>
    /\ LET msg == Head(to_scheduler[w])
           res == Append(res_for_each_worker[msg.id], msg.hit)
       IN  IF Len(res) = Cardinality(AWorkers)
           THEN /\ res_for_each_worker' = [res_for_each_worker EXCEPT ![msg.id] = <<>>]
                /\ reqs_status' = [reqs_status EXCEPT ![msg.id] = AllAnswers(res)]
           ELSE /\ res_for_each_worker' = [res_for_each_worker EXCEPT ![msg.id] = res]
                /\ UNCHANGED reqs_status
    /\ to_scheduler' = [to_scheduler EXCEPT ![w] = Tail(@)]
    /\ UNCHANGED <<first_lookup_time, aborted_lookups, lookup_answer, round, request, to_worker, scheduler_up,
                   gave_up, servers>>

----------------------------------------------------------------------------
\* A worker.

Respond(w, r, n) == to_scheduler' = [to_scheduler EXCEPT ![w] = Append(@, [id |-> r, hit |-> n])]

\* async_lookup_and_prefetch: contains of each tier, and a load for every hit.
async_lookup_and_prefetch(w, hits) ==
    /\ to_worker[w] # <<>> /\ Head(to_worker[w]).type = "request"
    /\ LET msg == Head(to_worker[w])
       IN  IF hits = <<0, 0>>
           THEN /\ Respond(w, msg.id, 0)
                /\ UNCHANGED servers
           ELSE /\ ongoing' = [ongoing EXCEPT ![w][msg.id] = msg.round]
                /\ future' = [future EXCEPT ![w][<<msg.id, msg.round>>] =
                                [NoFuture EXCEPT !.stage = "loading", !.hits = hits]]
                /\ UNCHANGED <<done, to_scheduler>>
    /\ to_worker' = [to_worker EXCEPT ![w] = Tail(@)]
    /\ UNCHANGED <<client, request>>

\* update_event_status(DONE): whatever future the id's event holds moves.
MoveEvent(w, r) ==
    /\ ongoing' = [ongoing EXCEPT ![w][r] = 0]
    /\ done' = [done EXCEPT ![w][r] = IF ongoing[w][r] # 0 THEN ongoing[w][r] ELSE done[w][r]]

\* A tier that loaded fewer chunks than it found ends the prefix.
Retrieved(hits, got) == got[1] + (IF got[1] < hits[1] THEN 0 ELSE got[2])

\* All loads of a request are done: prefetch_all_done_callback.  Releasing the
\* chunks of a later tier raises, since the results are pairs: no answer is
\* sent then, as when a load itself raised.
prefetch_all_done(w, i, got) ==
    LET f == future[w][i]
        chunks == (1 .. got[1]) \cup (f.hits[1] + 1 .. f.hits[1] + got[2])
        raises == got[1] < f.hits[1] /\ got[2] > 0
    IN  /\ f.stage = "loading"
        /\ got[1] <= f.hits[1] /\ got[2] <= f.hits[2]
        /\ future' = [future EXCEPT ![w][i] =
                        [f EXCEPT !.stage = "loaded", !.got = chunks,
                                  !.holds = [c \in LoadChunks |-> IF c \in chunks THEN 1 ELSE 0]]]
        /\ MoveEvent(w, i[1])
        /\ IF raises THEN UNCHANGED to_scheduler ELSE Respond(w, i[1], Retrieved(f.hits, got))
        /\ UNCHANGED <<client, request, to_worker>>

prefetch_raises(w, i) ==
    /\ future[w][i].stage = "loading"
    /\ future' = [future EXCEPT ![w][i] = [future[w][i] EXCEPT !.stage = "failed"]]
    /\ MoveEvent(w, i[1])
    /\ UNCHANGED <<client, request, to_worker, to_scheduler>>

\* ref_count_down of the chunks.
RefCountDown(f, chunks) ==
    [f EXCEPT !.holds = [c \in LoadChunks |-> IF c \in chunks THEN f.holds[c] - 1 ELSE f.holds[c]]]

\* cleanup_memory_objs releases every chunk the prefetch returned.
cleanup_memory_objs(w, r) ==
    LET n == done[w][r]
        f == future[w][<<r, n>>]
    IN  IF n = 0 \/ ongoing[w][r] # 0
        THEN UNCHANGED <<done, future>>
        ELSE /\ done' = [done EXCEPT ![w][r] = 0]
             /\ future' = [future EXCEPT ![w][<<r, n>>] = RefCountDown(f, f.got)]

cleanup_message(w) ==
    /\ to_worker[w] # <<>> /\ Head(to_worker[w]).type = "cleanup"
    /\ cleanup_memory_objs(w, Head(to_worker[w]).id)
    /\ to_worker' = [to_worker EXCEPT ![w] = Tail(@)]
    /\ UNCHANGED <<client, request, to_scheduler, ongoing>>

\* The chunks retrieve uses: those of the answer, after the computed ones, up
\* to the first that is missing.
UsedChunks(q, got) ==
    {c \in q.computed + 1 .. q.asked : (q.computed + 1 .. c) \subseteq got}

NeedsLoad(q) == q.asked > q.computed

\* Worker w has done its part; the stage changes with the last worker.
StepDone(q, w, next) ==
    IF q.left = {w} THEN [q EXCEPT !.stage = next, !.left = AWorkers] ELSE [q EXCEPT !.left = @ \ {w}]

\* start_load_kv and retrieve: _async_process_tokens_internal frees what the
\* request does not use.
retrieve_async(w, r) ==
    LET q == request[r]
        n == done[w][r]
        f == future[w][<<r, n>>]
    IN  /\ q.stage = "admitted" /\ w \in q.left
        /\ IF NeedsLoad(q) /\ n # 0 /\ f.stage = "loaded"
           THEN future' = [future EXCEPT ![w][<<r, n>>] = RefCountDown(f, f.got \ UsedChunks(q, f.got))]
           ELSE UNCHANGED future
        /\ request' = [request EXCEPT ![r] = StepDone(q, w, "saving")]
        /\ UNCHANGED <<client, to_worker, to_scheduler, ongoing, done>>

\* wait_for_save: lookup_unpin.
lookup_unpin_async(w, r) ==
    /\ request[r].stage = "saving" /\ w \in request[r].left
    /\ request' = [request EXCEPT ![r] = StepDone(@, w, "done")]
    /\ cleanup_memory_objs(w, r)
    /\ UNCHANGED <<client, to_worker, to_scheduler, ongoing>>

Pairs == {p \in (0 .. NChunks) \X (0 .. NChunks) : p[1] + p[2] <= NChunks}

AsyncNext ==
    \/ \E r \in Lookups :
          \/ CleanupAborted(r) \/ lookup_request(r) \/ lookup_timeout(r) \/ lookup_again(r)
          \/ lookup_answered(r) \/ request_finished(r) \/ preempted(r)
          \/ \E computed \in 0 .. NChunks : update_state_after_alloc(r, computed)
          \/ \E w \in AWorkers : retrieve_async(w, r) \/ lookup_unpin_async(w, r)
    \/ \E w \in AWorkers :
          \/ process_responses_from_workers(w) \/ cleanup_message(w)
          \/ \E p \in Pairs : async_lookup_and_prefetch(w, p)
          \/ \E i \in Lookups \X (1 .. MaxRounds) :
                prefetch_raises(w, i) \/ \E p \in Pairs : prefetch_all_done(w, i, p)

AsyncSpec == AsyncInit /\ [][AsyncNext]_async_vars

----------------------------------------------------------------------------

\* The scheduler is told n chunks only when every worker has them loaded
\* without a gap, and every worker holds them until the request retrieves
\* them, also when it looks up again after a preemption.  (An id that
\* lookup_cache has given up on has a cleanup message to come, which may
\* release what a second lookup loaded.)
AnswerIsLoaded ==
    \A r \in Lookups, w \in AWorkers :
       reqs_status[r] > 0 /\ request[r].stage = "waiting" /\ r \notin gave_up =>
          /\ done[w][r] # 0
          /\ LET f == future[w][<<r, done[w][r]>>]
             IN  \A c \in 1 .. reqs_status[r] : c \in f.got /\ f.holds[c] = 1

(***************************************************************************)
(* Known limits.  What the code or its docs say and the code does not keep *)
(* (README, Known limits); no run checks these.                            *)
(***************************************************************************)

\* No chunk is released more often than it is held: ref_count_down calls that a
\* "double free" and asks to find the bug.
NoDoubleRelease ==
    \A w \in AWorkers, i \in Lookups \X (1 .. MaxRounds), c \in LoadChunks : future[w][i].holds[c] >= 0

\* lookup_cache returns -1, None or a number of tokens.
LookupCacheReturns == scheduler_up

=============================================================================
