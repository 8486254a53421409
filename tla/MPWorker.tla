------------------------------ MODULE MPWorker -------------------------------
(***************************************************************************)
(* LMCacheMPWorkerAdapter, which runs in a vLLM worker, sends STORE and    *)
(* RETRIEVE requests over MessageQueueClient and tells vLLM which requests *)
(* are finished, so that it frees their GPU blocks                         *)
(* (vllm_multi_process_adapter.py, mq.py, futures.py).                     *)
(*                                                                         *)
(* The server answers a request, or raises and answers nothing; it can     *)
(* restart, which loses the requests it had and the registered KV caches.  *)
(* Only the heartbeat tells the adapter, and a slow answer looks the same. *)
(***************************************************************************)
EXTENDS Integers, FiniteSets

CONSTANTS
    WorkerReqs,
    MaxStores,      \* bound: STOREs of one request (its prefill is chunked)
    MaxRepeats      \* bound: how often the engine reports a request finished

Nothing == 0

VARIABLES
    worker_healthy,     \* _health_event
    registered,         \* the server has the KV caches of this worker
    store_ops,          \* state of every STORE sent: working, ok, failed or dropped
    store_futures,      \* the STORE whose future is kept for a request, or Nothing
    retrieve_op,        \* none, or the state of the request's RETRIEVE
    retrieve_futures,
    error_block_ids,    \* requests whose blocks are to be reported as not loaded
    errors_taken,       \* and those reported
    finished_stores,
    previously_finished,
    engine_reports,     \* how often the engine has reported a request finished
    freed,              \* how often get_finished has returned it
    loads_finished      \* retrieves get_finished has returned

engine_vars == <<engine_reports, freed, loads_finished>>
worker_side == <<store_futures, retrieve_futures, error_block_ids, errors_taken, finished_stores, previously_finished>>
mpw_vars == <<worker_healthy, registered, store_ops, retrieve_op, worker_side, engine_vars>>

MPWInit ==
    /\ worker_healthy = TRUE /\ registered = TRUE
    /\ store_ops = [r \in WorkerReqs |-> <<>>]
    /\ store_futures = [r \in WorkerReqs |-> Nothing]
    /\ retrieve_op = [r \in WorkerReqs |-> "none"]
    /\ retrieve_futures = {}
    /\ error_block_ids = {} /\ errors_taken = {}
    /\ finished_stores = {} /\ previously_finished = {}
    /\ engine_reports = [r \in WorkerReqs |-> 0]
    /\ freed = [r \in WorkerReqs |-> 0]
    /\ loads_finished = {}

\* ---------------------------------------------------------------- requests

\* A later STORE of the same request replaces the future of the earlier one.
submit_store_request(r) ==
    LET n == Cardinality(DOMAIN store_ops[r]) + 1
    IN  /\ worker_healthy
        /\ n <= MaxStores /\ engine_reports[r] = 0
        /\ store_ops' = [store_ops EXCEPT ![r] = [i \in 1..n |-> IF i = n THEN "working" ELSE @[i]]]
        /\ store_futures' = [store_futures EXCEPT ![r] = n]
        /\ UNCHANGED <<worker_healthy, registered, retrieve_op, retrieve_futures, error_block_ids,
                       errors_taken, finished_stores, previously_finished, engine_vars>>

submit_retrieve_request(r) ==
    /\ retrieve_op[r] = "none" /\ engine_reports[r] = 0
    /\ IF worker_healthy
           THEN /\ retrieve_op' = [retrieve_op EXCEPT ![r] = "working"]
                /\ retrieve_futures' = retrieve_futures \cup {r}
                /\ UNCHANGED error_block_ids
           ELSE /\ retrieve_op' = [retrieve_op EXCEPT ![r] = "refused"]
                /\ error_block_ids' = error_block_ids \cup {r}
                /\ UNCHANGED retrieve_futures
    /\ UNCHANGED <<worker_healthy, registered, store_ops, store_futures, errors_taken, finished_stores,
                   previously_finished, engine_vars>>

\* ---------------------------------------------------------------- the server

\* A handler that raises answers nothing, and without the KV caches it always raises.
Answers == IF registered THEN {"ok", "failed", "dropped"} ELSE {"dropped"}

\* STOREs run on one stream: the event of a later one follows the earlier ones.
server_stores(r, i, state) ==
    /\ i \in DOMAIN store_ops[r] /\ store_ops[r][i] = "working"
    /\ \A j \in 1..(i - 1) : store_ops[r][j] # "working"
    /\ state \in Answers
    /\ store_ops' = [store_ops EXCEPT ![r][i] = state]
    /\ UNCHANGED <<worker_healthy, registered, retrieve_op, worker_side, engine_vars>>

server_retrieves(r, state) ==
    /\ retrieve_op[r] = "working"
    /\ state \in Answers
    /\ retrieve_op' = [retrieve_op EXCEPT ![r] = state]
    /\ UNCHANGED <<worker_healthy, registered, store_ops, worker_side, engine_vars>>

server_restarts ==
    /\ registered
    /\ registered' = FALSE
    /\ store_ops' = [r \in WorkerReqs |-> [i \in DOMAIN store_ops[r] |->
                        IF store_ops[r][i] = "working" THEN "dropped" ELSE store_ops[r][i]]]
    /\ retrieve_op' = [r \in WorkerReqs |-> IF retrieve_op[r] = "working" THEN "dropped" ELSE retrieve_op[r]]
    /\ UNCHANGED <<worker_healthy, worker_side, engine_vars>>

\* HeartbeatThread._execute: a PING is answered in time or it is not.
worker_heartbeat ==
    /\ worker_healthy' = ~worker_healthy
    /\ UNCHANGED <<registered, store_ops, retrieve_op, worker_side, engine_vars>>

\* ---------------------------------------------------------------- get_finished

answered == {"ok", "failed"}

\* Futures that are done; once the server is unhealthy, all of them.
StoresDone ==
    {r \in WorkerReqs : store_futures[r] # Nothing /\
        (worker_healthy => store_ops[r][store_futures[r]] \in answered)}

RetrievesDone == {r \in retrieve_futures : worker_healthy => retrieve_op[r] \in answered}

\* Mutant: retrieves given up are forgotten.
GivenUp_forgotten == {}

GivenUp == IF worker_healthy THEN {} ELSE retrieve_futures

\* _process_finished_stores: a request is held back while its store is under way.
ReturnedStores(reported, done, kept) ==
    LET seen == finished_stores \cup done
        held == {r \in reported : r \in seen \/ kept[r] # Nothing}
    IN  [now |-> reported \ held,
         safe |-> seen \cap (previously_finished \cup held),
         finished |-> seen \ (previously_finished \cup held),
         previously |-> (previously_finished \cup held) \ seen]

\* The engine reports requests; under async scheduling a request can come more than once.
get_finished(reported) ==
    LET kept == [r \in WorkerReqs |-> IF r \in StoresDone THEN Nothing ELSE store_futures[r]]
        ret == ReturnedStores(reported, StoresDone, kept)
    IN  /\ \A r \in reported : engine_reports[r] < MaxRepeats
        /\ reported # {} \/ StoresDone \cup RetrievesDone # {}
        /\ store_futures' = kept
        /\ retrieve_futures' = retrieve_futures \ RetrievesDone
        /\ error_block_ids' = error_block_ids \cup GivenUp
        /\ finished_stores' = ret.finished
        /\ previously_finished' = ret.previously
        /\ engine_reports' = [r \in WorkerReqs |-> engine_reports[r] + (IF r \in reported THEN 1 ELSE 0)]
        /\ freed' = [r \in WorkerReqs |-> freed[r] + (IF r \in ret.now \cup ret.safe THEN 1 ELSE 0)]
        /\ loads_finished' = loads_finished \cup RetrievesDone
        /\ UNCHANGED <<worker_healthy, registered, store_ops, retrieve_op, errors_taken>>

get_block_ids_with_load_errors ==
    /\ error_block_ids # {}
    /\ errors_taken' = errors_taken \cup error_block_ids
    /\ error_block_ids' = {}
    /\ UNCHANGED <<worker_healthy, registered, store_ops, retrieve_op, store_futures, retrieve_futures,
                   finished_stores, previously_finished, engine_vars>>

MPWNext ==
    \/ \E r \in WorkerReqs : submit_store_request(r) \/ submit_retrieve_request(r)
    \/ \E r \in WorkerReqs, i \in 1..MaxStores, state \in answered \cup {"dropped"} : server_stores(r, i, state)
    \/ \E r \in WorkerReqs, state \in answered \cup {"dropped"} : server_retrieves(r, state)
    \/ server_restarts
    \/ worker_heartbeat
    \/ \E reported \in SUBSET WorkerReqs : get_finished(reported)
    \/ get_block_ids_with_load_errors

MPWSpec == MPWInit /\ [][MPWNext]_mpw_vars

-----------------------------------------------------------------------------

(***************************************************************************)
(* vLLM never computes on blocks the adapter gave up loading: a retrieve   *)
(* reported finished without an answer of the server has its blocks        *)
(* reported as not loaded (get_finished, get_block_ids_with_load_errors).  *)
(***************************************************************************)
UnansweredLoadsReported ==
    \A r \in loads_finished : retrieve_op[r] \notin answered => r \in error_block_ids \cup errors_taken

(***************************************************************************)
(* Known limits.  What the code or its docs say and the code does not keep *)
(* (README, Known limits); no run checks these.                            *)
(***************************************************************************)

(***************************************************************************)
(* The requests returned are the "safe finished store request ids": when   *)
(* the server is healthy none of them has a STORE reading its blocks       *)
(* (_process_finished_stores, _update_and_get_finished_store).             *)
(***************************************************************************)
SafeToFree ==
    [][worker_healthy => \A r \in WorkerReqs : freed'[r] > freed[r] =>
          \A i \in DOMAIN store_ops[r] : store_ops[r][i] # "working"]_mpw_vars

(***************************************************************************)
(* "only return the request IDs that have not been returned before"        *)
(* (get_finished).                                                         *)
(***************************************************************************)
ReturnedOnce == \A r \in WorkerReqs : freed[r] <= 1
=============================================================================
