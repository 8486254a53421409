----------------------------- MODULE MPScheduler -----------------------------
(***************************************************************************)
(* LMCacheMPSchedulerAdapter, which runs in the vLLM scheduler: it sends   *)
(* LOOKUP, polls QUERY_PREFETCH_STATUS and gives the locks of a lookup     *)
(* back (vllm_multi_process_adapter.py).  A call that is not answered in   *)
(* time marks the server unhealthy; the server may still execute it.  The  *)
(* server keeps a job per LOOKUP until its result has been fetched, and    *)
(* read locks until they are retrieved or given back (server.py).          *)
(***************************************************************************)
EXTENDS Integers, FiniteSets

CONSTANTS
    SchedReqs,
    MaxJobs,        \* bound: LOOKUPs the server executes
    MaxServerRuns   \* bound: 1 + restarts of the server

NoCall == [type |-> "none", req |-> "none", job |-> 0]

VARIABLES
    sched_healthy,      \* _health_event
    lookup_job_ids,     \* _lookup_job_ids: 0 is no entry
    finished_lookups,   \* keys of _finished_lookup_jobs
    call,               \* the call the scheduler thread is blocked in
    late_calls,         \* calls that timed out and that the server has not executed
    matched,            \* requests the scheduler has been told a match for
    degraded,           \* requests that met a timeout or an unhealthy server
    sched_done,         \* requests that have ended
    server_run,
    server_jobs,        \* prefetch jobs: request, and whether all spans are loaded
    last_job,
    server_locks        \* LOOKUPs whose read locks are held: job -> request

sched_side == <<sched_healthy, lookup_job_ids, finished_lookups, matched, degraded, sched_done>>
server_side == <<server_run, server_jobs, last_job, server_locks>>
mps_vars == <<sched_side, call, late_calls, server_side>>

MPSInit ==
    /\ sched_healthy = TRUE
    /\ lookup_job_ids = [r \in SchedReqs |-> 0]
    /\ finished_lookups = {} /\ matched = {} /\ degraded = {} /\ sched_done = {}
    /\ call = NoCall /\ late_calls = {}
    /\ server_run = 1
    /\ server_jobs = {} /\ last_job = 0 /\ server_locks = {}

Idle(r) == call = NoCall /\ r \notin sched_done

\* ---------------------------------------------------------------- the scheduler adapter

\* Mutant: a request that is scheduled again is looked up again.
maybe_submit_lookup_request_again(r) ==
    /\ Idle(r) /\ sched_healthy
    /\ r \notin matched
    /\ call' = [type |-> "lookup", req |-> r, job |-> 0]
    /\ UNCHANGED <<sched_side, late_calls, server_side>>

maybe_submit_lookup_request(r) ==
    /\ Idle(r) /\ sched_healthy
    /\ r \notin matched /\ lookup_job_ids[r] = 0
    /\ call' = [type |-> "lookup", req |-> r, job |-> 0]
    /\ UNCHANGED <<sched_side, late_calls, server_side>>

\* check_lookup_result asks the server about a job it has no result of.
check_lookup_result(r) ==
    /\ Idle(r) /\ sched_healthy
    /\ lookup_job_ids[r] # 0 /\ lookup_job_ids[r] \notin finished_lookups
    /\ call' = [type |-> "query", req |-> r, job |-> lookup_job_ids[r]]
    /\ UNCHANGED <<sched_side, late_calls, server_side>>

\* With an unhealthy server the job is dropped and the answer is 0.
check_unhealthy(r) ==
    /\ Idle(r) /\ ~sched_healthy /\ lookup_job_ids[r] # 0
    /\ lookup_job_ids' = [lookup_job_ids EXCEPT ![r] = 0]
    /\ degraded' = degraded \cup {r}
    /\ UNCHANGED <<sched_healthy, finished_lookups, matched, sched_done, call, late_calls, server_side>>

call_times_out ==
    /\ call # NoCall
    /\ sched_healthy' = FALSE
    /\ degraded' = degraded \cup {call.req}
    /\ lookup_job_ids' = [lookup_job_ids EXCEPT ![call.req] = IF call.type = "query" THEN 0 ELSE @]
    /\ late_calls' = late_calls \cup {call}
    /\ call' = NoCall
    /\ UNCHANGED <<finished_lookups, matched, sched_done, server_side>>

sched_heartbeat ==
    /\ sched_healthy' = ~sched_healthy
    /\ UNCHANGED <<lookup_job_ids, finished_lookups, matched, degraded, sched_done, call, late_calls, server_side>>

\* The request ends: the locks of a match were used by a retrieve or are given back
\* (free_lookup_locks), then cleanup_lookup_result.  Nothing is sent to an unhealthy server,
\* and a lookup still being polled has no match to give back.
request_ends(r) ==
    /\ Idle(r)
    /\ sched_done' = sched_done \cup {r}
    /\ finished_lookups' = finished_lookups \ {lookup_job_ids[r]}
    /\ lookup_job_ids' = [lookup_job_ids EXCEPT ![r] = 0]
    /\ IF sched_healthy /\ r \in matched
           THEN server_locks' = {l \in server_locks : l.req # r} /\ UNCHANGED degraded
           ELSE degraded' = degraded \cup {r} /\ UNCHANGED server_locks
    /\ UNCHANGED <<sched_healthy, matched, call, late_calls, server_run, server_jobs, last_job>>

\* ---------------------------------------------------------------- the server

Current(m) == m = call

\* lookup: a job and its read locks; the client records the job if it still waits for it.
server_lookup(m) ==
    /\ m \in late_calls \cup {call} /\ m.type = "lookup" /\ last_job < MaxJobs
    /\ last_job' = last_job + 1
    /\ server_jobs' = server_jobs \cup {[job |-> last_job + 1, req |-> m.req, loaded |-> FALSE]}
    /\ server_locks' = server_locks \cup {[job |-> last_job + 1, req |-> m.req]}
    /\ lookup_job_ids' = IF Current(m) THEN [lookup_job_ids EXCEPT ![m.req] = last_job + 1] ELSE lookup_job_ids
    /\ call' = IF Current(m) THEN NoCall ELSE call
    /\ late_calls' = late_calls \ {m}
    /\ UNCHANGED <<sched_healthy, finished_lookups, matched, degraded, sched_done, server_run>>

prefetch_done(j) ==
    /\ j \in server_jobs /\ ~j.loaded
    /\ server_jobs' = (server_jobs \ {j}) \cup {[j EXCEPT !.loaded = TRUE]}
    /\ UNCHANGED <<sched_side, call, late_calls, server_run, last_job, server_locks>>

\* query_prefetch_status: a finished job is forgotten with its answer; None otherwise.
server_query(m) ==
    LET ready == {j \in server_jobs : j.job = m.job /\ j.loaded}
    IN  /\ m \in late_calls \cup {call} /\ m.type = "query"
        /\ server_jobs' = server_jobs \ ready
        /\ finished_lookups' = IF Current(m) /\ ready # {} THEN finished_lookups \cup {m.job} ELSE finished_lookups
        /\ matched' = IF Current(m) /\ ready # {} THEN matched \cup {m.req} ELSE matched
        /\ call' = IF Current(m) THEN NoCall ELSE call
        /\ late_calls' = late_calls \ {m}
        /\ UNCHANGED <<sched_healthy, lookup_job_ids, degraded, sched_done, server_run, last_job, server_locks>>

scheduler_server_restarts ==
    /\ server_run < MaxServerRuns
    /\ server_run' = server_run + 1
    /\ server_jobs' = {} /\ server_locks' = {}
    /\ late_calls' = {}
    /\ UNCHANGED <<sched_side, call, last_job>>

MPSNext ==
    \/ \E r \in SchedReqs : \/ maybe_submit_lookup_request(r) \/ check_lookup_result(r)
                            \/ check_unhealthy(r) \/ request_ends(r)
    \/ call_times_out
    \/ sched_heartbeat
    \/ \E m \in late_calls \cup {call} : server_lookup(m) \/ server_query(m)
    \/ \E j \in server_jobs : prefetch_done(j)
    \/ scheduler_server_restarts

MPSSpec == MPSInit /\ [][MPSNext]_mps_vars

-----------------------------------------------------------------------------

(***************************************************************************)
(* Read locks taken for a lookup are lost to their time-to-live only when  *)
(* the request met a timeout, an unhealthy server, or ended before its     *)
(* answer: otherwise the scheduler still names the job that holds them     *)
(* (maybe_submit_lookup_request, check_lookup_result, free_lookup_locks).  *)
(***************************************************************************)
OrphanedLocksExplained ==
    \A l \in server_locks : lookup_job_ids[l.req] = l.job \/ l.req \in degraded
=============================================================================
