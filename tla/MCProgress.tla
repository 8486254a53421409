----------------------------- MODULE MCProgress -----------------------------
(***************************************************************************)
(* Components with a promise to keep under fairness, each on an instance   *)
(* of its own.  A behaviour runs one of them, under the fairness of that   *)
(* component (restated here for the component that runs); the others stay  *)
(* in an initial state.                                                    *)
(***************************************************************************)
EXTENDS LookupJobs, FullSync, HealthMonitor, L1Cache

CONSTANTS
    j1, j2,
    MaxReadHolds    \* bound on the read locks of one L1 key

VARIABLE unit

\* j1: one precision for the whole prompt.  j2: a prompt with a full-precision
\* head and a base-tier tail.
MCSpanEnds == [j \in Jobs |-> IF j = j1 THEN <<2>> ELSE <<2, 3>>]

MCWorldSize == [j \in Jobs |-> IF j = j1 THEN 1 ELSE 2]

\* Every policy and kind of connector; an operator who switches the hot cache
\* where the fallback does, too.
MCHealthSetups ==
    [policy : {"LOCAL_CPU", "RECOMPUTE"}, hot : BOOLEAN, ping : BOOLEAN, toggles : {0}]
    \cup [policy : {"LOCAL_CPU"}, hot : BOOLEAN, ping : {TRUE}, toggles : {1}]

ProgressInit ==
    /\ unit \in {"jobs", "sync", "health", "l1"}
    /\ JobsInit /\ SyncInit /\ HealthInit /\ CacheInit
    /\ unit # "sync" => hot_cache = {} /\ peers_ready = Peers
    /\ unit # "health" => hm_setup = (CHOOSE s \in HealthSetups : TRUE)

JobsStep ==
    /\ unit = "jobs" /\ JobsNext
    /\ UNCHANGED <<unit, sync_vars, hm_vars, cache_vars>>

SyncStep ==
    /\ unit = "sync" /\ SyncNext
    /\ UNCHANGED <<unit, job_vars, hm_vars, cache_vars>>

HealthStep ==
    /\ unit = "health" /\ HealthNext
    /\ UNCHANGED <<unit, job_vars, sync_vars, cache_vars>>

CacheStep ==
    /\ unit = "l1" /\ CacheNext /\ \A k \in Keys : read_lock'[k] <= MaxReadHolds
    /\ UNCHANGED <<unit, job_vars, sync_vars, hm_vars>>

ProgressNext == JobsStep \/ SyncStep \/ HealthStep \/ CacheStep

progress_vars == <<unit, job_vars, sync_vars, hm_vars, cache_vars>>

JobsFair ==
    \A j \in Jobs :
        /\ WF_job_vars(unit = "jobs" /\ SubmitSpan(j))
        /\ WF_job_vars(unit = "jobs" /\ PollSpan(j))
        /\ \A i \in Index(j) : WF_job_vars(unit = "jobs" /\ RequestCompletes(j, i))

SyncFair ==
    /\ WF_sync_vars(unit = "sync" /\ SenderStep)
    /\ WF_sync_vars(unit = "sync" /\ ControllerStep)
    /\ WF_sync_vars(unit = "sync" /\ \E answered \in BOOLEAN : heartbeat(answered))

HealthFair ==
    /\ WF_hm_vars(unit = "health" /\ MonitorStep)
    /\ SF_hm_vars(unit = "health" /\ put_and_get_check)
    /\ WF_hm_vars(unit = "health" /\ window_passes)
    /\ WF_hm_vars(unit = "health" /\ store_admits)
    /\ WF_hm_vars(unit = "health" /\ store_inserts)
    /\ WF_hm_vars(unit = "health" /\ reader_returns)

CacheFair == WF_cache_vars(unit = "l1" /\ EvictionLoop)

ProgressSpec == ProgressInit /\ [][ProgressNext]_progress_vars
                /\ JobsFair /\ SyncFair /\ HealthFair /\ CacheFair
=============================================================================
