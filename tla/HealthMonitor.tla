---------------------------- MODULE HealthMonitor ----------------------------
(***************************************************************************)
(* HealthMonitor (health_monitor/base.py) with its one kind of check,      *)
(* RemoteBackendHealthCheck, beside the stores and retrieves that share    *)
(* the local CPU memory with it and an operator who calls set_hot_cache.   *)
(* Under RECOMPUTE a failed check makes the engine skip the cache; under   *)
(* LOCAL_CPU the remote backend is bypassed and the hot cache switched on  *)
(* until the check passes again.                                           *)
(*                                                                         *)
(* The CPU memory is a number of equal buffers: `hot' of them belong to    *)
(* the hot cache, `used' of those are being read and cannot be evicted.    *)
(***************************************************************************)
EXTENDS Integers

CONSTANTS
    Capacity,           \* buffers of the CPU memory
    Threshold,          \* get_blocking_failed_threshold
    HealthSetups        \* fallback policy, the configured use_hot, support_ping, operator toggles

ASSUME HealthAssumption == \A s \in HealthSetups : s.hot \in BOOLEAN

VARIABLES
    hm_setup,
    remote_up, connection,
    failures,           \* failed gets since the last check, capped at Threshold
    failure_time,       \* none, fresh (inside the recovery window) or old
    previous_status,    \* _previous_check_status of the check
    hm_healthy,
    hm_pc,              \* where the monitor thread is
    backend_bypassed,   \* StorageManager._bypassed_backends
    recorded,           \* HealthMonitor._bypassed_backends
    original_hot,       \* _original_hot_cache: none, on or off
    use_hot, hot, used,
    putting,            \* the store in progress
    toggling, toggles   \* set_hot_cache(False) between clear and the flag; calls so far

check_vars == <<failures, failure_time, connection>>
bypass_vars == <<backend_bypassed, recorded, original_hot>>
memory_vars == <<hot, used, putting>>
operator_vars == <<toggling, toggles>>
hm_vars == <<hm_setup, remote_up, check_vars, previous_status, hm_healthy, hm_pc, bypass_vars,
             use_hot, memory_vars, operator_vars>>

HealthInit ==
    /\ hm_setup \in HealthSetups
    /\ remote_up = TRUE /\ connection = TRUE
    /\ failures = 0 /\ failure_time = "none"
    /\ previous_status = TRUE /\ hm_healthy = TRUE
    /\ hm_pc = "idle"
    /\ backend_bypassed = FALSE /\ recorded = FALSE /\ original_hot = "none"
    /\ use_hot = hm_setup.hot
    /\ hot = 0 /\ used = 0 /\ putting = "none"
    /\ toggling = FALSE /\ toggles = 0

\* ---------------------------------------------------------------- the CPU memory

FreeBuffers == Capacity - hot - (IF putting = "none" THEN 0 ELSE 1)

\* LocalCPUBackend.allocate: without a free buffer it waits for something it may evict, and
\* it may evict only while the hot cache is on.
CanAllocate == FreeBuffers > 0 \/ (use_hot /\ hot > used)
HotAfterAllocate == IF FreeBuffers > 0 THEN hot ELSE hot - 1

\* LocalCPUBackend.clear does nothing when the hot cache is off.
HotAfterClear == IF use_hot THEN used ELSE hot

store_allocates ==
    /\ hm_healthy /\ putting = "none" /\ CanAllocate
    /\ hot' = HotAfterAllocate
    /\ putting' = "allocated"
    /\ UNCHANGED <<hm_setup, remote_up, check_vars, previous_status, hm_healthy, hm_pc,
                   bypass_vars, use_hot, used, operator_vars>>

\* batched_submit_put_task looks at use_hot once, then inserts.
store_admits ==
    /\ putting = "allocated"
    /\ putting' = IF use_hot THEN "admitted" ELSE "none"
    /\ UNCHANGED <<hm_setup, remote_up, check_vars, previous_status, hm_healthy, hm_pc,
                   bypass_vars, use_hot, hot, used, operator_vars>>

store_inserts ==
    /\ putting = "admitted"
    /\ putting' = "none" /\ hot' = hot + 1
    /\ UNCHANGED <<hm_setup, remote_up, check_vars, previous_status, hm_healthy, hm_pc,
                   bypass_vars, use_hot, used, operator_vars>>

reader_takes ==
    /\ hm_healthy /\ used < hot
    /\ used' = used + 1
    /\ UNCHANGED <<hm_setup, remote_up, check_vars, previous_status, hm_healthy, hm_pc,
                   bypass_vars, use_hot, hot, putting, operator_vars>>

reader_returns ==
    /\ used > 0
    /\ used' = used - 1
    /\ UNCHANGED <<hm_setup, remote_up, check_vars, previous_status, hm_healthy, hm_pc,
                   bypass_vars, use_hot, hot, putting, operator_vars>>

\* A retrieve's get of the remote backend returns nothing: it is down, or the key is gone.
get_blocking_failed ==
    /\ hm_healthy /\ ~backend_bypassed /\ connection /\ failures < Threshold
    /\ failures' = failures + 1
    /\ UNCHANGED <<hm_setup, remote_up, failure_time, connection, previous_status, hm_healthy,
                   hm_pc, bypass_vars, use_hot, memory_vars, operator_vars>>

\* ---------------------------------------------------------------- the operator

set_hot_cache_on ==
    /\ toggles < hm_setup.toggles /\ ~toggling
    /\ toggles' = toggles + 1 /\ use_hot' = TRUE
    /\ UNCHANGED <<hm_setup, remote_up, check_vars, previous_status, hm_healthy, hm_pc,
                   bypass_vars, memory_vars, toggling>>

set_hot_cache_clears ==
    /\ toggles < hm_setup.toggles /\ ~toggling
    /\ toggles' = toggles + 1 /\ toggling' = TRUE
    /\ hot' = HotAfterClear
    /\ UNCHANGED <<hm_setup, remote_up, check_vars, previous_status, hm_healthy, hm_pc,
                   bypass_vars, use_hot, used, putting>>

set_hot_cache_off ==
    /\ toggling
    /\ toggling' = FALSE /\ use_hot' = FALSE
    /\ UNCHANGED <<hm_setup, remote_up, check_vars, previous_status, hm_healthy, hm_pc,
                   bypass_vars, memory_vars, toggles>>

\* ---------------------------------------------------------------- the check

remote_changes ==
    /\ remote_up' = ~remote_up
    /\ connection' \in (IF remote_up THEN {connection, FALSE} ELSE {connection})
    /\ UNCHANGED <<hm_setup, failures, failure_time, previous_status, hm_healthy, hm_pc,
                   bypass_vars, use_hot, memory_vars, operator_vars>>

window_passes ==
    /\ failure_time = "fresh"
    /\ failure_time' = "old"
    /\ UNCHANGED <<hm_setup, remote_up, failures, connection, previous_status, hm_healthy,
                   hm_pc, bypass_vars, use_hot, memory_vars, operator_vars>>

\* _try_reinitialize_connection, then the recovery window.
check_connection ==
    /\ hm_pc = "idle"
    /\ connection' = (connection \/ remote_up)
    /\ hm_pc' = IF ~connection' THEN "failed"
                ELSE CASE failure_time = "none" -> "count"
                       [] failure_time = "fresh" -> "failed"
                       [] failure_time = "old" -> "probe"
    /\ UNCHANGED <<hm_setup, remote_up, failures, failure_time, previous_status, hm_healthy,
                   bypass_vars, use_hot, memory_vars, operator_vars>>

\* CreateConnector raises IrrecoverableException: unhealthy, and the thread ends.
check_irrecoverable ==
    /\ hm_pc = "idle" /\ ~connection /\ ~remote_up
    /\ hm_pc' = "ended" /\ hm_healthy' = FALSE
    /\ UNCHANGED <<hm_setup, remote_up, check_vars, previous_status, bypass_vars, use_hot,
                   memory_vars, operator_vars>>

\* Its buffer comes from the memory the cache uses; a get that fails counts like any other.
put_and_get_check ==
    /\ hm_pc = "probe" /\ CanAllocate
    /\ hot' = HotAfterAllocate
    /\ failure_time' = IF remote_up THEN "none" ELSE failure_time
    /\ \/ remote_up /\ hm_pc' = "count" /\ UNCHANGED failures
       \/ ~remote_up /\ hm_pc' = "failed" /\ failures' \in {failures, IF failures < Threshold THEN failures + 1 ELSE failures}
    /\ UNCHANGED <<hm_setup, remote_up, connection, previous_status, hm_healthy, bypass_vars,
                   use_hot, used, putting, operator_vars>>

\* Mutant: the last count is not remembered, so old failures count again.
failures_left_all == failures

failures_left == 0

\* The failed gets since the last count, then the ping if the connector has one.
check_failures ==
    /\ hm_pc = "count"
    /\ failures' = failures_left
    /\ failure_time' = IF failures >= Threshold THEN "fresh" ELSE failure_time
    /\ hm_pc' = IF failures >= Threshold \/ (hm_setup.ping /\ ~remote_up) THEN "failed" ELSE "passed"
    /\ UNCHANGED <<hm_setup, remote_up, connection, previous_status, hm_healthy, bypass_vars,
                   use_hot, memory_vars, operator_vars>>

\* ---------------------------------------------------------------- the fallback

HotSetting == IF use_hot THEN "on" ELSE "off"

\* Mutant: the setting is saved at every failure, not at the first one only.
saved_original_always == HotSetting

saved_original == IF recorded THEN original_hot ELSE HotSetting

check_failed ==
    /\ hm_pc = "failed"
    /\ previous_status' = FALSE
    /\ \/ /\ hm_setup.policy = "RECOMPUTE"
          /\ hm_healthy' = FALSE /\ hm_pc' = "idle"
          /\ UNCHANGED bypass_vars
       \/ /\ hm_setup.policy = "LOCAL_CPU"
          /\ original_hot' = saved_original
          /\ backend_bypassed' = TRUE
          /\ hm_pc' = IF recorded THEN "idle" ELSE "enable_hot"
          /\ UNCHANGED <<recorded, hm_healthy>>
    /\ UNCHANGED <<hm_setup, remote_up, check_vars, use_hot, memory_vars, operator_vars>>

fallback_enables_hot ==
    /\ hm_pc = "enable_hot"
    /\ use_hot' = TRUE /\ recorded' = TRUE
    /\ hm_pc' = "idle"
    /\ UNCHANGED <<hm_setup, remote_up, check_vars, previous_status, hm_healthy,
                   backend_bypassed, original_hot, memory_vars, operator_vars>>

\* Recovery: only after a failure, and only what this check has bypassed.
check_passed ==
    /\ hm_pc = "passed"
    /\ previous_status' = TRUE /\ hm_healthy' = TRUE
    /\ IF ~previous_status /\ recorded
         THEN backend_bypassed' = FALSE /\ recorded' = FALSE /\ hm_pc' = "restore_hot"
         ELSE hm_pc' = "idle" /\ UNCHANGED <<backend_bypassed, recorded>>
    /\ UNCHANGED <<hm_setup, remote_up, check_vars, original_hot, use_hot, memory_vars, operator_vars>>

recovery_restores_hot ==
    /\ hm_pc = "restore_hot"
    /\ use_hot' = (original_hot = "on")
    /\ hm_pc' = IF original_hot = "off" THEN "clear_hot" ELSE "idle"
    /\ original_hot' = IF original_hot = "off" THEN original_hot ELSE "none"
    /\ UNCHANGED <<hm_setup, remote_up, check_vars, previous_status, hm_healthy,
                   backend_bypassed, recorded, memory_vars, operator_vars>>

recovery_clears ==
    /\ hm_pc = "clear_hot"
    /\ hot' = HotAfterClear
    /\ original_hot' = "none" /\ hm_pc' = "idle"
    /\ UNCHANGED <<hm_setup, remote_up, check_vars, previous_status, hm_healthy,
                   backend_bypassed, recorded, use_hot, used, putting, operator_vars>>

MonitorStep ==
    \/ check_connection \/ put_and_get_check \/ check_failures \/ check_failed
    \/ fallback_enables_hot \/ check_passed \/ recovery_restores_hot \/ recovery_clears

HealthNext ==
    \/ store_allocates \/ store_admits \/ store_inserts
    \/ reader_takes \/ reader_returns \/ get_blocking_failed
    \/ set_hot_cache_on \/ set_hot_cache_clears \/ set_hot_cache_off
    \/ remote_changes \/ window_passes \/ check_irrecoverable
    \/ MonitorStep

\* The periodic thread runs, time passes, and what has begun ends.  The probe's allocation
\* retries for as long as it takes, so memory that is free again and again is found free.
HealthFairness ==
    /\ WF_hm_vars(MonitorStep) /\ SF_hm_vars(put_and_get_check)
    /\ WF_hm_vars(window_passes)
    /\ WF_hm_vars(store_admits) /\ WF_hm_vars(store_inserts) /\ WF_hm_vars(reader_returns)

HealthSpec == HealthInit /\ [][HealthNext]_hm_vars /\ HealthFairness

\* ---------------------------------------------------------------- properties

\* However often the remote backend fails and recovers, and whatever the check fails on, the
\* hot cache ends with the setting it was configured with once nothing is bypassed
\* (_apply_local_cpu_fallback saves it once, _recover_from_local_cpu_fallback restores it).
HotSettingRestored ==
    (hm_pc \in {"idle", "clear_hot"} /\ ~recorded /\ toggles = 0) => use_hot = hm_setup.hot

\* A remote backend that stays up is used again: the check gets past its recovery window, its
\* own probe (which competes for the memory) and the failures its probes added, and the
\* fallback or the unhealthy state ends.
RecoveryReached ==
    (<>[]remote_up /\ [](toggles = 0)) => []<>((hm_healthy /\ ~backend_bypassed) \/ hm_pc = "ended")

\* _recover_from_local_cpu_fallback: "Clear hot_cache if it was originally disabled".
HotCacheCleared == [][hm_pc = "clear_hot" /\ hm_pc' = "idle" => hot' = used]_hm_vars
=============================================================================
