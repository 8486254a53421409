--------------------------- MODULE ProtocolProofs ---------------------------
(***************************************************************************)
(* The protocols around the caches, each between two parties that fail     *)
(* independently.  The modules share no state; each has an inductive       *)
(* invariant of its own.                                                   *)
(*                                                                         *)
(* The multi-process adapter and the lookups it asks for: the worker and   *)
(* the scheduler half, for any set of requests and any number of lookups,  *)
(* timeouts and server restarts, and the server's prefetch jobs, for any   *)
(* spans and any number of keys to a chunk.                                *)
(*                                                                         *)
(* The two protocols that run beside the data path: the health monitor's   *)
(* fallback, for any threshold, memory and sequence of failures, and the   *)
(* cache controller's full sync, for any set of keys and any number of     *)
(* retries, syncs and faults.                                              *)
(***************************************************************************)
EXTENDS MPWorker, MPScheduler, LookupJobs, HealthMonitor, FullSync, SequenceTheorems,
        NaturalsInduction, WellFoundedInduction, TLAPS

----------------------------------------------------------------------------
\* The worker adapter.

RetrieveStates == {"none", "working", "refused", "ok", "failed", "dropped"}

\* A retrieve that has a future, or that vLLM was told is finished, was submitted:
\* it is not submitted a second time under the state the first one left.
SubmittedRetrieves ==
    retrieve_futures \cup loads_finished \subseteq {r \in WorkerReqs : retrieve_op[r] # "none"}

WorkerInv ==
    /\ retrieve_op \in [WorkerReqs -> RetrieveStates]
    /\ SubmittedRetrieves
    /\ UnansweredLoadsReported

\* Reporting: a retrieve taken off the futures was answered, or is given up and
\* its blocks go to error_block_ids in the same call.
LEMMA GetFinishedReports ==
    ASSUME WorkerInv, NEW reported \in SUBSET WorkerReqs, get_finished(reported)
    PROVE  WorkerInv'
<1>1. /\ retrieve_futures' = retrieve_futures \ RetrievesDone
      /\ error_block_ids' = error_block_ids \cup GivenUp
      /\ loads_finished' = loads_finished \cup RetrievesDone
      /\ UNCHANGED <<retrieve_op, errors_taken>>
  BY DEF get_finished
<1>2. SubmittedRetrieves'
  BY <1>1 DEF WorkerInv, SubmittedRetrieves, RetrievesDone
<1>3. ASSUME NEW r \in RetrievesDone, retrieve_op[r] \notin answered
      PROVE  r \in GivenUp
  BY <1>3 DEF RetrievesDone, GivenUp
<1>4. UnansweredLoadsReported'
  BY <1>1, <1>3 DEF WorkerInv, UnansweredLoadsReported, answered
<1>5. QED BY <1>1, <1>2, <1>4 DEF WorkerInv

LEMMA WorkerNextPreserves == WorkerInv /\ [MPWNext]_mpw_vars => WorkerInv'
<1> SUFFICES ASSUME WorkerInv, [MPWNext]_mpw_vars PROVE WorkerInv'
  OBVIOUS
<1> USE DEF WorkerInv, SubmittedRetrieves, UnansweredLoadsReported, answered,
            RetrieveStates, worker_side, engine_vars
<1>1. ASSUME NEW r \in WorkerReqs, submit_store_request(r)
      PROVE  WorkerInv'
  BY <1>1 DEF submit_store_request
<1>2. ASSUME NEW r \in WorkerReqs, submit_retrieve_request(r)
      PROVE  WorkerInv'
  BY <1>2 DEF submit_retrieve_request
<1>3. ASSUME NEW r \in WorkerReqs, NEW i \in 1..MaxStores,
             NEW state \in answered \cup {"dropped"}, server_stores(r, i, state)
      PROVE  WorkerInv'
  BY <1>3 DEF server_stores
<1>4. ASSUME NEW r \in WorkerReqs, NEW state \in answered \cup {"dropped"},
             server_retrieves(r, state)
      PROVE  WorkerInv'
  BY <1>4 DEF server_retrieves
<1>5. CASE server_restarts
  BY <1>5 DEF server_restarts
<1>6. CASE worker_heartbeat
  BY <1>6 DEF worker_heartbeat
<1>7. ASSUME NEW reported \in SUBSET WorkerReqs, get_finished(reported)
      PROVE  WorkerInv'
  BY <1>7, GetFinishedReports
<1>8. CASE get_block_ids_with_load_errors
  BY <1>8 DEF get_block_ids_with_load_errors
<1>9. CASE UNCHANGED mpw_vars
  BY <1>9 DEF mpw_vars
<1>10. QED BY <1>1, <1>2, <1>3, <1>4, <1>5, <1>6, <1>7, <1>8, <1>9 DEF MPWNext

\* Whatever the server answers, loses or forgets, and whenever the heartbeat
\* changes its mind, no load that was given up passes for a load that was done.
THEOREM LoadsReported == MPWSpec => []UnansweredLoadsReported
<1>1. MPWInit => WorkerInv
  BY DEF MPWInit, WorkerInv, SubmittedRetrieves, UnansweredLoadsReported, RetrieveStates
<1>2. WorkerInv => UnansweredLoadsReported
  BY DEF WorkerInv
<1>3. QED BY <1>1, <1>2, WorkerNextPreserves, PTL DEF MPWSpec

----------------------------------------------------------------------------
\* The scheduler adapter.

Calls == [type : {"lookup", "query"}, req : SchedReqs, job : Nat]

SchedTypeOK ==
    /\ lookup_job_ids \in [SchedReqs -> Nat]
    /\ last_job \in Nat
    /\ call \in Calls \cup {NoCall}
    /\ late_calls \subseteq Calls
    /\ server_locks \subseteq [job : Nat \ {0}, req : SchedReqs]

\* A lookup is sent for a request that names no job, and the scheduler thread
\* is blocked until it is answered or given up.
LookupHasNoJob == call # NoCall /\ call.type = "lookup" => lookup_job_ids[call.req] = 0

\* What the server executes after the client gave up was charged to the request.
LateCallsCharged == \A m \in late_calls : m.req \in degraded

SchedInv == SchedTypeOK /\ LookupHasNoJob /\ LateCallsCharged /\ OrphanedLocksExplained

LEMMA ServerLookupPreserves ==
    ASSUME SchedInv, NEW m \in late_calls \cup {call}, server_lookup(m)
    PROVE  SchedInv'
<1> DEFINE lock == [job |-> last_job + 1, req |-> m.req]
<1>1. m \in Calls /\ m.req \in SchedReqs /\ lock \in [job : Nat \ {0}, req : SchedReqs]
  BY DEF SchedInv, SchedTypeOK, server_lookup, NoCall, Calls
<1>2. SchedTypeOK'
  BY <1>1 DEF SchedInv, SchedTypeOK, server_lookup
<1>3. LookupHasNoJob'
  BY <1>1 DEF SchedInv, SchedTypeOK, LookupHasNoJob, server_lookup, Current
<1>4. LateCallsCharged'
  BY DEF SchedInv, LateCallsCharged, server_lookup
<1>5. lookup_job_ids'[m.req] = last_job + 1 \/ m.req \in degraded
  BY <1>1 DEF SchedInv, SchedTypeOK, LateCallsCharged, server_lookup, Current
<1>6. ASSUME NEW l \in server_locks
      PROVE  lookup_job_ids'[l.req] = l.job \/ l.req \in degraded
  <2>1. l.job # 0 /\ l.req \in SchedReqs
    BY DEF SchedInv, SchedTypeOK
  <2>2. CASE Current(m) /\ l.req = m.req
    <3>1. lookup_job_ids[l.req] = 0
      BY <1>1, <2>2 DEF SchedInv, LookupHasNoJob, server_lookup, Current, NoCall
    <3>2. QED BY <2>1, <3>1 DEF SchedInv, OrphanedLocksExplained
  <2>3. CASE ~(Current(m) /\ l.req = m.req)
    BY <2>1, <2>3 DEF SchedInv, SchedTypeOK, OrphanedLocksExplained, server_lookup
  <2>4. QED BY <2>2, <2>3
<1>7. OrphanedLocksExplained'
  BY <1>5, <1>6 DEF OrphanedLocksExplained, server_lookup
<1>8. QED BY <1>2, <1>3, <1>4, <1>7 DEF SchedInv

LEMMA CallTimesOutPreserves ==
    ASSUME SchedInv, call_times_out
    PROVE  SchedInv'
<1>1. call \in Calls /\ call.req \in SchedReqs
  BY DEF SchedInv, SchedTypeOK, call_times_out, Calls
<1>2. SchedTypeOK' /\ LookupHasNoJob'
  BY <1>1 DEF SchedInv, SchedTypeOK, LookupHasNoJob, call_times_out, server_side
<1>3. LateCallsCharged'
  BY DEF SchedInv, LateCallsCharged, call_times_out
<1>4. OrphanedLocksExplained'
  BY <1>1 DEF SchedInv, SchedTypeOK, OrphanedLocksExplained, call_times_out, server_side
<1>5. QED BY <1>2, <1>3, <1>4 DEF SchedInv

LEMMA RequestEndsPreserves ==
    ASSUME SchedInv, NEW r \in SchedReqs, request_ends(r)
    PROVE  SchedInv'
<1>1. SchedTypeOK' /\ LookupHasNoJob' /\ LateCallsCharged'
  BY DEF SchedInv, SchedTypeOK, LookupHasNoJob, LateCallsCharged, request_ends, Idle
<1>2. OrphanedLocksExplained'
  BY DEF SchedInv, SchedTypeOK, OrphanedLocksExplained, request_ends
<1>3. QED BY <1>1, <1>2 DEF SchedInv

LEMMA SchedNextPreserves == SchedInv /\ [MPSNext]_mps_vars => SchedInv'
<1> SUFFICES ASSUME SchedInv, [MPSNext]_mps_vars PROVE SchedInv'
  OBVIOUS
<1> USE DEF SchedInv, SchedTypeOK, LookupHasNoJob, LateCallsCharged, OrphanedLocksExplained,
            sched_side, server_side, Idle
<1>1. ASSUME NEW r \in SchedReqs, maybe_submit_lookup_request(r)
      PROVE  SchedInv'
  BY <1>1 DEF maybe_submit_lookup_request, Calls
<1>2. ASSUME NEW r \in SchedReqs, check_lookup_result(r)
      PROVE  SchedInv'
  BY <1>2 DEF check_lookup_result, Calls
<1>3. ASSUME NEW r \in SchedReqs, check_unhealthy(r)
      PROVE  SchedInv'
  BY <1>3 DEF check_unhealthy
<1>4. ASSUME NEW r \in SchedReqs, request_ends(r)
      PROVE  SchedInv'
  BY <1>4, RequestEndsPreserves
<1>5. CASE call_times_out
  BY <1>5, CallTimesOutPreserves
<1>6. CASE sched_heartbeat
  BY <1>6 DEF sched_heartbeat
<1>7. ASSUME NEW m \in late_calls \cup {call}, server_lookup(m)
      PROVE  SchedInv'
  BY <1>7, ServerLookupPreserves
<1>8. ASSUME NEW m \in late_calls \cup {call}, server_query(m)
      PROVE  SchedInv'
  BY <1>8 DEF server_query, Current
<1>9. ASSUME NEW j \in server_jobs, prefetch_done(j)
      PROVE  SchedInv'
  BY <1>9 DEF prefetch_done
<1>10. CASE scheduler_server_restarts
  BY <1>10 DEF scheduler_server_restarts
<1>11. CASE UNCHANGED mps_vars
  BY <1>11 DEF mps_vars
<1>12. QED BY <1>1, <1>2, <1>3, <1>4, <1>5, <1>6, <1>7, <1>8, <1>9, <1>10, <1>11 DEF MPSNext

\* However late the server executes a call, and however often it restarts, locks
\* whose job the scheduler no longer names belong to a request that met a
\* timeout, an unhealthy server, or ended before its answer.
THEOREM OrphansExplained == MPSSpec => []OrphanedLocksExplained
<1>1. MPSInit => SchedInv
  BY DEF MPSInit, SchedInv, SchedTypeOK, LookupHasNoJob, LateCallsCharged, OrphanedLocksExplained
<1>2. SchedInv => OrphanedLocksExplained
  BY DEF SchedInv
<1>3. QED BY <1>1, <1>2, SchedNextPreserves, PTL DEF MPSSpec

----------------------------------------------------------------------------
\* Lookup jobs.

JobStatuses == {"closed", "submitting", "registered", "polling", "answered"}
Handles == [l1 : Nat, l2 : L2States, hits : Nat]

JobsTypeOK ==
    /\ status \in [Jobs -> JobStatuses]
    /\ cursor \in [Jobs -> Nat] /\ \A j \in Jobs : cursor[j] \in Index(j)
    /\ found_count \in [Jobs -> Nat]
    /\ handle = [j \in Jobs |-> handle[j]] /\ \A j \in Jobs : handle[j] \in [Index(j) -> Handles]
    /\ locked = [j \in Jobs |-> locked[j]] /\ \A j \in Jobs : locked[j] \in [Index(j) -> Nat]

\* What a lookup locked is what its handle says it found.
FoundIsLocked(j, h, l) ==
    \A i \in Index(j) : /\ l[i] = h[i].l1 + h[i].hits /\ l[i] <= SpanKeys(j, i)
                        /\ h[i].l2 \in {"none", "pending"} => h[i].hits = 0

NonePending(h, S) == \A i \in S : h[i].l2 # "pending"

\* f counts the leading chunks found in the first n spans: those it covers were
\* found in full, and the one it ends in up to there.
CountsLeading(j, n, f, h) ==
    /\ f <= Start(j, n + 1)
    /\ \A i \in 1 .. n :
        /\ SpanEnds[j][i] <= f => HitCount(h[i], j, i) = ChunkCount(j, i)
        /\ Start(j, i) <= f /\ f < SpanEnds[j][i] => HitCount(h[i], j, i) = f - Start(j, i)

JobInv(j, s, h, c, f, l) ==
    /\ s # "closed" => FoundIsLocked(j, h, l)
    /\ s = "submitting" => \A i \in Index(j) : i >= c => h[i] = NoHandle
    /\ s \in {"submitting", "registered"} => f = 0
    /\ s = "registered" => c = 1
    /\ s = "polling" => NonePending(h, 1 .. (c - 1)) /\ CountsLeading(j, c - 1, f, h)
    /\ s \in {"answered", "closed"} => NonePending(h, Index(j))
    /\ s = "answered" => CountsLeading(j, LastSpan(j), f, h)
    /\ s = "closed" /\ LastSpan(j) = 1 /\ WorldSize[j] = 1 => l[1] = 0

JobsInv ==
    /\ JobsTypeOK
    /\ \A j \in Jobs : JobInv(j, status[j], handle[j], cursor[j], found_count[j], locked[j])

\* Spans follow each other.
LEMMA SpansInOrder ==
    ASSUME NEW j \in Jobs
    PROVE  /\ LastSpan(j) \in Nat /\ LastSpan(j) >= 1 /\ WorldSize[j] \in Nat /\ WorldSize[j] >= 1
           /\ \A i \in Index(j) : /\ i \in Nat /\ i >= 1 /\ SpanEnds[j][i] \in Nat /\ Start(j, i) \in Nat
                                  /\ Start(j, i) < SpanEnds[j][i]
                                  /\ ChunkCount(j, i) \in Nat /\ ChunkCount(j, i) >= 1
           /\ \A i \in Index(j), n \in Index(j) : i < n => SpanEnds[j][i] <= Start(j, n)
           /\ \A i \in Index(j) : Start(j, i + 1) = SpanEnds[j][i]
           /\ Start(j, 1) = 0
<1>1. PICK e \in Seq(Nat \ {0}) : e = SpanEnds[j] /\ e # <<>> /\ \A i, n \in 1 .. Len(e) : i < n => e[i] < e[n]
  BY JobsAssumption
<1>2. Len(e) \in Nat /\ Len(e) >= 1 /\ LastSpan(j) = Len(e) /\ Index(j) = 1 .. Len(e)
  BY <1>1, EmptySeq DEF LastSpan, Index
<1>3. WorldSize[j] \in Nat /\ WorldSize[j] >= 1
  BY JobsAssumption
<1>4. ASSUME NEW i \in Index(j)
      PROVE  /\ i \in Nat /\ i >= 1 /\ SpanEnds[j][i] \in Nat /\ Start(j, i) \in Nat /\ Start(j, i) < SpanEnds[j][i]
             /\ Start(j, i + 1) = SpanEnds[j][i]
             /\ i # 1 => i - 1 \in Index(j)
  <2>1. i \in 1 .. Len(e) /\ e[i] \in Nat /\ e[i] > 0
    BY <1>1, <1>2
  <2>2. i # 1 => i - 1 \in 1 .. Len(e) /\ i - 1 < i /\ e[i - 1] \in Nat /\ e[i - 1] < e[i]
    BY <1>1, <1>2, <2>1, SMTT(60)
  <2>3. i + 1 # 1 /\ (i + 1) - 1 = i
    BY <2>1
  <2>4. SpanEnds[j][i] = e[i] /\ SpanEnds[j][i - 1] = e[i - 1]
    BY <1>1
  <2>5. Start(j, i + 1) = e[i] /\ (i = 1 => Start(j, i) = 0) /\ (i # 1 => Start(j, i) = e[i - 1])
    BY <1>1, <2>3 DEF Start
  <2>6. i # 1 => i - 1 \in Index(j)
    BY <1>2, <2>2
  <2>7. i \in Nat /\ i >= 1
    BY <2>1
  <2>8. CASE i = 1
    BY <2>1, <2>4, <2>5, <2>7, <2>8
  <2>9. CASE i # 1
    BY <2>1, <2>2, <2>4, <2>5, <2>6, <2>7, <2>9
  <2> QED BY <2>8, <2>9
<1>5. \A i \in Index(j), n \in Index(j) : i < n => SpanEnds[j][i] <= Start(j, n)
  <2> SUFFICES ASSUME NEW i \in Index(j), NEW n \in Index(j), i < n PROVE SpanEnds[j][i] <= SpanEnds[j][n - 1] /\ n # 1
    BY DEF Start
  <2>1. PICK k : k = n - 1
    OBVIOUS
  <2>2. i \in 1 .. Len(e) /\ k \in 1 .. Len(e) /\ n # 1 /\ (i = k \/ i < k)
    BY <1>2, <2>1
  <2>3. e[i] \in Nat /\ e[k] \in Nat /\ (i < k => e[i] < e[k])
    BY <1>1, <2>2
  <2>4. e[i] <= e[k]
    BY <2>2, <2>3
  <2> QED BY <1>1, <2>1, <2>2, <2>4
<1>6. \A i \in Index(j) : ChunkCount(j, i) \in Nat /\ ChunkCount(j, i) >= 1
  BY <1>4 DEF ChunkCount
<1> QED BY <1>2, <1>3, <1>4, <1>5, <1>6 DEF Start

\* A span does not contribute more chunks than it has.
LEMMA HitCountInRange ==
    ASSUME NEW j \in Jobs, NEW i \in Index(j), NEW h \in Handles
    PROVE  HitCount(h, j, i) \in Nat /\ HitCount(h, j, i) <= ChunkCount(j, i)
<1>1. PICK x : x = (h.l1 + h.hits) \div WorldSize[j]
  OBVIOUS
<1>2. x \in Nat
  <2>1. h.l1 + h.hits \in Nat
    BY DEF Handles
  <2> QED BY <1>1, <2>1, SpansInOrder
<1> QED BY <1>1, <1>2, SpansInOrder DEF HitCount

\* Whole chunks: so many keys fit, and no chunk more.
LEMMA WholeChunks ==
    ASSUME NEW n \in Nat, NEW w \in Nat, w >= 1
    PROVE  /\ n \div w \in Nat /\ (n \div w) * w <= n /\ n < (n \div w + 1) * w
           /\ w = 1 => n \div w = n
  OBVIOUS

LEMMA JobsInvInit == JobsInit => JobsInv
<1> SUFFICES ASSUME JobsInit PROVE JobsInv
  OBVIOUS
<1>1. NoHandle \in Handles /\ NoHandle.l2 = "none"
  BY DEF NoHandle, Handles, L2States
<1>2. \A j \in Jobs : 1 \in Index(j) /\ Index(j) \subseteq Nat
  BY SpansInOrder DEF Index
<1>3. JobsTypeOK
  BY <1>1, <1>2 DEF JobsInit, JobsTypeOK, JobStatuses
<1>4. ASSUME NEW j \in Jobs PROVE JobInv(j, status[j], handle[j], cursor[j], found_count[j], locked[j])
  <2>1. /\ status[j] = "closed" /\ handle[j] = [i \in Index(j) |-> NoHandle]
        /\ locked[j] = [i \in Index(j) |-> 0]
    BY DEF JobsInit
  <2> QED BY <1>1, <1>2, <2>1 DEF JobInv, NonePending
<1> QED BY <1>3, <1>4 DEF JobsInv

\* A step of one job leaves the others alone.
LEMMA OneJobSteps ==
    ASSUME JobsInv, NEW j \in Jobs,
           NEW s \in JobStatuses, NEW h \in [Index(j) -> Handles], NEW c \in Index(j), NEW f \in Nat,
           NEW l \in [Index(j) -> Nat],
           status' = [status EXCEPT ![j] = s], handle' = [handle EXCEPT ![j] = h],
           cursor' = [cursor EXCEPT ![j] = c], found_count' = [found_count EXCEPT ![j] = f],
           locked' = [locked EXCEPT ![j] = l],
           JobInv(j, s, h, c, f, l)
    PROVE  JobsInv'
<1>1. JobsTypeOK
  BY DEF JobsInv
<1>2. c \in Nat
  BY SpansInOrder
<1>3. /\ status'[j] = s /\ handle'[j] = h /\ cursor'[j] = c /\ found_count'[j] = f /\ locked'[j] = l
      /\ handle' = [n \in Jobs |-> handle'[n]] /\ locked' = [n \in Jobs |-> locked'[n]]
      /\ \A n \in Jobs : n # j => /\ status'[n] = status[n] /\ handle'[n] = handle[n] /\ cursor'[n] = cursor[n]
                                  /\ found_count'[n] = found_count[n] /\ locked'[n] = locked[n]
  BY <1>1 DEF JobsTypeOK
<1>4. JobsTypeOK'
  <2>1. status' \in [Jobs -> JobStatuses] /\ cursor' \in [Jobs -> Nat] /\ found_count' \in [Jobs -> Nat]
    BY <1>1, <1>2 DEF JobsTypeOK
  <2>2. \A n \in Jobs : /\ cursor'[n] \in Index(n) /\ handle'[n] \in [Index(n) -> Handles]
                        /\ locked'[n] \in [Index(n) -> Nat]
    BY <1>1, <1>3 DEF JobsTypeOK
  <2> QED BY <1>3, <2>1, <2>2 DEF JobsTypeOK
<1>5. ASSUME NEW n \in Jobs
      PROVE  JobInv(n, status'[n], handle'[n], cursor'[n], found_count'[n], locked'[n])
  <2>1. CASE n = j
    BY <1>3, <2>1
  <2>2. CASE n # j
    BY <1>3, <2>2 DEF JobsInv
  <2> QED BY <2>1, <2>2
<1> QED BY <1>4, <1>5 DEF JobsInv

\* The state of one job.
LEMMA JobTypes ==
    ASSUME JobsInv, NEW j \in Jobs
    PROVE  /\ status[j] \in JobStatuses /\ handle[j] \in [Index(j) -> Handles] /\ cursor[j] \in Index(j)
           /\ found_count[j] \in Nat /\ locked[j] \in [Index(j) -> Nat]
           /\ status = [status EXCEPT ![j] = status[j]] /\ handle = [handle EXCEPT ![j] = handle[j]]
           /\ cursor = [cursor EXCEPT ![j] = cursor[j]] /\ found_count = [found_count EXCEPT ![j] = found_count[j]]
           /\ locked = [locked EXCEPT ![j] = locked[j]]
           /\ JobInv(j, status[j], handle[j], cursor[j], found_count[j], locked[j])
<1>1. JobsTypeOK /\ JobInv(j, status[j], handle[j], cursor[j], found_count[j], locked[j])
  BY DEF JobsInv
<1>2. /\ status = [status EXCEPT ![j] = status[j]] /\ cursor = [cursor EXCEPT ![j] = cursor[j]]
      /\ found_count = [found_count EXCEPT ![j] = found_count[j]]
  BY <1>1 DEF JobsTypeOK
<1>3. handle = [handle EXCEPT ![j] = handle[j]] /\ locked = [locked EXCEPT ![j] = locked[j]]
  BY <1>1 DEF JobsTypeOK
<1> QED BY <1>1, <1>2, <1>3 DEF JobsTypeOK

LEMMA SpanKeysNat ==
    ASSUME NEW j \in Jobs, NEW i \in Index(j)
    PROVE  SpanKeys(j, i) \in Nat /\ (WorldSize[j] = 1 => SpanKeys(j, i) = ChunkCount(j, i))
<1>1. PICK n \in Nat, w \in Nat : n = ChunkCount(j, i) /\ w = WorldSize[j]
  BY SpansInOrder
<1>2. n * w \in Nat /\ (w = 1 => n * w = n)
  OBVIOUS
<1> QED BY <1>1, <1>2 DEF SpanKeys

\* A lookup starts afresh.
LEMMA LookupKeepsJobs == ASSUME JobsInv, NEW j \in Jobs, Lookup(j) PROVE JobsInv'
<1>1. PICK h, l : h = [i \in Index(j) |-> NoHandle] /\ l = [i \in Index(j) |-> 0]
  OBVIOUS
<1>2. NoHandle \in Handles /\ NoHandle.l1 + NoHandle.hits = 0 /\ NoHandle.hits = 0
  BY DEF NoHandle, Handles, L2States
<1>3. 1 \in Index(j) /\ "submitting" \in JobStatuses
  BY SpansInOrder DEF Index, JobStatuses
<1>4. FoundIsLocked(j, h, l)
  BY <1>1, <1>2, SpanKeysNat DEF FoundIsLocked
<1>5. JobInv(j, "submitting", h, 1, 0, l)
  BY <1>1, <1>4 DEF JobInv
<1> QED BY <1>1, <1>2, <1>3, <1>5, OneJobSteps DEF Lookup

\* The span submitted has the locks of its L1 hits, the later ones none.
LEMMA SubmitKeepsJobs == ASSUME JobsInv, NEW j \in Jobs, SubmitSpan(j) PROVE JobsInv'
<1>1. PICK i, h0, l0, f0 : i = cursor[j] /\ h0 = handle[j] /\ l0 = locked[j] /\ f0 = found_count[j]
  OBVIOUS
<1>2. /\ i \in Index(j) /\ h0 \in [Index(j) -> Handles] /\ l0 \in [Index(j) -> Nat] /\ f0 \in Nat
      /\ JobInv(j, "submitting", h0, i, f0, l0)
  BY <1>1, JobTypes DEF SubmitSpan
<1>3. PICK l1 \in 0 .. SpanKeys(j, i) :
        /\ handle' = [handle EXCEPT ![j][i] =
               [l1 |-> l1, hits |-> 0, l2 |-> IF l1 < SpanKeys(j, i) /\ HasL2 THEN "pending" ELSE "none"]]
        /\ locked' = [locked EXCEPT ![j][i] = l1]
  BY <1>1 DEF SubmitSpan
<1>4. PICK x : x = [l1 |-> l1, hits |-> 0, l2 |-> IF l1 < SpanKeys(j, i) /\ HasL2 THEN "pending" ELSE "none"]
  OBVIOUS
<1>5. x \in Handles /\ x.l1 = l1 /\ x.hits = 0 /\ l1 \in Nat /\ l1 <= SpanKeys(j, i)
  <2>1. l1 \in Nat /\ l1 <= SpanKeys(j, i)
    BY <1>2, SpanKeysNat
  <2> QED BY <1>4, <2>1 DEF Handles, L2States
<1>6. PICK h, l : h = [h0 EXCEPT ![i] = x] /\ l = [l0 EXCEPT ![i] = l1]
  OBVIOUS
<1>7. /\ handle' = [handle EXCEPT ![j] = h] /\ locked' = [locked EXCEPT ![j] = l]
      /\ h \in [Index(j) -> Handles] /\ l \in [Index(j) -> Nat]
  BY <1>1, <1>2, <1>3, <1>4, <1>5, <1>6
<1>8. FoundIsLocked(j, h, l) /\ f0 = 0
  BY <1>2, <1>5, <1>6 DEF JobInv, FoundIsLocked
<1>9. CASE i = LastSpan(j)
  <2>1. JobInv(j, "registered", h, 1, 0, l)
    BY <1>8 DEF JobInv
  <2>2. status' = [status EXCEPT ![j] = "registered"] /\ cursor' = [cursor EXCEPT ![j] = 1]
        /\ found_count' = [found_count EXCEPT ![j] = 0]
    BY <1>1, <1>8, <1>9, JobTypes, ZenonT(60) DEF SubmitSpan
  <2>3. 1 \in Index(j) /\ "registered" \in JobStatuses
    BY SpansInOrder DEF Index, JobStatuses
  <2> QED BY <1>7, <2>1, <2>2, <2>3, OneJobSteps
<1>10. CASE i # LastSpan(j)
  <2>1. i + 1 \in Index(j) /\ i \in Nat
    BY <1>2, <1>10, SpansInOrder DEF Index
  <2>2. ASSUME NEW n \in Index(j), n >= i + 1 PROVE h[n] = NoHandle
    BY <1>2, <1>6, <2>1, <2>2 DEF JobInv, Index
  <2>3. JobInv(j, "submitting", h, i + 1, 0, l)
    BY <1>8, <2>2 DEF JobInv
  <2>4. status' = [status EXCEPT ![j] = "submitting"] /\ cursor' = [cursor EXCEPT ![j] = i + 1]
        /\ found_count' = [found_count EXCEPT ![j] = 0] /\ "submitting" \in JobStatuses
    BY <1>1, <1>8, <1>10, JobTypes DEF SubmitSpan, JobStatuses
  <2> QED BY <1>7, <2>1, <2>3, <2>4, OneJobSteps
<1> QED BY <1>9, <1>10

\* A request completes in a span that has not been polled.
LEMMA CompletionKeepsJobs ==
    ASSUME JobsInv, NEW j \in Jobs, NEW i \in Index(j), RequestCompletes(j, i)
    PROVE  JobsInv'
<1>1. PICK s, h0, c, f, l0 :
        s = status[j] /\ h0 = handle[j] /\ c = cursor[j] /\ f = found_count[j] /\ l0 = locked[j]
  OBVIOUS
<1>2. /\ s \in JobStatuses /\ h0 \in [Index(j) -> Handles] /\ l0 \in [Index(j) -> Nat] /\ c \in Index(j) /\ f \in Nat
      /\ JobInv(j, s, h0, c, f, l0) /\ h0[i].l2 = "pending"
  BY <1>1, JobTypes DEF RequestCompletes
<1>3. PICK hits \in 0 .. (SpanKeys(j, i) - h0[i].l1) :
        /\ handle' = [handle EXCEPT ![j][i] = [l1 |-> h0[i].l1, l2 |-> "done", hits |-> hits]]
        /\ locked' = [locked EXCEPT ![j][i] = l0[i] + hits]
  BY <1>1 DEF RequestCompletes
<1>4. PICK x : x = [l1 |-> h0[i].l1, l2 |-> "done", hits |-> hits]
  OBVIOUS
<1>5. h0[i].l1 \in Nat /\ hits \in Nat /\ h0[i].l1 + hits <= SpanKeys(j, i)
  BY <1>2, SpanKeysNat DEF Handles
<1>6. x \in Handles /\ x.l1 = h0[i].l1 /\ x.hits = hits /\ x.l2 = "done"
  BY <1>4, <1>5 DEF Handles, L2States
<1>7. s \notin {"closed", "answered"}
  BY <1>2 DEF JobInv, NonePending
<1>8. l0[i] = h0[i].l1 /\ FoundIsLocked(j, h0, l0)
  BY <1>2, <1>5, <1>7 DEF JobInv, FoundIsLocked
<1>9. PICK h, l : h = [h0 EXCEPT ![i] = x] /\ l = [l0 EXCEPT ![i] = l0[i] + hits]
  OBVIOUS
<1>10. /\ handle' = [handle EXCEPT ![j] = h] /\ locked' = [locked EXCEPT ![j] = l]
       /\ h \in [Index(j) -> Handles] /\ l \in [Index(j) -> Nat]
  BY <1>1, <1>2, <1>3, <1>4, <1>5, <1>6, <1>9
<1>11. FoundIsLocked(j, h, l)
  BY <1>2, <1>5, <1>6, <1>8, <1>9 DEF FoundIsLocked
<1>12. /\ s = "submitting" => i < c
       /\ s = "polling" => i >= c
       /\ c \in Nat /\ i \in Nat
  <2>1. c \in Nat /\ i \in Nat /\ c >= 1 /\ i >= 1 /\ NoHandle.l2 = "none"
    BY <1>2, SpansInOrder DEF NoHandle
  <2>2. s = "submitting" => i < c
    BY <1>2, <2>1 DEF JobInv
  <2>3. s = "polling" => i >= c
    BY <1>2, <2>1 DEF JobInv, NonePending
  <2> QED BY <2>1, <2>2, <2>3
<1>13. \A n \in Index(j) : n # i => h[n] = h0[n]
  BY <1>2, <1>9
<1>14. s = "polling" => NonePending(h, 1 .. (c - 1)) /\ CountsLeading(j, c - 1, f, h)
  <2> SUFFICES ASSUME s = "polling" PROVE NonePending(h, 1 .. (c - 1)) /\ CountsLeading(j, c - 1, f, h)
    OBVIOUS
  <2>1. \A n \in 1 .. (c - 1) : h[n] = h0[n]
    <3>1. LastSpan(j) \in Nat /\ c <= LastSpan(j)
      BY <1>2, SpansInOrder DEF Index
    <3>2. \A n \in 1 .. (c - 1) : n \in Index(j) /\ n # i
      BY <1>12, <3>1 DEF Index
    <3> QED BY <1>13, <3>2
  <2> QED BY <1>2, <2>1 DEF JobInv, NonePending, CountsLeading
<1>15. JobInv(j, s, h, c, f, l)
  BY <1>2, <1>7, <1>11, <1>12, <1>13, <1>14 DEF JobInv
<1>16. /\ status' = [status EXCEPT ![j] = s] /\ cursor' = [cursor EXCEPT ![j] = c]
       /\ found_count' = [found_count EXCEPT ![j] = f]
  BY <1>1, JobTypes DEF RequestCompletes
<1> QED BY <1>2, <1>10, <1>15, <1>16, OneJobSteps

\* One turn of the loop counts one more span.
LEMMA CountsOneMore ==
    ASSUME NEW j \in Jobs, NEW i \in Index(j), NEW h \in [Index(j) -> Handles], NEW f \in Nat,
           CountsLeading(j, i - 1, f, h)
    PROVE  LET g == IF f = Start(j, i) THEN f + HitCount(h[i], j, i) ELSE f
           IN  g \in Nat /\ CountsLeading(j, i, g, h)
<1>1. PICK g, hit : g = (IF f = Start(j, i) THEN f + HitCount(h[i], j, i) ELSE f) /\ hit = HitCount(h[i], j, i)
  OBVIOUS
<1>2. hit \in Nat /\ hit <= ChunkCount(j, i) /\ h[i] \in Handles
  BY <1>1, HitCountInRange
<1>3. /\ i \in Nat /\ i >= 1 /\ (i - 1) + 1 = i /\ Start(j, i) \in Nat /\ SpanEnds[j][i] \in Nat
      /\ Start(j, i) < SpanEnds[j][i] /\ ChunkCount(j, i) = SpanEnds[j][i] - Start(j, i)
      /\ Start(j, i + 1) = SpanEnds[j][i]
  BY SpansInOrder DEF ChunkCount
<1>4. f <= Start(j, i) /\ f <= g /\ g \in Nat /\ g <= SpanEnds[j][i]
  BY <1>1, <1>2, <1>3 DEF CountsLeading
<1>5. ASSUME NEW n \in 1 .. i
      PROVE  /\ SpanEnds[j][n] <= g => HitCount(h[n], j, n) = ChunkCount(j, n)
             /\ Start(j, n) <= g /\ g < SpanEnds[j][n] => HitCount(h[n], j, n) = g - Start(j, n)
  <2>1. CASE n = i
    <3>1. SpanEnds[j][i] <= g => hit = ChunkCount(j, i)
      BY <1>1, <1>2, <1>3, <1>4
    <3>2. Start(j, i) <= g /\ g < SpanEnds[j][i] => hit = g - Start(j, i)
      BY <1>1, <1>2, <1>3, <1>4
    <3> QED BY <1>1, <2>1, <3>1, <3>2
  <2>2. CASE n # i
    <3>1. n \in 1 .. (i - 1) /\ n \in Index(j) /\ n < i
      BY <1>3, <2>2, SpansInOrder DEF Index
    <3>2. SpanEnds[j][n] <= Start(j, i) /\ SpanEnds[j][n] \in Nat /\ Start(j, n) \in Nat
      BY <3>1, SpansInOrder
    <3>3. /\ SpanEnds[j][n] <= f => HitCount(h[n], j, n) = ChunkCount(j, n)
          /\ Start(j, n) <= f /\ f < SpanEnds[j][n] => HitCount(h[n], j, n) = f - Start(j, n)
      BY <3>1 DEF CountsLeading
    <3>4. CASE f = Start(j, i)
      BY <1>3, <1>4, <3>2, <3>3, <3>4
    <3>5. CASE f # Start(j, i)
      BY <1>1, <3>3, <3>5
    <3> QED BY <3>4, <3>5
  <2> QED BY <2>1, <2>2
<1>6. CountsLeading(j, i, g, h)
  BY <1>3, <1>4, <1>5 DEF CountsLeading
<1> QED BY <1>1, <1>4, <1>6

\* The loop of query_prefetch_status reads a span's result once and goes on, or
\* drops what it has counted.
LEMMA PollKeepsJobs == ASSUME JobsInv, NEW j \in Jobs, PollSpan(j) PROVE JobsInv'
<1>1. PICK s, h0, i, f0, l :
        s = status[j] /\ h0 = handle[j] /\ i = cursor[j] /\ f0 = found_count[j] /\ l = locked[j]
  OBVIOUS
<1>2. /\ h0 \in [Index(j) -> Handles] /\ l \in [Index(j) -> Nat] /\ i \in Index(j) /\ f0 \in Nat
      /\ JobInv(j, s, h0, i, f0, l) /\ s \in {"registered", "polling"}
      /\ locked' = [locked EXCEPT ![j] = l]
  BY <1>1, JobTypes DEF PollSpan
<1>3. i \in Nat /\ i >= 1 /\ 1 \in Index(j) /\ LastSpan(j) \in Nat /\ i <= LastSpan(j)
  BY <1>2, SpansInOrder DEF Index
<1>4. FoundIsLocked(j, h0, l) /\ NonePending(h0, 1 .. (i - 1)) /\ CountsLeading(j, i - 1, f0, h0)
  <2>1. CASE s = "polling"
    BY <1>2, <2>1 DEF JobInv
  <2>2. CASE s = "registered"
    <3>1. i = 1 /\ f0 = 0 /\ Start(j, 1) = 0 /\ FoundIsLocked(j, h0, l)
      BY <1>2, <2>2, SpansInOrder DEF JobInv
    <3>2. (i - 1) + 1 = 1 /\ \A n : n \notin 1 .. (i - 1)
      BY <3>1
    <3> QED BY <3>1, <3>2 DEF NonePending, CountsLeading
  <2> QED BY <1>2, <2>1, <2>2
<1>5. CASE Answered(h0[i])
  <2>1. PICK x, h : x = Popped(h0[i]) /\ h = [h0 EXCEPT ![i] = x]
    OBVIOUS
  <2>2. /\ x \in Handles /\ x.l1 = h0[i].l1 /\ x.hits = h0[i].hits /\ x.l2 # "pending"
        /\ x.l2 = "none" => h0[i].l2 = "none"
    BY <1>2, <1>5, <2>1 DEF Popped, Answered, Handles, L2States
  <2>3. PICK f, c, t : /\ f = (IF f0 = Start(j, i) THEN f0 + HitCount(h0[i], j, i) ELSE f0)
                       /\ c = (IF i = LastSpan(j) THEN 1 ELSE i + 1)
                       /\ t = (IF i = LastSpan(j) THEN "answered" ELSE "polling")
    OBVIOUS
  <2>4. /\ handle' = [handle EXCEPT ![j] = h] /\ found_count' = [found_count EXCEPT ![j] = f]
        /\ cursor' = [cursor EXCEPT ![j] = c] /\ status' = [status EXCEPT ![j] = t]
    BY <1>1, <1>5, <2>1, <2>3 DEF PollSpan
  <2>5. h \in [Index(j) -> Handles] /\ h[i] = x /\ \A n \in Index(j) : n # i => h[n] = h0[n]
    BY <1>2, <2>1, <2>2
  <2>6. f \in Nat /\ CountsLeading(j, i, f, h0)
    BY <1>2, <1>4, <2>3, CountsOneMore
  <2>7. \A n \in Index(j) : HitCount(h[n], j, n) = HitCount(h0[n], j, n)
    <3>1. HitCount(x, j, i) = HitCount(h0[i], j, i)
      BY <2>2 DEF HitCount
    <3> QED BY <2>5, <3>1
  <2>8. \A n \in 1 .. i : n \in Index(j)
    BY <1>3 DEF Index
  <2>9. CountsLeading(j, i, f, h) /\ NonePending(h, 1 .. i)
    <3>1. \A n \in 1 .. i : n # i => n \in 1 .. (i - 1)
      BY <1>3
    <3>2. NonePending(h, 1 .. i)
      BY <1>4, <2>2, <2>5, <2>8, <3>1 DEF NonePending
    <3> QED BY <2>6, <2>7, <2>8, <3>2 DEF CountsLeading
  <2>10. FoundIsLocked(j, h, l)
    <3>1. /\ l[i] = x.l1 + x.hits /\ l[i] <= SpanKeys(j, i)
          /\ x.l2 \in {"none", "pending"} => x.hits = 0
      BY <1>2, <1>4, <2>2 DEF FoundIsLocked
    <3> QED BY <1>4, <2>5, <3>1 DEF FoundIsLocked
  <2>11. CASE i = LastSpan(j)
    <3>1. t = "answered" /\ c = 1 /\ t \in JobStatuses /\ Index(j) = 1 .. i
      BY <2>3, <2>11 DEF JobStatuses, Index
    <3>2. JobInv(j, t, h, c, f, l)
      BY <2>9, <2>10, <2>11, <3>1 DEF JobInv
    <3> QED BY <1>2, <1>3, <2>4, <2>5, <2>6, <3>1, <3>2, OneJobSteps
  <2>12. CASE i # LastSpan(j)
    <3>1. t = "polling" /\ c = i + 1 /\ t \in JobStatuses /\ c \in Index(j) /\ c - 1 = i
      BY <1>3, <2>3, <2>12 DEF JobStatuses, Index
    <3>2. JobInv(j, t, h, c, f, l)
      BY <2>9, <2>10, <3>1 DEF JobInv
    <3> QED BY <1>2, <2>4, <2>5, <2>6, <3>1, <3>2, OneJobSteps
  <2> QED BY <2>11, <2>12
<1>6. CASE ~Answered(h0[i])
  <2>1. /\ status' = [status EXCEPT ![j] = "registered"] /\ cursor' = [cursor EXCEPT ![j] = 1]
        /\ found_count' = [found_count EXCEPT ![j] = 0] /\ handle' = [handle EXCEPT ![j] = h0]
    BY <1>1, <1>6, JobTypes DEF PollSpan
  <2>2. JobInv(j, "registered", h0, 1, 0, l)
    BY <1>4 DEF JobInv
  <2> QED BY <1>2, <1>3, <2>1, <2>2, OneJobSteps DEF JobStatuses
<1> QED BY <1>5, <1>6

\* The chunks reported are given back.
LEMMA ReleaseKeepsJobs == ASSUME JobsInv, NEW j \in Jobs, Release(j) PROVE JobsInv'
<1>1. PICK h, c, f, l0 : h = handle[j] /\ c = cursor[j] /\ f = found_count[j] /\ l0 = locked[j]
  OBVIOUS
<1>2. /\ h \in [Index(j) -> Handles] /\ l0 \in [Index(j) -> Nat] /\ c \in Index(j) /\ f \in Nat
      /\ JobInv(j, "answered", h, c, f, l0)
      /\ handle' = [handle EXCEPT ![j] = h] /\ cursor' = [cursor EXCEPT ![j] = c]
      /\ found_count' = [found_count EXCEPT ![j] = f]
      /\ status' = [status EXCEPT ![j] = "closed"] /\ "closed" \in JobStatuses
  BY <1>1, JobTypes DEF Release, JobStatuses
<1>3. PICK l : l = [i \in Index(j) |-> LeftLocked(j, i, f)]
  OBVIOUS
<1>4. locked' = [locked EXCEPT ![j] = l]
  BY <1>1, <1>3 DEF Release
<1>5. ASSUME NEW i \in Index(j) PROVE LeftLocked(j, i, f) \in Nat
  <2>1. PICK n, w \in Nat : /\ n = (IF f > Start(j, i) THEN f - Start(j, i) ELSE 0) /\ w = WorldSize[j]
                            /\ n \in Nat
    BY <1>2, SpansInOrder
  <2>2. n * w \in Nat
    BY <2>1
  <2>3. PICK g \in Nat : g = IF f > Start(j, i) THEN (f - Start(j, i)) * WorldSize[j] ELSE 0
    BY <2>1, <2>2
  <2>4. l0[i] \in Nat
    BY <1>2
  <2> QED BY <1>1, <2>3, <2>4 DEF LeftLocked
<1>6. l \in [Index(j) -> Nat]
  BY <1>3, <1>5
<1>7. ASSUME LastSpan(j) = 1, WorldSize[j] = 1 PROVE l[1] = 0
  <2>1. 1 \in Index(j) /\ Start(j, 1) = 0 /\ SpanEnds[j][1] \in Nat /\ ChunkCount(j, 1) = SpanEnds[j][1]
    BY <1>7, SpansInOrder DEF Index, ChunkCount
  <2>2. l0[1] \in Nat /\ l0[1] = h[1].l1 + h[1].hits /\ l0[1] <= SpanEnds[j][1]
    BY <1>2, <1>7, <2>1, SpanKeysNat DEF JobInv, FoundIsLocked
  <2>3. HitCount(h[1], j, 1) = l0[1]
    <3>1. l0[1] \div 1 = l0[1]
      BY <2>2
    <3> QED BY <1>7, <2>1, <2>2, <3>1 DEF HitCount
  <2>4. CountsLeading(j, 1, f, h) /\ Start(j, 1 + 1) = SpanEnds[j][1]
    BY <1>2, <1>7, <2>1, SpansInOrder DEF JobInv
  <2>5. f = l0[1]
    BY <1>2, <2>1, <2>2, <2>3, <2>4 DEF CountsLeading
  <2>6. LeftLocked(j, 1, f) = 0
    BY <1>1, <1>2, <1>7, <2>1, <2>2, <2>5 DEF LeftLocked
  <2> QED BY <1>3, <2>1, <2>6
<1>8. JobInv(j, "closed", h, c, f, l)
  BY <1>2, <1>7 DEF JobInv
<1> QED BY <1>2, <1>4, <1>6, <1>8, OneJobSteps

LEMMA JobsInvStep == JobsInv /\ [JobsNext]_job_vars => JobsInv'
<1> SUFFICES ASSUME JobsInv, [JobsNext]_job_vars PROVE JobsInv'
  OBVIOUS
<1>1. CASE UNCHANGED job_vars
  BY <1>1 DEF job_vars, JobsInv, JobsTypeOK
<1>2. ASSUME NEW j \in Jobs, \/ Lookup(j) \/ SubmitSpan(j) \/ PollSpan(j) \/ Release(j)
                             \/ \E i \in Index(j) : RequestCompletes(j, i)
      PROVE  JobsInv'
  BY <1>2, LookupKeepsJobs, SubmitKeepsJobs, PollKeepsJobs, ReleaseKeepsJobs, CompletionKeepsJobs
<1> QED BY <1>1, <1>2 DEF JobsNext

\* A chunk of the prompt belongs to a span.
LEMMA SpanOfChunk ==
    ASSUME NEW j \in Jobs, NEW c \in 1 .. Chunks(j)
    PROVE  \E i \in Index(j) : Start(j, i) < c /\ c <= SpanEnds[j][i]
<1> DEFINE T == {i \in Index(j) : c <= SpanEnds[j][i]}
<1>1. Index(j) \subseteq Nat /\ LastSpan(j) \in Index(j) /\ Chunks(j) \in Nat /\ c \in Nat /\ c <= Chunks(j)
  BY SpansInOrder DEF Index, Chunks
<1>2. T \in SUBSET Nat /\ LastSpan(j) \in T
  BY <1>1 DEF Chunks
<1>3. PICK i \in T : \A n \in T : ~(<<n, i>> \in OpToRel(<, Nat))
  <2> HIDE DEF T
  <2> QED BY <1>2, NatLessThanWellFounded, WFMin
<1>4. i \in Index(j) /\ c <= SpanEnds[j][i] /\ i \in Nat /\ i >= 1
  BY SpansInOrder
<1>5. CASE i = 1
  BY <1>1, <1>4, <1>5, SpansInOrder
<1>6. CASE i # 1
  <2>1. i - 1 \in Index(j) /\ i - 1 \in Nat /\ i - 1 < i /\ Start(j, i) = SpanEnds[j][i - 1]
    BY <1>4, <1>6, SpansInOrder DEF Index, Start
  <2>2. i - 1 \notin T
    BY <1>3, <1>4, <2>1 DEF OpToRel
  <2>3. SpanEnds[j][i - 1] \in Nat
    BY <2>1, SpansInOrder
  <2> QED BY <1>1, <1>4, <2>1, <2>2, <2>3
<1> QED BY <1>5, <1>6

\* How many chunks a span contributes says which of its keys are locked.
LEMMA HitsAreLocked ==
    ASSUME NEW j \in Jobs, NEW i \in Index(j), NEW h \in Handles, NEW k \in Nat, k >= 1, k <= ChunkCount(j, i)
    PROVE  k <= HitCount(h, j, i) <=> h.l1 + h.hits >= k * WorldSize[j]
<1>1. PICK n \in Nat, w \in Nat : n = h.l1 + h.hits /\ w = WorldSize[j] /\ w >= 1
  BY SpansInOrder DEF Handles
<1>2. PICK q : q = n \div w
  OBVIOUS
<1>3. q \in Nat /\ q * w <= n /\ n < (q + 1) * w
  BY <1>1, <1>2, WholeChunks
<1>4. k <= q => n >= k * w
  <2>1. k <= q => k * w <= q * w
    BY <1>1, <1>3
  <2>2. k * w \in Nat /\ q * w \in Nat
    BY <1>1, <1>3
  <2> QED BY <1>1, <1>3, <2>1, <2>2
<1>5. k >= q + 1 => n < k * w
  <2>1. k >= q + 1 => (q + 1) * w <= k * w
    BY <1>1, <1>3
  <2>2. k * w \in Nat /\ (q + 1) * w \in Nat
    BY <1>1, <1>3
  <2> QED BY <1>1, <1>3, <2>1, <2>2
<1>6. k * w \in Nat /\ ChunkCount(j, i) \in Nat
  BY <1>1, SpansInOrder
<1>7. k <= HitCount(h, j, i) <=> k <= q
  BY <1>1, <1>2, <1>3, <1>6 DEF HitCount
<1> QED BY <1>1, <1>3, <1>4, <1>5, <1>6, <1>7

\* A lookup reports the chunks at the head of the prompt that are locked for it,
\* all of them and no more, for any number of spans, chunks and keys to a chunk
\* (multiprocess/server.py: query_prefetch_status).
THEOREM PrefixReported == JobsSpec => []AnswerIsPrefix
<1>1. JobsInv => AnswerIsPrefix
  <2> SUFFICES ASSUME JobsInv, NEW j \in Jobs, status[j] = "answered"
               PROVE  /\ \A c \in 1 .. found_count[j] : ChunkLocked(j, c)
                      /\ found_count[j] < Chunks(j) => ~ChunkLocked(j, found_count[j] + 1)
    BY DEF AnswerIsPrefix
  <2>1. PICK f \in Nat, h \in [Index(j) -> Handles], l \in [Index(j) -> Nat] :
          /\ f = found_count[j] /\ h = handle[j] /\ l = locked[j]
          /\ CountsLeading(j, LastSpan(j), f, h) /\ FoundIsLocked(j, h, l)
    BY JobTypes DEF JobInv
  <2>2. ASSUME NEW i \in Index(j)
        PROVE  /\ Start(j, i) \in Nat /\ SpanEnds[j][i] \in Nat /\ Start(j, i) < SpanEnds[j][i]
               /\ ChunkCount(j, i) = SpanEnds[j][i] - Start(j, i)
               /\ SpanEnds[j][i] <= f => HitCount(h[i], j, i) = ChunkCount(j, i)
               /\ Start(j, i) <= f /\ f < SpanEnds[j][i] => HitCount(h[i], j, i) = f - Start(j, i)
    <3>1. /\ Start(j, i) \in Nat /\ SpanEnds[j][i] \in Nat /\ Start(j, i) < SpanEnds[j][i]
          /\ ChunkCount(j, i) = SpanEnds[j][i] - Start(j, i)
      BY SpansInOrder DEF ChunkCount
    <3>2. /\ SpanEnds[j][i] <= f => HitCount(h[i], j, i) = ChunkCount(j, i)
          /\ Start(j, i) <= f /\ f < SpanEnds[j][i] => HitCount(h[i], j, i) = f - Start(j, i)
      BY <2>1 DEF CountsLeading, Index
    <3> QED BY <3>1, <3>2
  <2>3. ASSUME NEW i \in Index(j), NEW c \in Nat, Start(j, i) < c, c <= SpanEnds[j][i], c <= f + 1
        PROVE  l[i] >= (c - Start(j, i)) * WorldSize[j] <=> c <= f
    <3>1. PICK k \in Nat : k = c - Start(j, i) /\ k >= 1 /\ k <= ChunkCount(j, i)
      BY <2>2, <2>3
    <3>2. h[i] \in Handles /\ l[i] = h[i].l1 + h[i].hits
      BY <2>1 DEF FoundIsLocked
    <3>3. k <= HitCount(h[i], j, i) <=> l[i] >= k * WorldSize[j]
      BY <3>1, <3>2, HitsAreLocked
    <3>4. CASE SpanEnds[j][i] <= f
      BY <2>2, <2>3, <3>1, <3>3, <3>4
    <3>5. CASE f < SpanEnds[j][i]
      BY <2>2, <2>3, <3>1, <3>3, <3>5
    <3> QED BY <2>1, <2>2, <3>4, <3>5
  <2>4. ASSUME NEW c \in 1 .. f PROVE ChunkLocked(j, c)
    <3>1. f <= Chunks(j) /\ Chunks(j) \in Nat
      BY <2>1, SpansInOrder DEF CountsLeading, Chunks, Index
    <3>2. c \in Nat /\ c \in 1 .. Chunks(j) /\ c <= f
      BY <2>1, <3>1
    <3>3. PICK i \in Index(j) : Start(j, i) < c /\ c <= SpanEnds[j][i]
      BY <3>2, SpanOfChunk
    <3>4. l[i] >= (c - Start(j, i)) * WorldSize[j]
      BY <2>1, <2>3, <3>2, <3>3
    <3> QED BY <2>1, <3>3, <3>4 DEF ChunkLocked
  <2>5. ~ChunkLocked(j, f + 1)
    <3>1. PICK c \in Nat : c = f + 1 /\ ~(c <= f)
      <4>1. f \in Nat
        BY <2>1
      <4>2. f + 1 \in Nat /\ ~(f + 1 <= f)
        BY <4>1
      <4>3. QED BY <4>2
    <3>2. ASSUME NEW i \in Index(j), Start(j, i) < c, c <= SpanEnds[j][i]
          PROVE  ~(l[i] >= (c - Start(j, i)) * WorldSize[j])
      BY <2>1, <2>3, <3>1, <3>2
    <3>3. ~ChunkLocked(j, c)
      BY <2>1, <3>2 DEF ChunkLocked
    <3> QED BY <3>1, <3>3
  <2> QED BY <2>1, <2>4, <2>5
<1> QED BY <1>1, JobsInvInit, JobsInvStep, PTL DEF JobsSpec

\* Once the engine has given back what was reported to it, no key of a lookup of one
\* precision with one key to a chunk stays locked (multiprocess/server.py:
\* free_lookup_locks).
THEOREM NothingStaysLocked == JobsSpec => []UniformJobReleased
<1>1. JobsInv => UniformJobReleased
  BY DEF JobsInv, JobInv, UniformJobReleased
<1> QED BY <1>1, JobsInvInit, JobsInvStep, PTL DEF JobsSpec

----------------------------------------------------------------------------
\* The health monitor.

HotTypeOK ==
    /\ hm_setup \in HealthSetups
    /\ toggles \in Nat
    /\ use_hot \in BOOLEAN /\ recorded \in BOOLEAN
    /\ failure_time \in {"none", "fresh", "old"}

ConfiguredHot == IF hm_setup.hot THEN "on" ELSE "off"

\* The steps of the fallback and of the recovery, in which _original_hot_cache is set.
InFallback == hm_pc \in {"enable_hot", "restore_hot", "clear_hot"}

\* The setting is the configured one except while a backend is bypassed and until it is
\* restored, and whenever it may still be needed the saved setting is the configured one.
HotInv ==
    /\ HotTypeOK
    /\ toggling => toggles > 0
    /\ recorded => ~InFallback
    /\ toggles = 0 => /\ ~recorded /\ hm_pc # "restore_hot" => use_hot = hm_setup.hot
                      /\ recorded \/ InFallback => original_hot = ConfiguredHot

\* A step of the stores, the readers or the remote backend leaves the fallback alone.
LEMMA DataPathKeepsHot ==
    ASSUME HotInv,
           UNCHANGED <<hm_setup, hm_pc, recorded, original_hot, use_hot, toggling, toggles>>,
           failure_time' \in {"none", "fresh", "old"}
    PROVE  HotInv'
  BY DEF HotInv, HotTypeOK, InFallback, ConfiguredHot

\* The operator's calls count themselves; until the first, the setting is the monitor's.
LEMMA OperatorPreserves ==
    ASSUME HotInv, set_hot_cache_on \/ set_hot_cache_clears \/ set_hot_cache_off
    PROVE  HotInv'
<1>1. /\ toggles' \in Nat /\ toggles' > 0 /\ toggles' # 0
      /\ UNCHANGED <<hm_setup, hm_pc, recorded, failure_time>>
  BY DEF HotInv, HotTypeOK, set_hot_cache_on, set_hot_cache_clears, set_hot_cache_off,
         check_vars, bypass_vars
<1>2. use_hot' \in BOOLEAN
  BY Zenon DEF HotInv, HotTypeOK, set_hot_cache_on, set_hot_cache_clears, set_hot_cache_off
<1>3. QED BY <1>1, <1>2, Zenon DEF HotInv, HotTypeOK, InFallback

LEMMA MonitorPreserves ==
    ASSUME HotInv, MonitorStep
    PROVE  HotInv'
<1>0. hm_setup.hot \in BOOLEAN
  BY HealthAssumption DEF HotInv, HotTypeOK
<1> USE DEF HotInv, HotTypeOK, InFallback, ConfiguredHot, check_vars, bypass_vars, memory_vars,
            operator_vars
<1>1. CASE check_connection
  BY <1>1 DEF check_connection
<1>2. CASE put_and_get_check
  BY <1>2 DEF put_and_get_check
<1>3. CASE check_failures
  BY <1>3 DEF check_failures
<1>4. CASE check_failed
  BY <1>0, <1>4 DEF check_failed, saved_original, HotSetting
<1>5. CASE fallback_enables_hot
  BY <1>5 DEF fallback_enables_hot
<1>6. CASE check_passed
  BY <1>6 DEF check_passed
<1>7. CASE recovery_restores_hot
  BY <1>0, <1>7 DEF recovery_restores_hot
<1>8. CASE recovery_clears
  BY <1>8 DEF recovery_clears
<1>9. QED BY <1>1, <1>2, <1>3, <1>4, <1>5, <1>6, <1>7, <1>8 DEF MonitorStep

LEMMA HealthNextPreserves == HotInv /\ [HealthNext]_hm_vars => HotInv'
<1> SUFFICES ASSUME HotInv, [HealthNext]_hm_vars PROVE HotInv'
  OBVIOUS
<1>1. CASE \/ store_allocates \/ store_admits \/ store_inserts \/ reader_takes \/ reader_returns
           \/ get_blocking_failed \/ remote_changes \/ window_passes \/ UNCHANGED hm_vars
  <2>1. /\ UNCHANGED <<hm_setup, hm_pc, recorded, original_hot, use_hot, toggling, toggles>>
        /\ failure_time' \in {"none", "fresh", "old"}
    BY <1>1 DEF HotInv, HotTypeOK, store_allocates, store_admits, store_inserts, reader_takes,
                reader_returns, get_blocking_failed, remote_changes, window_passes, hm_vars,
                check_vars, bypass_vars, memory_vars, operator_vars
  <2>2. QED BY <2>1, DataPathKeepsHot
<1>2. CASE set_hot_cache_on \/ set_hot_cache_clears \/ set_hot_cache_off
  BY <1>2, OperatorPreserves
<1>3. CASE check_irrecoverable
  BY <1>3 DEF check_irrecoverable, HotInv, HotTypeOK, InFallback, ConfiguredHot, check_vars,
              bypass_vars, memory_vars, operator_vars
<1>4. CASE MonitorStep
  BY <1>4, MonitorPreserves
<1>5. QED BY <1>1, <1>2, <1>3, <1>4 DEF HealthNext

\* Whatever fails and recovers, in any order and beside any stores and readers, the
\* hot cache has the setting it was configured with once nothing is bypassed.
THEOREM HotSettingComesBack == HealthSpec => []HotSettingRestored
<1>1. HealthInit => HotInv
  <2> SUFFICES ASSUME HealthInit PROVE HotInv
    OBVIOUS
  <2>1. toggles \in Nat
    BY DEF HealthInit
  <2>2. HotTypeOK
    BY <2>1, HealthAssumption, Zenon DEF HealthInit, HotTypeOK
  <2>3. ~toggling /\ ~recorded /\ ~InFallback /\ use_hot = hm_setup.hot
    BY DEF HealthInit, InFallback
  <2>4. QED BY <2>2, <2>3, Zenon DEF HotInv
<1>2. HotInv => HotSettingRestored
  BY DEF HotInv, HotSettingRestored
<1>3. QED BY <1>1, <1>2, HealthNextPreserves, PTL DEF HealthSpec

----------------------------------------------------------------------------
\* The full sync.

Messages ==
    [type : {"ops"}, ops : Seq([type : {"admit", "evict"}, key : SyncKeys])]
        \cup [type : {"batch"}, id : Nat, keys : SUBSET SyncKeys]
        \cup [type : {"end"}, id : Nat]

SenderRecord ==
    [pc : {"idle", "delay", "start", "await", "batches", "poll"}, id : Nat, keys : SUBSET SyncKeys,
     todo : SUBSET SUBSET SyncKeys, attempts : Nat, polls : Nat, resends : Nat]

SyncRecord ==
    [id : Nat, state : {"none", "syncing", "completed"}, expected : SUBSET SUBSET SyncKeys,
     received : SUBSET SUBSET SyncKeys]

\* The keys the registry holds are left untyped: what a sequence of operations makes of
\* them is defined by recursion.
SyncTypeOK ==
    /\ hot_cache \subseteq SyncKeys /\ storing \subseteq SyncKeys /\ removing \subseteq SyncKeys
    /\ message_queue \in Seq([type : {"admit", "evict"}, key : SyncKeys])
    /\ push_socket \in Seq(Messages)
    /\ start_requests \subseteq [id : Nat, attempt : Nat, batches : SUBSET SUBSET SyncKeys]
    /\ sender \in SenderRecord
    /\ node = [registered |-> node.registered, kv_store |-> node.kv_store, sync_info |-> node.sync_info]
    /\ node.registered \in BOOLEAN
    /\ node.sync_info \in SyncRecord

Batch(m) == m.type = "batch"
InFlight == {push_socket[i] : i \in 1..Len(push_socket)}
Syncing == node.sync_info.state = "syncing"
Starting == sender.pc \in {"start", "await"}

\* Sync ids only grow: nothing under way carries an id the sender has not used.
IdsUsed ==
    /\ \A m \in InFlight : Batch(m) => m.id <= sender.id
    /\ \A s \in start_requests : s.id <= sender.id
    /\ node.sync_info.id <= sender.id

\* One id, one snapshot: the sender until it is answered, every copy of its start request
\* and the registry agree on the batches.
OneSnapshot ==
    /\ \A s, t \in start_requests : s.id = t.id => s.batches = t.batches
    /\ Starting => \A s \in start_requests : s.id = sender.id => s.batches = sender.todo
    /\ Syncing => \A s \in start_requests : s.id = node.sync_info.id => s.batches = node.sync_info.expected
    /\ Syncing /\ Starting /\ node.sync_info.id = sender.id => node.sync_info.expected = sender.todo

\* The batches sent, and those to be sent again, belong to the snapshot of their id.
BatchesOfSnapshot ==
    /\ \A m \in InFlight : Batch(m) =>
           /\ \A s \in start_requests : s.id = m.id => m.keys \subseteq UNION s.batches
           /\ Syncing /\ node.sync_info.id = m.id => m.keys \subseteq UNION node.sync_info.expected
           /\ ~(Starting /\ m.id = sender.id)
    /\ sender.pc = "batches" => \A b \in sender.todo :
           /\ \A s \in start_requests : s.id = sender.id => b \subseteq UNION s.batches
           /\ Syncing /\ node.sync_info.id = sender.id => b \subseteq UNION node.sync_info.expected

SyncInv == SyncTypeOK /\ IdsUsed /\ OneSnapshot /\ BatchesOfSnapshot /\ SyncingHoldsSnapshot

\* The socket keeps the messages in order, and a restart of the controller loses the first ones.
LEMMA SocketMessages ==
    ASSUME NEW s \in Seq(Messages)
    PROVE  /\ \A m \in Messages : /\ Append(s, m) \in Seq(Messages)
                                  /\ {Append(s, m)[i] : i \in 1..Len(Append(s, m))}
                                         = {s[i] : i \in 1..Len(s)} \cup {m}
           /\ s # <<>> => /\ Head(s) \in {s[i] : i \in 1..Len(s)}
                          /\ Head(s) \in Messages
                          /\ Tail(s) \in Seq(Messages)
                          /\ {Tail(s)[i] : i \in 1..Len(Tail(s))} \subseteq {s[i] : i \in 1..Len(s)}
           /\ \A n \in 0..Len(s) :
                  LET t == SubSeq(s, n + 1, Len(s))
                  IN  /\ t \in Seq(Messages)
                      /\ {t[i] : i \in 1..Len(t)} \subseteq {s[i] : i \in 1..Len(s)}
<1>1. ASSUME NEW m \in Messages
      PROVE  /\ Append(s, m) \in Seq(Messages)
             /\ {Append(s, m)[i] : i \in 1..Len(Append(s, m))} = {s[i] : i \in 1..Len(s)} \cup {m}
  <2>1. /\ Append(s, m) \in Seq(Messages) /\ Len(Append(s, m)) = Len(s) + 1
        /\ \A i \in 1..Len(s) : Append(s, m)[i] = s[i]
        /\ Append(s, m)[Len(s) + 1] = m
    BY AppendProperties
  <2>2. Len(s) \in Nat /\ 1..(Len(s) + 1) = (1..Len(s)) \cup {Len(s) + 1}
    OBVIOUS
  <2>3. QED BY <2>1, <2>2
<1>2. ASSUME s # <<>>
      PROVE  /\ Head(s) \in {s[i] : i \in 1..Len(s)}
             /\ Head(s) \in Messages
             /\ Tail(s) \in Seq(Messages)
             /\ {Tail(s)[i] : i \in 1..Len(Tail(s))} \subseteq {s[i] : i \in 1..Len(s)}
  BY <1>2
<1>3. ASSUME NEW n \in 0..Len(s)
      PROVE  /\ SubSeq(s, n + 1, Len(s)) \in Seq(Messages)
             /\ {SubSeq(s, n + 1, Len(s))[i] : i \in 1..Len(SubSeq(s, n + 1, Len(s)))}
                    \subseteq {s[i] : i \in 1..Len(s)}
  OBVIOUS
<1>4. QED BY <1>1, <1>2, <1>3

\* Types: what the worker does to its cache and its sockets.
LEMMA WorkerTypes ==
    ASSUME SyncTypeOK,
           \/ \E k \in SyncKeys : store_begins(k) \/ store_puts(k) \/ remove(k) \/ remove_reports(k)
           \/ drain_and_send
    PROVE  SyncTypeOK'
<1> USE DEF SyncTypeOK
<1>1. ASSUME NEW k \in SyncKeys, store_begins(k)
      PROVE  SyncTypeOK'
  BY <1>1 DEF store_begins
<1>2. ASSUME NEW k \in SyncKeys, store_puts(k)
      PROVE  SyncTypeOK'
  BY <1>2 DEF store_puts, add_kv_op
<1>3. ASSUME NEW k \in SyncKeys, remove(k)
      PROVE  SyncTypeOK'
  BY <1>3 DEF remove
<1>4. ASSUME NEW k \in SyncKeys, remove_reports(k)
      PROVE  SyncTypeOK'
  BY <1>4 DEF remove_reports, add_kv_op
<1>5. CASE drain_and_send
  <2>1. [type |-> "ops", ops |-> message_queue] \in Messages
    BY DEF Messages
  <2>2. push_socket' \in Seq(Messages)
    BY <1>5, <2>1 DEF drain_and_send, put_msg
  <2>3. QED BY <1>5, <2>2 DEF drain_and_send
<1>6. QED BY <1>1, <1>2, <1>3, <1>4, <1>5

LEMMA SenderTypes ==
    ASSUME SyncTypeOK, SenderStep
    PROVE  SyncTypeOK'
<1> USE DEF SyncTypeOK, worker_vars
<1>0. /\ sender.id + 1 \in Nat /\ sender.attempts + 1 \in Nat
      /\ sender.polls + 1 \in Nat /\ sender.resends + 1 \in Nat
  BY DEF SenderRecord
<1>1. CASE initialize_sync
  <2>1. Batches(hot_cache) \in SUBSET SUBSET SyncKeys
    BY DEF Batches
  <2>2. sender' \in SenderRecord
    BY <1>0, <1>1, <2>1 DEF initialize_sync, SenderRecord
  <2>3. QED BY <1>1, <2>2 DEF initialize_sync
<1>2. CASE send_sync_start
  <2>1. sender' \in SenderRecord
    BY <1>0, <1>2 DEF send_sync_start, SenderRecord
  <2>2. start_requests' \subseteq [id : Nat, attempt : Nat, batches : SUBSET SUBSET SyncKeys]
    BY <1>0, <1>2, SMTT(60) DEF send_sync_start, SenderRecord
  <2>3. QED BY <1>2, <2>1, <2>2 DEF send_sync_start
<1>3. CASE start_timeout
  BY <1>3 DEF start_timeout, SenderRecord
<1>4. CASE start_gives_up \/ poll_gives_up
  BY <1>4 DEF start_gives_up, poll_gives_up, SyncFinished, IdleSender, SenderRecord
<1>5. CASE send_sync_batch
  <2>1. PICK b \in sender.todo :
            /\ put_msg([type |-> "batch", id |-> sender.id, keys |-> b])
            /\ sender' = [sender EXCEPT !.todo = @ \ {b}]
    BY <1>5 DEF send_sync_batch
  <2>2. [type |-> "batch", id |-> sender.id, keys |-> b] \in Messages
    BY DEF Messages, SenderRecord
  <2>3. push_socket' \in Seq(Messages)
    BY <2>1, <2>2 DEF put_msg
  <2>4. QED BY <1>5, <2>1, <2>3 DEF send_sync_batch, SenderRecord
<1>6. CASE send_sync_end
  <2>1. [type |-> "end", id |-> sender.id] \in Messages
    BY DEF Messages, SenderRecord
  <2>2. push_socket' \in Seq(Messages)
    BY <1>6, <2>1 DEF send_sync_end, put_msg
  <2>3. QED BY <1>6, <2>2 DEF send_sync_end, SenderRecord
<1>7. CASE poll_answered
  <2>1. get_missing_batches \in SUBSET SUBSET SyncKeys
    BY DEF get_missing_batches, SyncRecord
  <2>2. \/ sender' = IdleSender(sender.id)
        \/ sender' = [sender EXCEPT !.polls = @ + 1]
        \/ sender' = [sender EXCEPT !.pc = "batches", !.todo = get_missing_batches,
                                    !.polls = @ + 1, !.resends = @ + 1]
    BY <1>7 DEF poll_answered, SyncFinished
  <2>3. IdleSender(sender.id) \in SenderRecord
    BY DEF IdleSender, SenderRecord
  <2>4. [sender EXCEPT !.polls = @ + 1] \in SenderRecord
    BY <1>0 DEF SenderRecord
  <2>5. [sender EXCEPT !.pc = "batches", !.todo = get_missing_batches,
                       !.polls = @ + 1, !.resends = @ + 1] \in SenderRecord
    BY <1>0, <2>1 DEF SenderRecord
  <2>6. sender' \in SenderRecord
    BY <2>2, <2>3, <2>4, <2>5
  <2>7. QED BY <1>7, <2>6 DEF poll_answered
<1>8. ASSUME NEW reached \in BOOLEAN, poll_fails(reached)
      PROVE  SyncTypeOK'
  BY <1>8, SMTT(60) DEF poll_fails, SenderRecord
<1>9. QED BY <1>1, <1>2, <1>3, <1>4, <1>5, <1>6, <1>7, <1>8 DEF SenderStep

LEMMA ControllerTypes ==
    ASSUME SyncTypeOK, ControllerStep
    PROVE  SyncTypeOK'
<1> USE DEF SyncTypeOK, worker_vars, Received
<1>1. push_socket # <<>> /\ push_socket' = Tail(push_socket)
  BY DEF ControllerStep, handle_batched_kv_operations, handle_full_sync_batch, handle_full_sync_end
<1>2. Head(push_socket) \in Messages /\ push_socket' \in Seq(Messages)
  BY <1>1, SocketMessages
<1>3. CASE handle_batched_kv_operations
  BY <1>2, <1>3 DEF handle_batched_kv_operations
<1>4. CASE handle_full_sync_batch
  <2>1. Head(push_socket).keys \in SUBSET SyncKeys
    BY <1>2, <1>4 DEF handle_full_sync_batch, Messages
  <2>2. node.sync_info.received \cup {Head(push_socket).keys} \in SUBSET SUBSET SyncKeys
    BY <2>1 DEF SyncRecord
  <2>3. [node.sync_info EXCEPT !.received = @ \cup {Head(push_socket).keys}] \in SyncRecord
    BY <2>2 DEF SyncRecord
  <2>4. QED BY <1>2, <1>4, <2>3 DEF handle_full_sync_batch
<1>5. CASE handle_full_sync_end
  <2>1. [node.sync_info EXCEPT !.state = "completed"] \in SyncRecord
    BY DEF SyncRecord
  <2>2. QED BY <1>2, <1>5, <2>1 DEF handle_full_sync_end
<1>6. QED BY <1>3, <1>4, <1>5 DEF ControllerStep

LEMMA StartTypes ==
    ASSUME SyncTypeOK, NEW m \in start_requests, NEW replied \in BOOLEAN,
           handle_full_sync_start(m, replied)
    PROVE  SyncTypeOK'
<1> USE DEF SyncTypeOK
<1>1. sender' \in SenderRecord
  BY DEF handle_full_sync_start, SenderRecord
<1>2. [id |-> m.id, state |-> "syncing", expected |-> m.batches, received |-> {}] \in SyncRecord
  BY DEF SyncRecord
<1>3. QED BY <1>1, <1>2 DEF handle_full_sync_start, start_sync, worker_vars

LEMMA FaultTypes ==
    ASSUME SyncTypeOK,
           \/ \E replied \in BOOLEAN : heartbeat(replied)
           \/ health_check
           \/ \E lost \in 0..Len(push_socket) : controller_restarts(lost)
           \/ worker_restarts
    PROVE  SyncTypeOK'
<1> USE DEF SyncTypeOK, worker_vars, NewNode, NoNode, NoSync
<1>1. NoSync \in SyncRecord
  BY DEF SyncRecord
<1>2. ASSUME NEW replied \in BOOLEAN, heartbeat(replied)
      PROVE  SyncTypeOK'
  <2>1. sender' \in SenderRecord
    BY <1>2 DEF heartbeat, SenderRecord
  <2>2. QED BY <1>1, <1>2, <2>1 DEF heartbeat
<1>3. CASE health_check
  BY <1>1, <1>3 DEF health_check
<1>4. ASSUME NEW lost \in 0..Len(push_socket), controller_restarts(lost)
      PROVE  SyncTypeOK'
  <2>1. push_socket' \in Seq(Messages)
    BY <1>4, SocketMessages DEF controller_restarts
  <2>2. QED BY <1>1, <1>4, <2>1 DEF controller_restarts
<1>5. CASE worker_restarts
  <2>1. sender' \in SenderRecord
    BY <1>5 DEF worker_restarts, IdleSender, SenderRecord
  <2>2. /\ node' = [registered |-> node'.registered, kv_store |-> node'.kv_store,
                    sync_info |-> node'.sync_info]
        /\ node'.registered \in BOOLEAN /\ node'.sync_info \in SyncRecord
    BY <1>1, <1>5 DEF worker_restarts
  <2>3. /\ hot_cache' \subseteq SyncKeys /\ storing' \subseteq SyncKeys /\ removing' \subseteq SyncKeys
        /\ message_queue' \in Seq([type : {"admit", "evict"}, key : SyncKeys])
        /\ start_requests' = {} /\ push_socket' = push_socket
    BY <1>5 DEF worker_restarts
  <2>4. QED BY <2>1, <2>2, <2>3
<1>6. QED BY <1>2, <1>3, <1>4, <1>5

\* A step that adds no batch and no start request, keeps the sync of the registry or ends
\* it, and starts no sync, cannot mix two snapshots.
LEMMA NothingNewPreserves ==
    ASSUME SyncInv, SyncTypeOK',
           start_requests' \subseteq start_requests,
           \A m \in InFlight' : Batch(m) => m \in InFlight,
           sender'.id = sender.id,
           Starting' => Starting /\ sender'.todo = sender.todo,
           sender'.pc = "batches" => sender.pc = "batches" /\ sender'.todo \subseteq sender.todo,
           node'.sync_info.id <= sender.id,
           Syncing' => /\ Syncing /\ node'.sync_info.id = node.sync_info.id
                       /\ node'.sync_info.expected = node.sync_info.expected,
           SyncingHoldsSnapshot'
    PROVE  SyncInv'
<1>1. IdsUsed'
  BY DEF SyncInv, IdsUsed, Batch
<1>2. OneSnapshot'
  BY DEF SyncInv, OneSnapshot
<1>3. BatchesOfSnapshot'
  BY DEF SyncInv, BatchesOfSnapshot, Batch
<1>4. QED BY <1>1, <1>2, <1>3 DEF SyncInv

LEMMA WorkerKeepsSnapshot ==
    ASSUME SyncInv,
           \/ \E k \in SyncKeys : store_begins(k) \/ store_puts(k) \/ remove(k) \/ remove_reports(k)
           \/ drain_and_send
    PROVE  SyncInv'
<1>1. SyncTypeOK'
  BY WorkerTypes DEF SyncInv
<1>2. UNCHANGED <<start_requests, sender, node>>
  BY DEF store_begins, store_puts, remove, remove_reports, drain_and_send
<1>3. \A m \in InFlight' : Batch(m) => m \in InFlight
  <2>1. CASE drain_and_send
    <3>1. [type |-> "ops", ops |-> message_queue] \in Messages
      BY DEF SyncInv, SyncTypeOK, Messages
    <3>2. InFlight' = InFlight \cup {[type |-> "ops", ops |-> message_queue]}
      BY <2>1, <3>1, SocketMessages, SMTT(60) DEF SyncInv, SyncTypeOK, drain_and_send, put_msg, InFlight
    <3>3. QED BY <3>2 DEF Batch
  <2>2. CASE push_socket' = push_socket
    BY <2>2 DEF InFlight
  <2>3. QED BY <2>1, <2>2 DEF store_begins, store_puts, remove, remove_reports
<1>4. SyncingHoldsSnapshot'
  BY <1>2 DEF SyncInv, SyncingHoldsSnapshot
<1>5. node.sync_info.id <= sender.id
  BY DEF SyncInv, IdsUsed
<1>6. QED BY <1>1, <1>2, <1>3, <1>4, <1>5, NothingNewPreserves DEF Starting, Syncing

\* A new sync has an id nothing carries yet.
LEMMA InitializeSyncPreserves ==
    ASSUME SyncInv, initialize_sync
    PROVE  SyncInv'
<1>1. SyncTypeOK'
  BY SenderTypes DEF SyncInv, SenderStep
<1>2. /\ sender.id \in Nat /\ sender'.id = sender.id + 1 /\ sender'.pc = "start"
      /\ UNCHANGED <<push_socket, start_requests, node>>
  BY DEF SyncInv, SyncTypeOK, initialize_sync, SenderRecord
<1>3. InFlight' = InFlight /\ Syncing' = Syncing
  BY <1>2 DEF InFlight, Syncing
<1>4. /\ \A m \in InFlight : Batch(m) => m.id \in Nat
      /\ \A s \in start_requests : s.id \in Nat
      /\ node.sync_info.id \in Nat
  BY DEF SyncInv, SyncTypeOK, Batch, InFlight, Messages, SyncRecord
<1>5. IdsUsed'
  BY <1>2, <1>3, <1>4 DEF SyncInv, IdsUsed, Batch
<1>6. /\ \A m \in InFlight : Batch(m) => m.id # sender'.id
      /\ \A s \in start_requests : s.id # sender'.id
      /\ node.sync_info.id # sender'.id
  BY <1>2, <1>4 DEF SyncInv, IdsUsed
<1>7. OneSnapshot'
  BY <1>2, <1>3, <1>6 DEF SyncInv, OneSnapshot
<1>8. BatchesOfSnapshot'
  BY <1>2, <1>3, <1>6 DEF SyncInv, BatchesOfSnapshot, Batch
<1>9. SyncingHoldsSnapshot'
  BY <1>2 DEF SyncInv, SyncingHoldsSnapshot
<1>10. QED BY <1>1, <1>5, <1>7, <1>8, <1>9 DEF SyncInv

\* Every copy of a start request carries the batches the sender still has all of.
LEMMA SendStartPreserves ==
    ASSUME SyncInv, send_sync_start
    PROVE  SyncInv'
<1> DEFINE req == [id |-> sender.id, attempt |-> sender.attempts + 1, batches |-> sender.todo]
<1>1. SyncTypeOK'
  BY SenderTypes DEF SyncInv, SenderStep
<1>2. /\ Starting /\ Starting' /\ sender'.id = sender.id /\ sender'.todo = sender.todo
      /\ sender'.pc # "batches"
      /\ start_requests' = start_requests \cup {req}
      /\ UNCHANGED <<push_socket, node>>
  BY DEF SyncInv, SyncTypeOK, send_sync_start, Starting, SenderRecord
<1>3. InFlight' = InFlight /\ Syncing' = Syncing /\ sender.id \in Nat
  BY <1>2 DEF InFlight, Syncing, SyncInv, SyncTypeOK, SenderRecord
<1>4. IdsUsed'
  BY <1>2, <1>3 DEF SyncInv, IdsUsed, Batch
<1>5. OneSnapshot'
  BY <1>2, <1>3 DEF SyncInv, OneSnapshot
<1>6. BatchesOfSnapshot'
  BY <1>2, <1>3 DEF SyncInv, BatchesOfSnapshot, Batch
<1>7. SyncingHoldsSnapshot'
  BY <1>2 DEF SyncInv, SyncingHoldsSnapshot
<1>8. QED BY <1>1, <1>4, <1>5, <1>6, <1>7 DEF SyncInv

LEMMA SendBatchPreserves ==
    ASSUME SyncInv, send_sync_batch
    PROVE  SyncInv'
<1>1. SyncTypeOK'
  BY SenderTypes DEF SyncInv, SenderStep
<1>2. PICK b \in sender.todo :
          /\ put_msg([type |-> "batch", id |-> sender.id, keys |-> b])
          /\ sender' = [sender EXCEPT !.todo = @ \ {b}]
  BY DEF send_sync_batch
<1> DEFINE msg == [type |-> "batch", id |-> sender.id, keys |-> b]
<1>3. msg \in Messages /\ sender.id \in Nat
  BY DEF SyncInv, SyncTypeOK, SenderRecord, Messages
<1>4. InFlight' = InFlight \cup {msg}
  BY <1>2, <1>3, SocketMessages DEF SyncInv, SyncTypeOK, put_msg, InFlight
<1>5. /\ sender.pc = "batches" /\ sender'.pc = "batches" /\ sender'.id = sender.id
      /\ sender'.todo \subseteq sender.todo /\ ~Starting /\ ~Starting'
      /\ UNCHANGED <<start_requests, node>> /\ Syncing' = Syncing
  BY <1>2 DEF SyncInv, SyncTypeOK, send_sync_batch, Starting, Syncing, SenderRecord
<1>6. IdsUsed'
  BY <1>3, <1>4, <1>5 DEF SyncInv, IdsUsed, Batch
<1>7. OneSnapshot'
  BY <1>5 DEF SyncInv, OneSnapshot
<1>8. BatchesOfSnapshot'
  BY <1>4, <1>5 DEF SyncInv, BatchesOfSnapshot, Batch
<1>9. SyncingHoldsSnapshot'
  BY <1>5 DEF SyncInv, SyncingHoldsSnapshot
<1>10. QED BY <1>1, <1>6, <1>7, <1>8, <1>9 DEF SyncInv

\* The batches sent again are ones the registry expects, so they are of its snapshot and,
\* the id being the same, of every start request's.
LEMMA PollAnsweredPreserves ==
    ASSUME SyncInv, poll_answered
    PROVE  SyncInv'
<1>1. SyncTypeOK'
  BY SenderTypes DEF SyncInv, SenderStep
<1>2. InFlight' = InFlight /\ Syncing' = Syncing /\ UNCHANGED <<start_requests, node>>
  BY DEF poll_answered, InFlight, Syncing
<1>3. SyncingHoldsSnapshot' /\ node.sync_info.id <= sender.id
  BY <1>2 DEF SyncInv, SyncingHoldsSnapshot, IdsUsed
<1>4. CASE sender' = [sender EXCEPT !.pc = "batches", !.todo = get_missing_batches,
                                    !.polls = @ + 1, !.resends = @ + 1]
  <2>1. /\ sender'.pc = "batches" /\ sender'.todo = get_missing_batches /\ sender'.id = sender.id
        /\ ~Starting'
    BY <1>4 DEF SyncInv, SyncTypeOK, SenderRecord, Starting
  <2>2. ASSUME NEW b \in get_missing_batches
        PROVE  Syncing /\ node.sync_info.id = sender.id /\ b \in node.sync_info.expected
    BY DEF get_missing_batches, Syncing
  <2>3. IdsUsed'
    BY <1>2, <2>1 DEF SyncInv, IdsUsed, Batch
  <2>4. OneSnapshot'
    BY <1>2, <2>1 DEF SyncInv, OneSnapshot
  <2>5. ASSUME NEW b \in get_missing_batches
        PROVE  /\ \A s \in start_requests : s.id = sender.id => b \subseteq UNION s.batches
               /\ b \subseteq UNION node.sync_info.expected
    BY <2>2 DEF SyncInv, OneSnapshot
  <2>6. BatchesOfSnapshot'
    BY <1>2, <2>1, <2>5 DEF SyncInv, BatchesOfSnapshot, Batch
  <2>7. QED BY <1>1, <1>3, <2>3, <2>4, <2>6 DEF SyncInv
<1>5. CASE sender' = IdleSender(sender.id) \/ sender' = [sender EXCEPT !.polls = @ + 1]
  <2>1. sender'.id = sender.id /\ ~Starting' /\ sender'.pc # "batches"
    BY <1>5 DEF SyncInv, SyncTypeOK, SenderRecord, IdleSender, Starting, poll_answered
  <2>2. QED BY <1>1, <1>2, <1>3, <2>1, NothingNewPreserves
<1>6. QED BY <1>4, <1>5 DEF poll_answered, SyncFinished

LEMMA SenderPreserves ==
    ASSUME SyncInv, SenderStep
    PROVE  SyncInv'
<1>1. CASE initialize_sync \/ send_sync_start \/ send_sync_batch \/ poll_answered
  BY <1>1, InitializeSyncPreserves, SendStartPreserves, SendBatchPreserves, PollAnsweredPreserves
<1>2. CASE \/ start_timeout \/ start_gives_up \/ send_sync_end \/ poll_gives_up
           \/ \E reached \in BOOLEAN : poll_fails(reached)
  <2>1. SyncTypeOK'
    BY SenderTypes DEF SyncInv
  <2>2. UNCHANGED <<start_requests, node>>
    BY <1>2 DEF start_timeout, start_gives_up, send_sync_end, poll_gives_up, poll_fails
  <2>3. \A m \in InFlight' : Batch(m) => m \in InFlight
    <3>1. CASE send_sync_end
      <4>1. [type |-> "end", id |-> sender.id] \in Messages
        BY DEF SyncInv, SyncTypeOK, SenderRecord, Messages
      <4>2. InFlight' = InFlight \cup {[type |-> "end", id |-> sender.id]}
        BY <3>1, <4>1, SocketMessages DEF SyncInv, SyncTypeOK, send_sync_end, put_msg, InFlight
      <4>3. QED BY <4>2 DEF Batch
    <3>2. CASE push_socket' = push_socket
      BY <3>2 DEF InFlight
    <3>3. QED BY <1>2, <3>1, <3>2 DEF start_timeout, start_gives_up, poll_gives_up, poll_fails
  <2>4. /\ sender'.id = sender.id /\ sender'.pc # "batches"
        /\ Starting' => Starting /\ sender'.todo = sender.todo
    BY <1>2 DEF SyncInv, SyncTypeOK, SenderRecord, Starting, IdleSender, SyncFinished,
                start_timeout, start_gives_up, send_sync_end, poll_gives_up, poll_fails
  <2>5. SyncingHoldsSnapshot' /\ node.sync_info.id <= sender.id
    BY <2>2 DEF SyncInv, SyncingHoldsSnapshot, IdsUsed
  <2>6. QED BY <2>1, <2>2, <2>3, <2>4, <2>5, NothingNewPreserves DEF Syncing
<1>3. QED BY <1>1, <1>2 DEF SenderStep

\* The registry takes the snapshot of the request, and what of it is under way, or will be
\* sent under its id, is of that snapshot.
LEMMA StartPreserves ==
    ASSUME SyncInv, NEW m \in start_requests, NEW replied \in BOOLEAN,
           handle_full_sync_start(m, replied)
    PROVE  SyncInv'
<1>1. SyncTypeOK'
  BY StartTypes DEF SyncInv
<1>2. /\ InFlight' = InFlight /\ start_requests' = start_requests \ {m}
      /\ sender'.id = sender.id /\ sender'.todo = sender.todo
      /\ Starting' => Starting
  BY DEF SyncInv, SyncTypeOK, SenderRecord, handle_full_sync_start, InFlight, Starting
<1>3. m.id <= sender.id /\ node.sync_info.id <= sender.id
  BY DEF SyncInv, IdsUsed
<1>4. CASE Accepts(m)
  <2>1. /\ node'.sync_info.id = m.id /\ node'.sync_info.expected = m.batches
        /\ node'.kv_store = {} /\ Syncing'
    <3>1. /\ node'.sync_info = [id |-> m.id, state |-> "syncing", expected |-> m.batches, received |-> {}]
          /\ node'.kv_store = {}
      BY <1>4 DEF SyncInv, SyncTypeOK, handle_full_sync_start, start_sync
    <3>2. QED BY <3>1 DEF Syncing
  <2>2. \/ sender' = sender
        \/ sender'.pc = "batches" /\ sender.pc = "await" /\ sender.id = m.id
    BY <1>4 DEF SyncInv, SyncTypeOK, SenderRecord, handle_full_sync_start
  <2>3. IdsUsed'
    BY <1>2, <1>3, <2>1 DEF SyncInv, IdsUsed, Batch
  <2>4. OneSnapshot'
    BY <1>2, <2>1 DEF SyncInv, OneSnapshot
  <2>5. ASSUME NEW x \in InFlight', Batch(x)
        PROVE  /\ \A s \in start_requests' : s.id = x.id => x.keys \subseteq UNION s.batches
               /\ node'.sync_info.id = x.id => x.keys \subseteq UNION node'.sync_info.expected
               /\ ~(Starting' /\ x.id = sender'.id)
    BY <1>2, <2>1, <2>5 DEF SyncInv, BatchesOfSnapshot
  <2>6. ASSUME sender'.pc = "batches", NEW b \in sender'.todo
        PROVE  /\ \A s \in start_requests' : s.id = sender'.id => b \subseteq UNION s.batches
               /\ node'.sync_info.id = sender'.id => b \subseteq UNION node'.sync_info.expected
    <3>1. CASE sender' = sender
      BY <1>2, <2>1, <2>6, <3>1 DEF SyncInv, BatchesOfSnapshot
    <3>2. CASE sender.pc = "await" /\ sender.id = m.id
      <4>1. \A s \in start_requests : s.id = sender.id => s.batches = sender.todo
        BY <3>2 DEF SyncInv, OneSnapshot, Starting
      <4>2. QED BY <1>2, <2>1, <2>6, <3>2, <4>1
    <3>3. QED BY <2>2, <3>1, <3>2
  <2>7. BatchesOfSnapshot'
    BY <2>5, <2>6 DEF BatchesOfSnapshot, Batch
  <2>8. SyncingHoldsSnapshot'
    BY <2>1 DEF SyncingHoldsSnapshot
  <2>9. QED BY <1>1, <2>3, <2>4, <2>7, <2>8 DEF SyncInv
<1>5. CASE ~Accepts(m)
  <2>1. node' = node /\ (sender'.pc = "batches" => sender.pc = "batches")
    BY <1>5 DEF SyncInv, SyncTypeOK, SenderRecord, handle_full_sync_start
  <2>2. SyncingHoldsSnapshot'
    BY <2>1 DEF SyncInv, SyncingHoldsSnapshot
  <2>3. QED BY <1>1, <1>2, <1>3, <2>1, <2>2, NothingNewPreserves DEF Syncing
<1>6. QED BY <1>4, <1>5

\* What the registry takes off the socket: operations only when it is not synchronising,
\* batches only of the id it is synchronising under.
LEMMA ControllerPreserves ==
    ASSUME SyncInv, ControllerStep
    PROVE  SyncInv'
<1>1. SyncTypeOK'
  BY ControllerTypes DEF SyncInv
<1>2. push_socket # <<>> /\ push_socket' = Tail(push_socket) /\ UNCHANGED <<start_requests, sender>>
  BY DEF ControllerStep, handle_batched_kv_operations, handle_full_sync_batch, handle_full_sync_end,
         Received
<1>3. Head(push_socket) \in InFlight /\ InFlight' \subseteq InFlight
  <2>1. PICK s \in Seq(Messages) : s = push_socket
    BY DEF SyncInv, SyncTypeOK
  <2>2. PICK t : t = Tail(s)
    OBVIOUS
  <2>3. Head(s) \in {s[i] : i \in 1..Len(s)} /\ {t[i] : i \in 1..Len(t)} \subseteq {s[i] : i \in 1..Len(s)}
    BY <1>2, <2>1, <2>2, SocketMessages
  <2>4. InFlight = {s[i] : i \in 1..Len(s)} /\ InFlight' = {t[i] : i \in 1..Len(t)}
    BY <1>2, <2>1, <2>2 DEF InFlight
  <2> QED BY <2>1, <2>3, <2>4
<1>4. node.sync_info.id <= sender.id
  BY DEF SyncInv, IdsUsed
<1>5. CASE handle_batched_kv_operations
  <2>1. node'.sync_info = node.sync_info /\ (Syncing => node' = node)
    BY <1>5 DEF SyncInv, SyncTypeOK, handle_batched_kv_operations, Syncing
  <2>2. SyncingHoldsSnapshot'
    BY <2>1 DEF SyncInv, SyncingHoldsSnapshot, Syncing
  <2>3. QED BY <1>1, <1>2, <1>3, <1>4, <2>1, <2>2, NothingNewPreserves DEF Syncing, Starting
<1>6. CASE handle_full_sync_batch
  <2> DEFINE m == Head(push_socket)
  <2>1. CASE receive_batch(m)
    <3>1. /\ node'.sync_info.id = node.sync_info.id
          /\ node'.sync_info.state = node.sync_info.state
          /\ node'.sync_info.expected = node.sync_info.expected
          /\ node'.kv_store = node.kv_store \cup m.keys
      BY <1>6, <2>1 DEF SyncInv, SyncTypeOK, SyncRecord, handle_full_sync_batch
    <3>2. m.keys \subseteq UNION node.sync_info.expected
      BY <1>3, <1>6, <2>1 DEF SyncInv, BatchesOfSnapshot, Batch, handle_full_sync_batch, Received,
                              receive_batch, Syncing
    <3>3. SyncingHoldsSnapshot'
      BY <3>1, <3>2 DEF SyncInv, SyncingHoldsSnapshot
    <3>4. QED BY <1>1, <1>2, <1>3, <1>4, <3>1, <3>3, NothingNewPreserves DEF Syncing, Starting
  <2>2. CASE ~receive_batch(m)
    <3>1. node' = node
      BY <1>6, <2>2 DEF handle_full_sync_batch
    <3>2. SyncingHoldsSnapshot'
      BY <3>1 DEF SyncInv, SyncingHoldsSnapshot
    <3>3. QED BY <1>1, <1>2, <1>3, <1>4, <3>1, <3>2, NothingNewPreserves DEF Syncing, Starting
  <2>3. QED BY <2>1, <2>2
<1>7. CASE handle_full_sync_end
  <2>1. node' = node \/ (~Syncing' /\ node'.sync_info.id = node.sync_info.id)
    <3>1. node' = node \/ node'.sync_info = [node.sync_info EXCEPT !.state = "completed"]
      BY <1>7 DEF SyncInv, SyncTypeOK, handle_full_sync_end
    <3>2. QED BY <3>1 DEF SyncInv, SyncTypeOK, SyncRecord, Syncing
  <2>2. SyncingHoldsSnapshot'
    BY <2>1 DEF SyncInv, SyncingHoldsSnapshot, Syncing
  <2>3. QED BY <1>1, <1>2, <1>3, <1>4, <2>1, <2>2, NothingNewPreserves DEF Syncing, Starting
<1>8. QED BY <1>5, <1>6, <1>7 DEF ControllerStep

\* Heartbeats and faults: a sync is kept with no more than it had, or forgotten.
LEMMA FaultPreserves ==
    ASSUME SyncInv,
           \/ \E replied \in BOOLEAN : heartbeat(replied)
           \/ health_check
           \/ \E lost \in 0..Len(push_socket) : controller_restarts(lost)
           \/ worker_restarts
    PROVE  SyncInv'
<1>1. SyncTypeOK'
  BY FaultTypes DEF SyncInv
<1>2. start_requests' \subseteq start_requests
  BY DEF heartbeat, health_check, controller_restarts, worker_restarts
<1>3. InFlight' \subseteq InFlight
  <2>1. ASSUME NEW lost \in 0..Len(push_socket), controller_restarts(lost)
        PROVE  InFlight' \subseteq InFlight
    <3>1. PICK s \in Seq(Messages) : s = push_socket
      BY DEF SyncInv, SyncTypeOK
    <3>2. PICK t : t = SubSeq(s, lost + 1, Len(s))
      OBVIOUS
    <3>3. {t[i] : i \in 1..Len(t)} \subseteq {s[i] : i \in 1..Len(s)}
      <4>1. lost \in 0..Len(s)
        BY <3>1
      <4>2. {SubSeq(s, lost + 1, Len(s))[i] : i \in 1..Len(SubSeq(s, lost + 1, Len(s)))}
               \subseteq {s[i] : i \in 1..Len(s)}
        BY <4>1, SocketMessages, Zenon
      <4> QED BY <3>2, <4>2
    <3>4. push_socket' = t
      BY <2>1, <3>1, <3>2 DEF controller_restarts
    <3>5. InFlight = {s[i] : i \in 1..Len(s)} /\ InFlight' = {t[i] : i \in 1..Len(t)}
      BY <3>1, <3>4 DEF InFlight
    <3> QED BY <3>3, <3>5
  <2>2. CASE push_socket' = push_socket
    BY <2>2 DEF InFlight
  <2>3. QED BY <2>1, <2>2 DEF heartbeat, health_check, worker_restarts
<1>4. /\ sender'.id = sender.id
      /\ Starting' => Starting /\ sender'.todo = sender.todo
      /\ sender'.pc = "batches" => sender.pc = "batches" /\ sender'.todo \subseteq sender.todo
  BY DEF SyncInv, SyncTypeOK, SenderRecord, Starting, heartbeat, health_check, controller_restarts,
         worker_restarts, IdleSender
<1>5. \/ node' = node \/ node' = NoNode \/ node' = NewNode \/ node' = [node EXCEPT !.kv_store = {}]
  BY DEF heartbeat, health_check, controller_restarts, worker_restarts
<1>6. sender.id \in Nat /\ node.sync_info.id <= sender.id
  BY DEF SyncInv, SyncTypeOK, SenderRecord, IdsUsed
<1>7. /\ node'.sync_info.id <= sender.id
      /\ Syncing' => /\ Syncing /\ node'.sync_info.id = node.sync_info.id
                     /\ node'.sync_info.expected = node.sync_info.expected
                     /\ node'.kv_store \subseteq node.kv_store
  BY <1>5, <1>6 DEF SyncInv, SyncTypeOK, Syncing, NewNode, NoNode, NoSync
<1>8. SyncingHoldsSnapshot'
  BY <1>7 DEF SyncInv, SyncingHoldsSnapshot, Syncing
<1>9. QED BY <1>1, <1>2, <1>3, <1>4, <1>7, <1>8, NothingNewPreserves

LEMMA SyncNextPreserves == SyncInv /\ [SyncNext]_sync_vars => SyncInv'
<1> SUFFICES ASSUME SyncInv, [SyncNext]_sync_vars PROVE SyncInv'
  OBVIOUS
<1>1. CASE \E k \in SyncKeys : store_begins(k) \/ store_puts(k) \/ remove(k) \/ remove_reports(k)
  BY <1>1, WorkerKeepsSnapshot
<1>2. CASE drain_and_send
  BY <1>2, WorkerKeepsSnapshot
<1>3. CASE SenderStep
  BY <1>3, SenderPreserves
<1>4. CASE ControllerStep
  BY <1>4, ControllerPreserves
<1>5. ASSUME NEW m \in start_requests, NEW replied \in BOOLEAN, handle_full_sync_start(m, replied)
      PROVE  SyncInv'
  BY <1>5, StartPreserves
<1>6. CASE \/ \E replied \in BOOLEAN : heartbeat(replied)
           \/ health_check
           \/ \E lost \in 0..Len(push_socket) : controller_restarts(lost)
           \/ worker_restarts
  BY <1>6, FaultPreserves
<1>7. CASE UNCHANGED sync_vars
  BY <1>7 DEF sync_vars, SyncInv, SyncTypeOK, IdsUsed, OneSnapshot, BatchesOfSnapshot,
              SyncingHoldsSnapshot, InFlight, Syncing, Starting, Batch
<1>8. QED BY <1>1, <1>2, <1>3, <1>4, <1>5, <1>6, <1>7 DEF SyncNext

\* However often starts are sent again, answered late or overtaken, and whichever side
\* restarts, a registry that is being rebuilt holds chunks of one snapshot only.
THEOREM OneSnapshotAtATime == SyncSpec => []SyncingHoldsSnapshot
<1>1. SyncInit => SyncInv
  <2> SUFFICES ASSUME SyncInit PROVE SyncInv
    OBVIOUS
  <2>1. SyncTypeOK
    <3>1. sender \in SenderRecord
      BY DEF SyncInit, IdleSender, SenderRecord
    <3>2. /\ node = [registered |-> TRUE, kv_store |-> {}, sync_info |-> NoSync]
          /\ NoSync \in SyncRecord
      BY DEF SyncInit, NewNode, NoNode, NoSync, SyncRecord
    <3>3. QED BY <3>1, <3>2 DEF SyncInit, SyncTypeOK
  <2>2. InFlight = {} /\ start_requests = {} /\ ~Syncing /\ sender.pc = "idle"
        /\ sender.id = 0 /\ node.sync_info.id = 0
    BY DEF SyncInit, InFlight, Syncing, IdleSender, NewNode, NoNode, NoSync
  <2>3. QED BY <2>1, <2>2 DEF SyncInv, IdsUsed, OneSnapshot, BatchesOfSnapshot,
                              SyncingHoldsSnapshot, Syncing, Starting
<1>2. SyncInv => SyncingHoldsSnapshot
  BY DEF SyncInv
<1>3. QED BY <1>1, <1>2, SyncNextPreserves, PTL DEF SyncSpec
=============================================================================
