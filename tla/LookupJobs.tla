----------------------------- MODULE LookupJobs -----------------------------
(***************************************************************************)
(* lmcache/v1/multiprocess/server.py: the prefetch jobs of MPCacheEngine.  *)
(* lookup() cuts the prompt into spans of equal precision and submits one  *)
(* prefetch task per span; query_prefetch_status() asks for the spans in   *)
(* order and adds their hits up; retrieve() or free_lookup_locks() then    *)
(* gives the locks of the chunks it reported back.                         *)
(*                                                                         *)
(* The storage manager is reduced to what a handle shows: L1 hits known at *)
(* once, an L2 request that completes later, and a result that is handed   *)
(* out once (PrefetchController.query_prefetch_result pops it).  The keys  *)
(* of a span that are locked are its first ones (StorageManager.tla), with *)
(* WorldSize keys to a chunk.                                              *)
(***************************************************************************)
EXTENDS Integers, Sequences

CONSTANTS
    Jobs,         \* lookups of different requests
    SpanEnds,     \* where every precision span of a job ends, in chunks of its prompt
    WorldSize,    \* keys per chunk of a job
    HasL2         \* is an L2 adapter configured?

ASSUME JobsAssumption ==
    /\ \A j \in Jobs : /\ SpanEnds[j] \in Seq(Nat \ {0}) /\ SpanEnds[j] # <<>>
                       /\ \A i, n \in 1 .. Len(SpanEnds[j]) : i < n => SpanEnds[j][i] < SpanEnds[j][n]
    /\ WorldSize \in [Jobs -> Nat \ {0}]
    /\ HasL2 \in BOOLEAN

VARIABLES
    status,       \* of every job
    handle,       \* the PrefetchHandle of every span
    cursor,       \* the span the handler of the job is at
    found_count,  \* chunks reported, or summed up so far
    locked        \* keys at the head of every span that are locked for the job

job_vars == <<status, handle, cursor, found_count, locked>>

LastSpan(j) == Len(SpanEnds[j])
Index(j) == 1 .. LastSpan(j)
Start(j, i) == IF i = 1 THEN 0 ELSE SpanEnds[j][i - 1]
ChunkCount(j, i) == SpanEnds[j][i] - Start(j, i)
SpanKeys(j, i) == ChunkCount(j, i) * WorldSize[j]
Chunks(j) == SpanEnds[j][LastSpan(j)]

NoHandle == [l1 |-> 0, l2 |-> "none", hits |-> 0]
L2States == {"none", "pending", "done", "popped"}

JobsInit ==
    /\ status = [j \in Jobs |-> "closed"]
    /\ handle = [j \in Jobs |-> [i \in Index(j) |-> NoHandle]]
    /\ cursor = [j \in Jobs |-> 1]
    /\ found_count = [j \in Jobs |-> 0]
    /\ locked = [j \in Jobs |-> [i \in Index(j) |-> 0]]

----------------------------------------------------------------------------
\* lookup() starts for a new request.
Lookup(j) ==
    /\ status[j] = "closed"
    /\ status' = [status EXCEPT ![j] = "submitting"]
    /\ handle' = [handle EXCEPT ![j] = [i \in Index(j) |-> NoHandle]]
    /\ cursor' = [cursor EXCEPT ![j] = 1]
    /\ found_count' = [found_count EXCEPT ![j] = 0]
    /\ locked' = [locked EXCEPT ![j] = [i \in Index(j) |-> 0]]

\* One turn of its loop: submit_prefetch_task for the next span.  After the
\* last one the job is registered.
SubmitSpan(j) ==
    LET i == cursor[j] IN
    /\ status[j] = "submitting"
    /\ \E l1 \in 0 .. SpanKeys(j, i) :
        /\ handle' = [handle EXCEPT ![j][i] =
               [l1 |-> l1, hits |-> 0,
                l2 |-> IF l1 < SpanKeys(j, i) /\ HasL2 THEN "pending" ELSE "none"]]
        /\ locked' = [locked EXCEPT ![j][i] = l1]
    /\ IF i = LastSpan(j)
         THEN /\ status' = [status EXCEPT ![j] = "registered"]
              /\ cursor' = [cursor EXCEPT ![j] = 1]
         ELSE cursor' = [cursor EXCEPT ![j] = i + 1] /\ UNCHANGED status
    /\ UNCHANGED found_count

\* The prefetch controller completes a request, with read locks on its hits.
RequestCompletes(j, i) ==
    /\ handle[j][i].l2 = "pending"
    /\ \E hits \in 0 .. (SpanKeys(j, i) - handle[j][i].l1) :
        /\ handle' = [handle EXCEPT ![j][i] = [l1 |-> handle[j][i].l1, l2 |-> "done", hits |-> hits]]
        /\ locked' = [locked EXCEPT ![j][i] = locked[j][i] + hits]
    /\ UNCHANGED <<status, cursor, found_count>>

----------------------------------------------------------------------------
\* StorageManager.query_prefetch_status: None until the L2 result is there,
\* and, since the result is popped, ever after it has been read.
Answered(h) == h.l2 \in {"none", "done"}
Popped(h) == IF h.l2 = "done" THEN [h EXCEPT !.l2 = "popped"] ELSE h

\* Chunks a span contributes: a chunk counts when all its keys were found.
HitCount(h, j, i) ==
    LET whole == (h.l1 + h.hits) \div WorldSize[j]
    IN  IF whole < ChunkCount(j, i) THEN whole ELSE ChunkCount(j, i)

\* Mutant: "if not l2_r" takes a result of no hits for no result.
PollSpanFalsy(j) ==
    LET i == cursor[j]
        h == handle[j][i]
        truthy == Answered(h) /\ (h.l2 = "done" => h.hits > 0)
    IN  /\ status[j] \in {"registered", "polling"}
        /\ handle' = [handle EXCEPT ![j][i] = Popped(h)]
        /\ found_count' = [found_count EXCEPT ![j] = IF truthy THEN @ + HitCount(h, j, i) ELSE 0]
        /\ cursor' = [cursor EXCEPT ![j] = IF truthy /\ i < LastSpan(j) THEN i + 1 ELSE 1]
        /\ status' = [status EXCEPT ![j] =
               IF ~truthy THEN "registered" ELSE IF i = LastSpan(j) THEN "answered" ELSE "polling"]
        /\ UNCHANGED locked

\* Mutant: the hits of all spans are added up, whatever lies between them.
PollSpanAddingUp(j) ==
    LET i == cursor[j]
        h == handle[j][i]
    IN  /\ status[j] \in {"registered", "polling"} /\ Answered(h)
        /\ handle' = [handle EXCEPT ![j][i] = Popped(h)]
        /\ found_count' = [found_count EXCEPT ![j] = @ + HitCount(h, j, i)]
        /\ cursor' = [cursor EXCEPT ![j] = IF i = LastSpan(j) THEN 1 ELSE i + 1]
        /\ status' = [status EXCEPT ![j] = IF i = LastSpan(j) THEN "answered" ELSE "polling"]
        /\ UNCHANGED locked

\* One turn of the loop of query_prefetch_status.  A span without an answer
\* ends the call with None; what the spans before it answered is dropped.
\* found_count grows while every span so far was found in full.
PollSpan(j) ==
    LET i == cursor[j]
        h == handle[j][i]
        unbroken == found_count[j] = Start(j, i)
    IN  /\ status[j] \in {"registered", "polling"}
        /\ IF Answered(h)
             THEN /\ handle' = [handle EXCEPT ![j][i] = Popped(h)]
                  /\ found_count' = [found_count EXCEPT ![j] =
                         IF unbroken THEN @ + HitCount(h, j, i) ELSE @]
                  /\ cursor' = [cursor EXCEPT ![j] = IF i = LastSpan(j) THEN 1 ELSE i + 1]
                  /\ status' = [status EXCEPT ![j] =
                         IF i = LastSpan(j) THEN "answered" ELSE "polling"]
             ELSE /\ status' = [status EXCEPT ![j] = "registered"]
                  /\ cursor' = [cursor EXCEPT ![j] = 1]
                  /\ found_count' = [found_count EXCEPT ![j] = 0]
                  /\ UNCHANGED handle
        /\ UNCHANGED locked

\* The first chunks of the prompt are given back: what stays locked of a span.
LeftLocked(j, i, chunks) ==
    LET given_back == IF chunks > Start(j, i) THEN (chunks - Start(j, i)) * WorldSize[j] ELSE 0
    IN  IF locked[j][i] > given_back THEN locked[j][i] - given_back ELSE 0

\* Mutant: the range to give back ends one chunk early.
ReleaseOneShort(j) ==
    /\ status[j] = "answered"
    /\ locked' = [locked EXCEPT ![j] = [i \in Index(j) |-> LeftLocked(j, i, found_count[j] - 1)]]
    /\ status' = [status EXCEPT ![j] = "closed"]
    /\ UNCHANGED <<handle, cursor, found_count>>

\* The engine retrieves the chunks it was told of, or frees their locks.
Release(j) ==
    /\ status[j] = "answered"
    /\ locked' = [locked EXCEPT ![j] = [i \in Index(j) |-> LeftLocked(j, i, found_count[j])]]
    /\ status' = [status EXCEPT ![j] = "closed"]
    /\ UNCHANGED <<handle, cursor, found_count>>

JobsNext ==
    \E j \in Jobs :
        \/ Lookup(j) \/ SubmitSpan(j) \/ PollSpan(j) \/ Release(j)
        \/ \E i \in Index(j) : RequestCompletes(j, i)

JobsSpec == JobsInit /\ [][JobsNext]_job_vars

\* Handlers run to their end, the scheduler polls every job it has
\* registered, and every prefetch request completes (LookupAnswered of
\* StorageManager.tla).
JobsFairness ==
    \A j \in Jobs :
        /\ WF_job_vars(SubmitSpan(j))
        /\ WF_job_vars(PollSpan(j))
        /\ \A i \in Index(j) : WF_job_vars(RequestCompletes(j, i))

JobsFairSpec == JobsSpec /\ JobsFairness

----------------------------------------------------------------------------
\* The reported chunks are a prefix of the prompt, all of them locked, and no
\* longer one is: the floor to whole chunks, the clamp to the span and the
\* break after the first short span together count exactly the leading chunks
\* whose keys were all found.
ChunkLocked(j, c) ==
    \E i \in Index(j) : /\ Start(j, i) < c /\ c <= SpanEnds[j][i]
                        /\ locked[j][i] >= (c - Start(j, i)) * WorldSize[j]

AnswerIsPrefix ==
    \A j \in Jobs : status[j] = "answered" =>
        /\ \A c \in 1 .. found_count[j] : ChunkLocked(j, c)
        /\ found_count[j] < Chunks(j) => ~ChunkLocked(j, found_count[j] + 1)

\* Every lookup of one precision is answered: however often the handle is
\* polled, its result is read once and reported (query_prefetch_status).
UniformJobAnswered ==
    \A j \in Jobs : (status[j] = "registered" /\ LastSpan(j) = 1) ~> (status[j] = "answered")

\* Once the engine has given the reported chunks back, nothing stays locked for
\* a lookup of one precision with one key to a chunk.  (With several spans, or
\* several keys to a chunk, what was found beyond the reported chunks stays
\* locked until its TTL runs out.)
UniformJobReleased ==
    \A j \in Jobs :
        status[j] = "closed" /\ LastSpan(j) = 1 /\ WorldSize[j] = 1 => locked[j][1] = 0

(***************************************************************************)
(* Known limits.  What the code or its docs say and the code does not keep *)
(* (README, Known limits); no run checks this.                             *)
(***************************************************************************)

\* query_prefetch_status: "Returns the contiguous prefix chunk count when the
\* per-span prefetches are complete": every lookup is answered.
JobAnswered ==
    \A j \in Jobs : (status[j] = "registered") ~> (status[j] = "answered")
=============================================================================
