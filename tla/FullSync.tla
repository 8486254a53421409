------------------------------ MODULE FullSync -------------------------------
(***************************************************************************)
(* The cache controller's registry of one worker and the protocol that     *)
(* rebuilds it (cache_controller/).  The worker reports admitted and       *)
(* evicted chunks through BatchedMessageSender and a PUSH socket; a full   *)
(* sync sends the whole hot cache in batches over the same socket, after a *)
(* start request over a DEALER socket, which overtakes it.  A start whose  *)
(* answer is late is sent again and the first one may still be handled.    *)
(* The controller can restart, lose its heartbeats or their answers, and   *)
(* drop the worker; the worker can restart.                                *)
(*                                                                         *)
(* One chunk makes a batch, so a batch is named by the set of its keys.    *)
(***************************************************************************)
EXTENDS Integers, Sequences, FiniteSets, TLC

CONSTANTS
    SyncKeys,
    PeersReady,         \* how many of the Peers other workers are ready
    Peers,
    max_retry_count,    \* starts sent, and batches sent again, before giving up
    max_poll_attempts,
    MaxSyncs,           \* bound: sync ids
    MaxFaults,          \* bound: restarts and heartbeat timeouts
    MaxOps,             \* bound: operations not drained
    MaxPush             \* bound: messages on the PUSH socket

VARIABLES
    hot_cache,      \* keys of the worker's LocalCPUBackend
    storing,        \* stores that have passed the freeze check
    removing,       \* removed from the cache, not yet reported
    frozen,
    message_queue,  \* operations BatchedMessageSender has not drained
    push_socket,
    start_requests, \* FullSyncStartMsgs on the DEALER sockets
    sender,         \* FullSyncSender
    node,           \* the registry's WorkerNode
    need_full_sync_all,
    peers_ready,
    faults

sync_vars == <<hot_cache, storing, removing, frozen, message_queue, push_socket, start_requests, sender, node,
               need_full_sync_all, peers_ready, faults>>

worker_vars == <<hot_cache, storing, removing, message_queue>>

NoSync == [id |-> 0, state |-> "none", expected |-> {}, received |-> {}]
NoNode == [registered |-> FALSE, kv_store |-> {}, sync_info |-> NoSync]
NewNode == [NoNode EXCEPT !.registered = TRUE]

IdleSender(id) == [pc |-> "idle", id |-> id, keys |-> {}, todo |-> {}, attempts |-> 0, polls |-> 0, resends |-> 0]

SyncInit ==
    /\ hot_cache \in SUBSET SyncKeys
    /\ storing = {} /\ removing = {} /\ frozen = FALSE
    /\ message_queue = <<>> /\ push_socket = <<>> /\ start_requests = {}
    /\ sender = IdleSender(0)
    /\ node = NewNode
    /\ need_full_sync_all = TRUE
    /\ peers_ready \in PeersReady
    /\ faults = 0

\* ---------------------------------------------------------------- the worker's cache

store_begins(k) ==
    /\ ~frozen /\ k \notin hot_cache \cup storing
    /\ storing' = storing \cup {k}
    /\ UNCHANGED <<hot_cache, removing, frozen, message_queue, push_socket, start_requests, sender, node,
                   need_full_sync_all, peers_ready, faults>>

add_kv_op(type, k) ==
    /\ Len(message_queue) < MaxOps
    /\ message_queue' = Append(message_queue, [type |-> type, key |-> k])

store_puts(k) ==
    /\ k \in storing
    /\ storing' = storing \ {k}
    /\ hot_cache' = hot_cache \cup {k}
    /\ add_kv_op("admit", k)
    /\ UNCHANGED <<removing, frozen, push_socket, start_requests, sender, node, need_full_sync_all, peers_ready, faults>>

\* A forced removal (clear, move, cleanup of a base variant) tells the controller after it has
\* released the lock.  An eviction for room does both under the lock: the two steps in a row.
remove(k) ==
    /\ k \in hot_cache
    /\ hot_cache' = hot_cache \ {k}
    /\ removing' = removing \cup {k}
    /\ UNCHANGED <<storing, frozen, message_queue, push_socket, start_requests, sender, node,
                   need_full_sync_all, peers_ready, faults>>

remove_reports(k) ==
    /\ k \in removing
    /\ removing' = removing \ {k}
    /\ add_kv_op("evict", k)
    /\ UNCHANGED <<hot_cache, storing, frozen, push_socket, start_requests, sender, node,
                   need_full_sync_all, peers_ready, faults>>

put_msg(msg) ==
    /\ Len(push_socket) < MaxPush
    /\ push_socket' = Append(push_socket, msg)

drain_and_send ==
    /\ message_queue # <<>>
    /\ put_msg([type |-> "ops", ops |-> message_queue])
    /\ message_queue' = <<>>
    /\ UNCHANGED <<hot_cache, storing, removing, frozen, start_requests, sender, node, need_full_sync_all, peers_ready, faults>>

\* ---------------------------------------------------------------- FullSyncSender

\* At least one batch, even if it is empty.
Batches(keys) == IF keys = {} THEN {{}} ELSE {{k} : k \in keys}

initialize_sync ==
    /\ sender.pc = "delay"
    /\ frozen' = TRUE
    /\ sender' = [sender EXCEPT !.pc = "start", !.id = @ + 1, !.keys = hot_cache, !.todo = Batches(hot_cache)]
    /\ UNCHANGED <<worker_vars, push_socket, start_requests, node, need_full_sync_all, peers_ready, faults>>

send_sync_start ==
    /\ sender.pc = "start" /\ sender.attempts < max_retry_count
    /\ sender' = [sender EXCEPT !.pc = "await", !.attempts = @ + 1]
    /\ start_requests' = start_requests \cup
           {[id |-> sender.id, attempt |-> sender.attempts + 1, batches |-> sender.todo]}
    /\ UNCHANGED <<worker_vars, frozen, push_socket, node, need_full_sync_all, peers_ready, faults>>

\* No answer in time: the socket is made again, the request may still arrive.
start_timeout ==
    /\ sender.pc = "await"
    /\ sender' = [sender EXCEPT !.pc = "start"]
    /\ UNCHANGED <<worker_vars, frozen, push_socket, start_requests, node, need_full_sync_all, peers_ready, faults>>

\* The finally clause of start_full_sync.
SyncFinished == sender' = IdleSender(sender.id) /\ frozen' = FALSE

\* Mutant: the freeze ends with a poll only.
start_gives_up_frozen ==
    /\ sender.pc = "start" /\ sender.attempts = max_retry_count
    /\ sender' = IdleSender(sender.id)
    /\ UNCHANGED <<worker_vars, frozen, push_socket, start_requests, node, need_full_sync_all, peers_ready, faults>>

start_gives_up ==
    /\ sender.pc = "start" /\ sender.attempts = max_retry_count
    /\ SyncFinished
    /\ UNCHANGED <<worker_vars, push_socket, start_requests, node, need_full_sync_all, peers_ready, faults>>

send_sync_batch ==
    /\ sender.pc = "batches"
    /\ \E b \in sender.todo :
           /\ put_msg([type |-> "batch", id |-> sender.id, keys |-> b])
           /\ sender' = [sender EXCEPT !.todo = @ \ {b}]
    /\ UNCHANGED <<worker_vars, frozen, start_requests, node, need_full_sync_all, peers_ready, faults>>

send_sync_end ==
    /\ sender.pc = "batches" /\ sender.todo = {}
    /\ put_msg([type |-> "end", id |-> sender.id])
    /\ sender' = [sender EXCEPT !.pc = "poll"]
    /\ UNCHANGED <<worker_vars, frozen, start_requests, node, need_full_sync_all, peers_ready, faults>>

\* ---------------------------------------------------------------- the controller's answers

\* get_global_progress and the completion threshold of 0.8.
can_exit_freeze ==
    LET mine == IF node.registered /\ node.sync_info.state \in {"none", "completed"} THEN 1 ELSE 0
        all == Peers + (IF node.registered THEN 1 ELSE 0)
    IN  all > 0 /\ 10 * (peers_ready + mine) >= 8 * all

get_missing_batches ==
    IF node.registered /\ node.sync_info.id = sender.id /\ node.sync_info.state = "syncing"
        THEN node.sync_info.expected \ node.sync_info.received
        ELSE {}

\* handle_full_sync_status: it also ends the request that every worker synchronise.
StatusAsked == need_full_sync_all' = (need_full_sync_all /\ ~can_exit_freeze)

poll_fails(reached) ==
    /\ sender.pc = "poll" /\ sender.polls < max_poll_attempts
    /\ sender' = [sender EXCEPT !.polls = @ + 1]
    /\ IF reached THEN StatusAsked ELSE UNCHANGED need_full_sync_all
    /\ UNCHANGED <<worker_vars, frozen, push_socket, start_requests, node, peers_ready, faults>>

poll_answered ==
    /\ sender.pc = "poll" /\ sender.polls < max_poll_attempts
    /\ StatusAsked
    /\ \/ can_exit_freeze /\ SyncFinished
       \/ /\ ~can_exit_freeze
          /\ sender' = IF get_missing_batches # {} /\ sender.resends < max_retry_count
                           THEN [sender EXCEPT !.pc = "batches", !.todo = get_missing_batches,
                                               !.polls = @ + 1, !.resends = @ + 1]
                           ELSE [sender EXCEPT !.polls = @ + 1]
          /\ UNCHANGED frozen
    /\ UNCHANGED <<worker_vars, push_socket, start_requests, node, peers_ready, faults>>

poll_gives_up ==
    /\ sender.pc = "poll" /\ sender.polls = max_poll_attempts
    /\ SyncFinished
    /\ UNCHANGED <<worker_vars, push_socket, start_requests, node, need_full_sync_all, peers_ready, faults>>

start_sync(m) ==
    node' = [node EXCEPT !.sync_info = [id |-> m.id, state |-> "syncing", expected |-> m.batches, received |-> {}],
                         !.kv_store = {}]

\* A worker that is synchronising under another id is refused.
Accepts(m) == node.registered /\ (node.sync_info.state = "syncing" => node.sync_info.id = m.id)

handle_full_sync_start(m, answered) ==
    /\ m \in start_requests
    /\ start_requests' = start_requests \ {m}
    /\ IF Accepts(m) THEN start_sync(m) ELSE UNCHANGED node
    /\ sender' = IF answered /\ sender.pc = "await" /\ sender.id = m.id /\ sender.attempts = m.attempt
                     THEN [sender EXCEPT !.pc = IF Accepts(m) THEN "batches" ELSE "start"]
                     ELSE sender
    /\ UNCHANGED <<worker_vars, frozen, push_socket, need_full_sync_all, peers_ready, faults>>

\* ---------------------------------------------------------------- the controller's PULL socket

Applied(op, kv) == IF op.type = "admit" THEN kv \cup {op.key} ELSE kv \ {op.key}

ApplyAll(ops) ==
    LET kv[i \in 0..Len(ops)] == IF i = 0 THEN node.kv_store ELSE Applied(ops[i], kv[i - 1])
    IN  kv[Len(ops)]

Received(type) ==
    /\ push_socket # <<>> /\ Head(push_socket).type = type
    /\ push_socket' = Tail(push_socket)
    /\ UNCHANGED <<worker_vars, frozen, start_requests, sender, need_full_sync_all, peers_ready, faults>>

handle_batched_kv_operations ==
    /\ Received("ops")
    /\ node' = IF node.registered /\ node.sync_info.state # "syncing"
                   THEN [node EXCEPT !.kv_store = ApplyAll(Head(push_socket).ops)]
                   ELSE node

\* Mutant: a batch is taken whatever the sync it belongs to.
receive_batch_any(m) == node.registered /\ node.sync_info.state = "syncing"

receive_batch(m) == node.registered /\ node.sync_info.id = m.id /\ node.sync_info.state = "syncing"

handle_full_sync_batch ==
    /\ Received("batch")
    /\ LET m == Head(push_socket)
       IN  node' = IF receive_batch(m)
                       THEN [node EXCEPT !.sync_info.received = @ \cup {m.keys}, !.kv_store = @ \cup m.keys]
                       ELSE node

\* Completed even if batches are missing; they are not asked for after that.
handle_full_sync_end ==
    /\ Received("end")
    /\ node' = IF node.sync_info.id = Head(push_socket).id /\ node.sync_info.state # "none"
                   THEN [node EXCEPT !.sync_info.state = "completed"]
                   ELSE node

\* ---------------------------------------------------------------- heartbeats and faults

should_request_full_sync == need_full_sync_all /\ node.sync_info.state = "none"

\* A worker the registry does not know is registered again and told to synchronise.
heartbeat(answered) ==
    LET commands == ~node.registered \/ should_request_full_sync
    IN  /\ commands \/ ~answered
        /\ node' = IF node.registered THEN node ELSE NewNode
        /\ sender' = IF answered /\ sender.pc = "idle" THEN [sender EXCEPT !.pc = "delay"] ELSE sender
        /\ sender' # sender => sender.id < MaxSyncs
        /\ UNCHANGED <<worker_vars, frozen, push_socket, start_requests, need_full_sync_all, peers_ready, faults>>

Fault == faults < MaxFaults /\ faults' = faults + 1

\* health_check: no heartbeat for lmcache_worker_timeout seconds.
health_check ==
    /\ Fault /\ node.registered
    /\ node' = NoNode
    /\ UNCHANGED <<worker_vars, frozen, push_socket, start_requests, sender, need_full_sync_all, peers_ready>>

\* What was on its way to the controller may be lost with it.
controller_restarts(lost) ==
    /\ Fault
    /\ node' = NoNode
    /\ need_full_sync_all' = TRUE
    /\ start_requests' = {}
    /\ push_socket' = SubSeq(push_socket, lost + 1, Len(push_socket))
    /\ UNCHANGED <<worker_vars, frozen, sender, peers_ready>>

\* The worker registers again while the registry still has it: its keys are cleared, its sync is not.
worker_restarts ==
    /\ Fault
    /\ hot_cache' = {} /\ storing' = {} /\ removing' = {} /\ frozen' = FALSE /\ message_queue' = <<>>
    /\ sender' = IdleSender(sender.id)
    /\ start_requests' = {}
    /\ node' = IF node.registered THEN [node EXCEPT !.kv_store = {}] ELSE NewNode
    /\ UNCHANGED <<push_socket, need_full_sync_all, peers_ready>>

SenderStep ==
    \/ initialize_sync \/ send_sync_start \/ start_timeout \/ start_gives_up
    \/ send_sync_batch \/ send_sync_end \/ poll_answered \/ poll_gives_up
    \/ \E reached \in BOOLEAN : poll_fails(reached)

ControllerStep ==
    \/ handle_batched_kv_operations \/ handle_full_sync_batch \/ handle_full_sync_end

SyncNext ==
    \/ \E k \in SyncKeys : store_begins(k) \/ store_puts(k) \/ remove(k) \/ remove_reports(k)
    \/ drain_and_send
    \/ SenderStep
    \/ ControllerStep
    \/ \E m \in start_requests, answered \in BOOLEAN : handle_full_sync_start(m, answered)
    \/ \E answered \in BOOLEAN : heartbeat(answered)
    \/ health_check
    \/ \E lost \in 0..Len(push_socket) : controller_restarts(lost)
    \/ worker_restarts

\* The event loops of the worker and of the controller run what is ready.
SyncFairness ==
    /\ WF_sync_vars(SenderStep)
    /\ WF_sync_vars(ControllerStep)
    /\ WF_sync_vars(\E answered \in BOOLEAN : heartbeat(answered))

SyncSpec == SyncInit /\ [][SyncNext]_sync_vars /\ SyncFairness

-----------------------------------------------------------------------------

(***************************************************************************)
(* While the registry is being rebuilt it holds chunks of the snapshot     *)
(* being sent only: nothing of an earlier sync, whose batches may still be *)
(* on the socket, and no incremental operation gets in                     *)
(* (kv_controller.handle_full_sync_batch, handle_batched_kv_operations).   *)
(***************************************************************************)
SyncingHoldsSnapshot ==
    node.sync_info.state = "syncing" => node.kv_store \subseteq UNION node.sync_info.expected

(***************************************************************************)
(* A worker that froze for a full sync serves stores again, whatever the   *)
(* controller answers or fails to answer (full_sync_sender.start_full_sync)*)
(***************************************************************************)
FreezeEnds == frozen ~> ~frozen

(***************************************************************************)
(* Known limits.  What the code or its docs say and the code does not keep *)
(* (README, Known limits); no run checks these.                            *)
(***************************************************************************)

(***************************************************************************)
(* Freeze mode keeps the cache as it was when the snapshot was taken:      *)
(* freeze_mode.rst promises that nothing is admitted or evicted under it.  *)
(***************************************************************************)
FrozenCacheStill == [][frozen /\ frozen' => hot_cache' = hot_cache]_sync_vars

(***************************************************************************)
(* The controller is told of admissions and evictions of a chunk in the    *)
(* order they happened: what was reported last is what the cache holds     *)
(* (batched_message_sender.py: "must be processed in exact order").        *)
(***************************************************************************)
QueueFollowsCache ==
    removing = {} /\ message_queue # <<>> =>
        LET last == message_queue[Len(message_queue)]
        IN  last.type = "admit" <=> last.key \in hot_cache

(***************************************************************************)
(* A worker does not stay in SYNCING, in which its operations are          *)
(* discarded, for ever: check_sync_timeout is to be called periodically.   *)
(***************************************************************************)
SyncTimesOut == node.sync_info.state = "syncing" ~> node.sync_info.state # "syncing"
=============================================================================
