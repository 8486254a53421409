----------------------------- MODULE P2PBackend -----------------------------
(***************************************************************************)
(* P2PBackend (storage_backend/p2p_backend.py): an instance fetches chunks *)
(* from a peer's CPU cache.  The controller says which peer has how many   *)
(* chunks; the client allocates buffers, sends their indexes with the keys *)
(* on a REQ socket and waits; the peer pins what it still has, writes it   *)
(* into the buffers by RDMA and answers how many chunks it wrote.          *)
(*                                                                         *)
(* A client that times out opens a new socket and sends again, and gives   *)
(* its buffers up after max_retry_count tries.  The peer knows nothing of  *)
(* that: a message it already has is served whenever its turn comes.       *)
(***************************************************************************)
EXTENDS Naturals, Sequences, FiniteSets

CONSTANTS
    P2PReqs,
    P2PBufs,        \* buffers of the client's allocator
    P2PSetups       \* chunks: of the prompt, the same for every request; retries: p2p_max_retry_count;
                    \* faults: bound on restarts, force-removals and new stores at the peer

ASSUME P2PAssumption ==
    P2PSetups \subseteq [chunks : Nat, retries : Nat, faults : Nat]

VARIABLES
    p2p_setup,
    p2p_req,        \* per request: stage, chunks found, buffers, tries, hits
    lookup_lock,    \* the request inside the peer's lookup_lock, if any
    lookup_socket,  \* number of the socket in use
    socket_waits,   \* it was left between send and recv: REQ refuses to send
    p2p_msgs,       \* requests on their way to the peer
    p2p_answers,    \* the answer on its way back to the socket in use
    buf_data,       \* the chunk each buffer holds; 0: none
    peer_cache,     \* chunks in the peer's hot_cache
    peer_pins,      \* their pin counts
    serving,        \* the request the peer is serving
    receiver_known, \* the peer has a transfer handler for the client
    peer_faults,
    late_write      \* history: the peer wrote into a buffer that its request had given up

p2p_vars == <<p2p_setup, p2p_req, lookup_lock, lookup_socket, socket_waits, p2p_msgs, p2p_answers, buf_data, peer_cache,
              peer_pins, serving, receiver_known, peer_faults, late_write>>

NotStarted == [stage |-> "idle", found |-> 0, bufs |-> <<>>, tries |-> 0, hits |-> 0]
NoServing == [stage |-> "none"]

P2PInit ==
    /\ p2p_setup \in P2PSetups
    /\ p2p_req = [r \in P2PReqs |-> NotStarted]
    /\ lookup_lock = {}
    /\ lookup_socket = 0
    /\ socket_waits = FALSE
    /\ p2p_msgs = {}
    /\ p2p_answers = {}
    /\ buf_data = [b \in P2PBufs |-> 0]
    /\ peer_cache = 1..p2p_setup.chunks
    /\ peer_pins = [c \in 1..p2p_setup.chunks |-> 0]
    /\ serving = NoServing
    /\ receiver_known = FALSE
    /\ peer_faults = 0
    /\ late_write = FALSE

Taken == UNION {{p2p_req[r].bufs[i] : i \in DOMAIN p2p_req[r].bufs} : r \in P2PReqs}

(***************************************************************************)
(* The client                                                              *)
(***************************************************************************)

\* batched_async_contains: the controller names a number of chunks, which may
\* be out of date; _ensure_peer_connection makes the client known to the peer
\* if there is no connection yet.
p2p_lookup(r, n) ==
    /\ p2p_req[r].stage = "idle"
    /\ p2p_req' = [p2p_req EXCEPT ![r].stage = "found", ![r].found = n]
    /\ IF lookup_socket = 0
       THEN lookup_socket' = 1 /\ receiver_known' = TRUE
       ELSE UNCHANGED <<lookup_socket, receiver_known>>
    /\ UNCHANGED <<p2p_setup, socket_waits, lookup_lock, p2p_msgs, p2p_answers, buf_data, peer_cache, peer_pins, serving, peer_faults, late_write>>

\* One buffer per chunk found; allocate waits until there is one.
p2p_allocate(r) ==
    /\ p2p_req[r].stage = "found"
    /\ \E bufs \in [1..p2p_req[r].found -> P2PBufs \ Taken] :
        /\ \A i, j \in DOMAIN bufs : i # j => bufs[i] # bufs[j]
        /\ p2p_req' = [p2p_req EXCEPT ![r].stage = "ready", ![r].bufs = bufs]
    /\ UNCHANGED <<p2p_setup, socket_waits, lookup_lock, lookup_socket, p2p_msgs, p2p_answers, buf_data, peer_cache, peer_pins, serving,
                   receiver_known, peer_faults, late_write>>

p2p_send(r) ==
    /\ p2p_req[r].stage = "ready" /\ lookup_lock = {} /\ ~socket_waits
    /\ lookup_lock' = {r}
    /\ p2p_req' = [p2p_req EXCEPT ![r].stage = "sent", ![r].tries = @ + 1]
    /\ p2p_msgs' = p2p_msgs \cup {[req |-> r, socket |-> lookup_socket, bufs |-> p2p_req[r].bufs]}
    /\ UNCHANGED <<p2p_setup, socket_waits, lookup_socket, p2p_answers, buf_data, peer_cache, peer_pins, serving, receiver_known,
                   peer_faults, late_write>>

\* Mutant: every chunk the controller promised counts as read.
num_hit_chunks_promised(r, answer) == p2p_req[r].found

\* An error counts as no hit.
num_hit_chunks(r, answer) == IF answer.kind = "hits" THEN answer.n ELSE 0

\* The request ends with its hits: it pins their buffers and gives the others
\* back.
Ended(r, hits) ==
    p2p_req' = [p2p_req EXCEPT ![r].stage = IF hits = 0 THEN "ended" ELSE "got",
                               ![r].hits = hits, ![r].bufs = SubSeq(@, 1, hits)]

Reconnect ==
    /\ lookup_socket' = lookup_socket + 1
    /\ receiver_known' = TRUE
    /\ socket_waits' = FALSE
    /\ p2p_answers' = {}

TryAgain(r, tries) ==
    IF tries < p2p_setup.retries
    THEN p2p_req' = [p2p_req EXCEPT ![r].stage = "ready", ![r].tries = tries]
    ELSE Ended(r, 0)

\* The answer on the socket in use ends the request; a peer that does not
\* know the client is connected to again, and asked again while tries are left.
answer_received(r) ==
    /\ p2p_req[r].stage = "sent"
    /\ \E answer \in p2p_answers :
        /\ IF answer.kind = "not_initialized"
           THEN /\ Reconnect
                /\ TryAgain(r, p2p_req[r].tries)
           ELSE /\ Ended(r, num_hit_chunks(r, answer))
                /\ p2p_answers' = {}
                /\ UNCHANGED <<lookup_socket, receiver_known, socket_waits>>
    /\ lookup_lock' = {}
    /\ UNCHANGED <<p2p_setup, p2p_msgs, buf_data, peer_cache, peer_pins, serving, peer_faults, late_write>>

\* Connecting again fails while the answer is handled: the buffers are given
\* back.
reconnect_fails(r) ==
    /\ p2p_req[r].stage = "sent"
    /\ \E answer \in p2p_answers : answer.kind = "not_initialized"
    /\ Ended(r, 0)
    /\ p2p_answers' = {}
    /\ lookup_lock' = {}
    /\ UNCHANGED <<p2p_setup, lookup_socket, socket_waits, receiver_known, p2p_msgs, buf_data, peer_cache, peer_pins, serving,
                   peer_faults, late_write>>

\* zmq.Again: a new socket, and another try or _cleanup_memory_objects.
recv_times_out(r) ==
    /\ p2p_req[r].stage = "sent"
    /\ Reconnect
    /\ TryAgain(r, p2p_req[r].tries)
    /\ lookup_lock' = {}
    /\ UNCHANGED <<p2p_setup, p2p_msgs, buf_data, peer_cache, peer_pins, serving, peer_faults, late_write>>

\* The same when the socket refuses to send.
send_refused(r) ==
    /\ p2p_req[r].stage = "ready" /\ lookup_lock = {} /\ socket_waits
    /\ Reconnect
    /\ TryAgain(r, p2p_req[r].tries + 1)
    /\ UNCHANGED <<p2p_setup, lookup_lock, p2p_msgs, buf_data, peer_cache, peer_pins, serving, peer_faults, late_write>>

\* The peer cannot be reached: the exception of _ensure_peer_connection in the
\* handler of the first one leaves the call with the buffers allocated, and
\* the socket waiting for the answer.
reconnect_raises(r) ==
    /\ \/ p2p_req[r].stage = "sent"
       \/ p2p_req[r].stage = "ready" /\ lookup_lock = {} /\ socket_waits
    /\ p2p_req' = [p2p_req EXCEPT ![r].stage = "raised"]
    /\ lookup_lock' = {}
    /\ socket_waits' = TRUE
    /\ UNCHANGED <<p2p_setup, lookup_socket, p2p_msgs, p2p_answers, buf_data, peer_cache, peer_pins, serving, receiver_known,
                   peer_faults, late_write>>

\* The retrieve that asked has copied the chunks and unpins the buffers.
p2p_consumed(r) ==
    /\ p2p_req[r].stage = "got"
    /\ p2p_req' = [p2p_req EXCEPT ![r].stage = "ended", ![r].bufs = <<>>]
    /\ UNCHANGED <<p2p_setup, socket_waits, lookup_lock, lookup_socket, p2p_msgs, p2p_answers, buf_data, peer_cache, peer_pins, serving,
                   receiver_known, peer_faults, late_write>>

(***************************************************************************)
(* The peer                                                                *)
(***************************************************************************)

\* The answer to a socket closed since is dropped.
Answer(socket, kind, n) ==
    p2p_answers' = IF socket = lookup_socket THEN {[kind |-> kind, n |-> n]} ELSE p2p_answers

refuse(m) ==
    /\ serving = NoServing /\ m \in p2p_msgs
    /\ ~receiver_known
    /\ p2p_msgs' = p2p_msgs \ {m}
    /\ Answer(m.socket, "not_initialized", 0)
    /\ UNCHANGED <<p2p_setup, socket_waits, p2p_req, lookup_lock, lookup_socket, buf_data, peer_cache, peer_pins, serving, receiver_known,
                   peer_faults, late_write>>

\* The longest prefix of the keys that is cached.
PrefixHits(n) ==
    CHOOSE h \in 0..n : 1..h \subseteq peer_cache /\ (h < n => h + 1 \notin peer_cache)

\* LocalCPUBackend.batched_async_contains(pin=True)
peer_contains(m) ==
    /\ serving = NoServing /\ m \in p2p_msgs
    /\ receiver_known
    /\ p2p_msgs' = p2p_msgs \ {m}
    /\ LET hits == PrefixHits(Len(m.bufs)) IN
        /\ serving' = [stage |-> "found", msg |-> m, hits |-> hits]
        /\ peer_pins' = [c \in DOMAIN peer_pins |-> peer_pins[c] + (IF c <= hits THEN 1 ELSE 0)]
    /\ UNCHANGED <<p2p_setup, socket_waits, p2p_req, lookup_lock, lookup_socket, p2p_answers, buf_data, peer_cache, receiver_known,
                   peer_faults, late_write>>

\* batched_get_non_blocking finds every chunk and takes a reference.
peer_gets ==
    /\ serving.stage = "found"
    /\ 1..serving.hits \subseteq peer_cache
    /\ serving' = [serving EXCEPT !.stage = "writing"]
    /\ UNCHANGED <<p2p_setup, socket_waits, p2p_req, lookup_lock, lookup_socket, p2p_msgs, p2p_answers, buf_data, peer_cache, peer_pins,
                   receiver_known, peer_faults, late_write>>

\* A chunk force-removed since raises: mem_objs was never set, so that the
\* pins of the others stay.
peer_get_raises ==
    /\ serving.stage = "found"
    /\ ~(1..serving.hits \subseteq peer_cache)
    /\ Answer(serving.msg.socket, "server_error", 0)
    /\ serving' = NoServing
    /\ UNCHANGED <<p2p_setup, socket_waits, p2p_req, lookup_lock, lookup_socket, p2p_msgs, buf_data, peer_cache, peer_pins, receiver_known,
                   peer_faults, late_write>>

Holds(r, i, b) == i \in DOMAIN p2p_req[r].bufs /\ p2p_req[r].bufs[i] = b

\* async_batched_write: all chunks arrive, or some before an error.  What it
\* writes to is memory of the client, whoever owns it by now.
peer_writes(written) ==
    /\ serving.stage = "writing" /\ written <= serving.hits
    /\ LET m == serving.msg IN
        /\ buf_data' = [b \in P2PBufs |->
                            IF \E i \in 1..written : m.bufs[i] = b
                            THEN CHOOSE i \in 1..written : m.bufs[i] = b
                            ELSE buf_data[b]]
        /\ late_write' = (late_write \/ \E i \in 1..written : ~Holds(m.req, i, m.bufs[i]))
    /\ serving' = [serving EXCEPT !.stage = IF written = serving.hits THEN "written" ELSE "failed"]
    /\ UNCHANGED <<p2p_setup, socket_waits, p2p_req, lookup_lock, lookup_socket, p2p_msgs, p2p_answers, peer_cache, peer_pins, receiver_known,
                   peer_faults>>

\* The finally clause, and the answer.  An object force-removed meanwhile
\* takes its pin with it.
peer_answers ==
    /\ serving.stage \in {"written", "failed"}
    /\ peer_pins' = [c \in DOMAIN peer_pins |->
                        IF c <= serving.hits /\ peer_pins[c] > 0 THEN peer_pins[c] - 1 ELSE peer_pins[c]]
    /\ IF serving.stage = "written"
       THEN Answer(serving.msg.socket, "hits", serving.hits)
       ELSE Answer(serving.msg.socket, "server_error", 0)
    /\ serving' = NoServing
    /\ UNCHANGED <<p2p_setup, socket_waits, p2p_req, lookup_lock, lookup_socket, p2p_msgs, buf_data, peer_cache, receiver_known,
                   peer_faults, late_write>>

\* Eviction spares pinned chunks.
peer_evicts(c) ==
    /\ c \in peer_cache /\ peer_pins[c] = 0
    /\ peer_cache' = peer_cache \ {c}
    /\ UNCHANGED <<p2p_setup, socket_waits, p2p_req, lookup_lock, lookup_socket, p2p_msgs, p2p_answers, buf_data, peer_pins, serving,
                   receiver_known, peer_faults, late_write>>

\* remove(force=True): pins do not protect.
peer_removes(c) ==
    /\ c \in peer_cache
    /\ peer_faults < p2p_setup.faults
    /\ peer_faults' = peer_faults + 1
    /\ peer_cache' = peer_cache \ {c}
    /\ peer_pins' = [peer_pins EXCEPT ![c] = 0]
    /\ UNCHANGED <<p2p_setup, socket_waits, p2p_req, lookup_lock, lookup_socket, p2p_msgs, p2p_answers, buf_data, serving,
                   receiver_known, late_write>>

\* The peer's own engine stores a chunk that is gone: submit_put_task.
peer_stores(c) ==
    /\ c \notin peer_cache
    /\ peer_faults < p2p_setup.faults
    /\ peer_faults' = peer_faults + 1
    /\ peer_cache' = peer_cache \cup {c}
    /\ UNCHANGED <<p2p_setup, socket_waits, p2p_req, lookup_lock, lookup_socket, p2p_msgs, p2p_answers, buf_data, peer_pins, serving,
                   receiver_known, late_write>>

\* The peer comes back empty and knows no client; ZMQ connects again and has
\* what was not read.
peer_restarts ==
    /\ peer_faults < p2p_setup.faults
    /\ peer_faults' = peer_faults + 1
    /\ peer_cache' = {}
    /\ peer_pins' = [c \in DOMAIN peer_pins |-> 0]
    /\ serving' = NoServing
    /\ receiver_known' = FALSE
    /\ UNCHANGED <<p2p_setup, socket_waits, p2p_req, lookup_lock, lookup_socket, p2p_msgs, p2p_answers, buf_data, late_write>>

P2PNext ==
    \/ \E r \in P2PReqs :
        \/ \E n \in 1..p2p_setup.chunks : p2p_lookup(r, n)
        \/ p2p_allocate(r) \/ p2p_send(r) \/ answer_received(r) \/ recv_times_out(r) \/ send_refused(r)
        \/ reconnect_fails(r) \/ reconnect_raises(r) \/ p2p_consumed(r)
    \/ \E m \in p2p_msgs : refuse(m) \/ peer_contains(m)
    \/ peer_gets \/ peer_get_raises \/ peer_answers \/ peer_restarts
    \/ \E n \in 0..p2p_setup.chunks : peer_writes(n)
    \/ \E c \in 1..p2p_setup.chunks : peer_evicts(c) \/ peer_removes(c) \/ peer_stores(c)

P2PSpec == P2PInit /\ [][P2PNext]_p2p_vars

(***************************************************************************)
(* Properties                                                              *)
(***************************************************************************)

\* A request that got n chunks from a peer holds the first n chunks of its
\* prompt, in order, whatever was retried, answered twice, evicted, removed,
\* stored again or restarted meanwhile.  The one way to other data is a write
\* into a buffer that its request had given up (a timeout at the client says
\* nothing about the peer): that case is left out, and is possible.
GotItsChunks ==
    late_write \/ \A r \in P2PReqs :
        p2p_req[r].stage = "got" => \A i \in 1..p2p_req[r].hits : buf_data[p2p_req[r].bufs[i]] = i
=============================================================================
