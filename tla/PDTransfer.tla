------------------------------ MODULE PDTransfer ------------------------------
(***************************************************************************)
(* Disaggregated prefill (storage_backend/pd_backend.py): prefillers ask   *)
(* the decoder's allocation thread for memory over a REQ/REP socket, write *)
(* into it, and tell the proxy after the last chunk; the proxy then starts *)
(* the request on the decoder, which loads the chunks and gives each of    *)
(* them up (remove_after_retrieve).  Requests may share chunks and come    *)
(* from different prefillers.                                              *)
(*                                                                         *)
(* An entry of PDBackend.data is its reference count and whether the data  *)
(* has arrived; all entries have one size.  The proxy and the RDMA write   *)
(* itself are external.                                                    *)
(***************************************************************************)
EXTENDS Integers, Sequences, FiniteSets

CONSTANTS
    PDReqs,
    PDKeysOf,           \* the chunks of each request, in order
    PDBuffers,          \* entries the decoder's memory holds
    MaxPreempts         \* bound: preemptions on the decoder

PDKeys == UNION {{PDKeysOf[r][i] : i \in 1 .. Len(PDKeysOf[r])} : r \in PDReqs}

ASSUME PDAssumption == IsFiniteSet(PDReqs) /\ \A r \in PDReqs : PDKeysOf[r] \in Seq(PDKeys)

VARIABLES
    pd_data,            \* refs (0: no entry) and whether the data has arrived, per key
    prefill,            \* idle, asking, allocating, answered, failed or sent
    num_transferred,    \* chunks of a request that are at the decoder
    sending,            \* the batch of the current put: its last chunk, and what to write
    alloc_job,          \* the request the allocation thread serves and its chunks left
    promised,           \* references held for a request and not given up
    decode,             \* hidden, visible, loaded or done, per request
    loaded,             \* chunks a request has copied and still has to give up
    read_unwritten,     \* chunks a request copied before they had arrived
    preempts

prefill_vars == <<prefill, num_transferred, sending>>
decode_vars == <<decode, loaded, read_unwritten, preempts>>
pd_vars == <<pd_data, prefill_vars, alloc_job, promised, decode_vars>>

NoJob == [req |-> {}, left |-> <<>>]
NoEntry == [refs |-> 0, written |-> FALSE]

PDInit ==
    /\ pd_data = [k \in PDKeys |-> NoEntry]
    /\ prefill = [r \in PDReqs |-> "idle"]
    /\ num_transferred = [r \in PDReqs |-> 0]
    /\ sending = [r \in PDReqs |-> [upto |-> 0, write |-> {}]]
    /\ alloc_job = NoJob
    /\ promised = {}
    /\ decode = [r \in PDReqs |-> "hidden"]
    /\ loaded = [r \in PDReqs |-> {}]
    /\ read_unwritten = {}
    /\ preempts = 0

Present(k) == pd_data[k].refs > 0
InUse == Cardinality({k \in PDKeys : Present(k)})

\* ---------------------------------------------------------------- the prefiller

\* batched_submit_put_task for the chunks the last prefill step has completed.
remote_allocate(r) ==
    /\ prefill[r] = "idle"
    /\ \E n \in num_transferred[r] + 1 .. Len(PDKeysOf[r]) :
        sending' = [sending EXCEPT ![r] = [upto |-> n, write |-> {}]]
    /\ prefill' = [prefill EXCEPT ![r] = "asking"]
    /\ UNCHANGED <<pd_data, num_transferred, alloc_job, promised, decode_vars>>

\* batched_write has completed; the proxy hears of it if this was the last prefill.
transfer_done(r) ==
    LET last == sending[r].upto = Len(PDKeysOf[r])
    IN  /\ prefill[r] = "answered"
        /\ pd_data' = [k \in PDKeys |-> IF k \in sending[r].write /\ Present(k)
                                          THEN [pd_data[k] EXCEPT !.written = TRUE] ELSE pd_data[k]]
        /\ num_transferred' = [num_transferred EXCEPT ![r] = sending[r].upto]
        /\ prefill' = [prefill EXCEPT ![r] = IF last THEN "sent" ELSE "idle"]
        /\ decode' = [decode EXCEPT ![r] = IF last THEN "visible" ELSE @]
        /\ UNCHANGED <<sending, alloc_job, promised, loaded, read_unwritten, preempts>>

\* The transfer reports ERR: batched_write raises and the proxy is never told.
transfer_fails(r) ==
    /\ prefill[r] = "answered" /\ sending[r].write # {}
    /\ prefill' = [prefill EXCEPT ![r] = "failed"]
    /\ UNCHANGED <<pd_data, num_transferred, sending, alloc_job, promised, decode_vars>>

\* ---------------------------------------------------------------- the allocation thread

alloc_receives(r) ==
    /\ alloc_job = NoJob /\ prefill[r] = "asking"
    /\ alloc_job' = [req |-> {r}, left |-> SubSeq(PDKeysOf[r], num_transferred[r] + 1, sending[r].upto)]
    /\ prefill' = [prefill EXCEPT ![r] = "allocating"]
    /\ UNCHANGED <<pd_data, num_transferred, sending, promised, decode_vars>>

\* Mutant: the chunk that is there already is not pinned for this request.
already_sent_unpinned(r, k) ==
    /\ Present(k)
    /\ UNCHANGED <<pd_data, sending>>

already_sent(r, k) ==
    /\ Present(k)
    /\ pd_data' = [pd_data EXCEPT ![k].refs = @ + 1]
    /\ UNCHANGED sending

\* The thread retries for as long as there is no memory: the step waits.
allocate_and_put(r, k) ==
    /\ ~Present(k) /\ InUse < PDBuffers
    /\ pd_data' = [pd_data EXCEPT ![k] = [refs |-> 1, written |-> FALSE]]
    /\ sending' = [sending EXCEPT ![r].write = @ \cup {k}]

alloc_next(r) ==
    /\ alloc_job.req = {r} /\ alloc_job.left # <<>>
    /\ LET k == Head(alloc_job.left)
       IN  /\ already_sent(r, k) \/ allocate_and_put(r, k)
           /\ promised' = promised \cup {<<r, k>>}
    /\ alloc_job' = [alloc_job EXCEPT !.left = Tail(@)]
    /\ UNCHANGED <<prefill, num_transferred, decode_vars>>

alloc_replies(r) ==
    /\ alloc_job.req = {r} /\ alloc_job.left = <<>>
    /\ alloc_job' = NoJob
    /\ prefill' = [prefill EXCEPT ![r] = "answered"]
    /\ UNCHANGED <<pd_data, num_transferred, sending, promised, decode_vars>>

\* ---------------------------------------------------------------- the decoder

\* Lookup (without pins), then the chunks beyond the ones vLLM has computed are copied.
decode_loads(r) ==
    /\ decode[r] = "visible"
    /\ \E computed \in 0 .. Len(PDKeysOf[r]), hit \in 0 .. Len(PDKeysOf[r]) :
        LET keys == {PDKeysOf[r][i] : i \in computed + 1 .. hit}
        IN  /\ \A i \in 1 .. hit : Present(PDKeysOf[r][i])
            /\ hit < Len(PDKeysOf[r]) => ~Present(PDKeysOf[r][hit + 1])
            /\ loaded' = [loaded EXCEPT ![r] = keys]
            /\ read_unwritten' = read_unwritten \cup
                   {<<r, k>> : k \in {j \in keys : ~pd_data[j].written}}
    /\ decode' = [decode EXCEPT ![r] = "loaded"]
    /\ UNCHANGED <<pd_data, prefill_vars, alloc_job, promised, preempts>>

\* PDBackend.remove drops the entry if this is the last reference; the engine then gives its
\* reference up.
decode_removes(r, k) ==
    /\ decode[r] = "loaded" /\ k \in loaded[r]
    /\ pd_data' = [pd_data EXCEPT ![k] = IF @.refs <= 1 THEN NoEntry ELSE [pd_data[k] EXCEPT !.refs = @ - 1]]
    /\ loaded' = [loaded EXCEPT ![r] = @ \ {k}]
    /\ promised' = promised \ {<<r, k>>}
    /\ UNCHANGED <<prefill_vars, alloc_job, decode, read_unwritten, preempts>>

decode_done(r) ==
    /\ decode[r] = "loaded" /\ loaded[r] = {}
    /\ decode' = [decode EXCEPT ![r] = "done"]
    /\ UNCHANGED <<pd_data, prefill_vars, alloc_job, promised, loaded, read_unwritten, preempts>>

\* vLLM takes the request's blocks back; when it resumes, the chunks are looked up again.
decode_preempted(r) ==
    /\ decode[r] = "done" /\ preempts < MaxPreempts
    /\ decode' = [decode EXCEPT ![r] = "visible"]
    /\ preempts' = preempts + 1
    /\ UNCHANGED <<pd_data, prefill_vars, alloc_job, promised, loaded, read_unwritten>>

PDNext ==
    \E r \in PDReqs :
        \/ remote_allocate(r) \/ transfer_done(r) \/ transfer_fails(r)
        \/ alloc_receives(r) \/ alloc_next(r) \/ alloc_replies(r)
        \/ decode_loads(r) \/ decode_done(r) \/ decode_preempted(r)
        \/ \E k \in PDKeys : decode_removes(r, k)

PDSpec == PDInit /\ [][PDNext]_pd_vars

\* ---------------------------------------------------------------- properties

\* A chunk the decoder has promised to requests stays in its memory with a reference for each
\* of them until they have loaded it, whoever allocated it and whoever gives it up first
\* (contains(pin=True) of the allocation thread against remove of the retrieves).  A request
\* that is loaded again after a preemption gives up references it was not promised: the
\* property is about behaviours before that.
PromisedChunksStay ==
    preempts = 0 =>
        \A k \in PDKeys : pd_data[k].refs >= Cardinality({r \in PDReqs : <<r, k>> \in promised})

\* _mem_alloc_loop: "it's okay to put the memory objs into the storage backend first because
\* decode vllm will not be able to see the decode request until proxy receives the ack": the
\* decoder copies only chunks whose data has arrived.
DecodeReadsWritten == read_unwritten = {}
=============================================================================
