--------------------------- MODULE TransferProofs ----------------------------
(***************************************************************************)
(* Transfers between instances: chunks a decoder has promised to requests  *)
(* (PDTransfer) stay in its memory, and chunks fetched from a peer         *)
(* (P2PBackend) are the chunks that were asked for.                        *)
(***************************************************************************)
EXTENDS PDTransfer, P2PBackend, FiniteSetTheorems, SequenceTheorems, NaturalsInduction, WellFoundedInduction,
    TLAPS

----------------------------------------------------------------------------
\* PDTransfer.

\* The requests that hold a reference to a chunk.
Promises(p, k) == {r \in PDReqs : <<r, k>> \in p}

Entries == [refs : Nat, written : BOOLEAN]
PutBatches == [upto : Nat, write : SUBSET PDKeys]

PDTypeOK ==
    /\ pd_data \in [PDKeys -> Entries]
    /\ prefill \in [PDReqs -> {"idle", "asking", "allocating", "answered", "failed", "sent"}]
    /\ num_transferred \in [PDReqs -> Nat]
    /\ sending \in [PDReqs -> PutBatches]
    /\ alloc_job \in [req : SUBSET PDReqs, left : Seq(PDKeys)]
    /\ decode \in [PDReqs -> {"hidden", "visible", "loaded", "done"}]
    /\ loaded \in [PDReqs -> SUBSET PDKeys]
    /\ preempts \in Nat

\* The first n chunks of a request have been promised to it.
PromisedUpTo(p, r, n) == \A i \in 1..n : <<r, PDKeysOf[r][i]>> \in p

\* The batch of a request covers the chunks after the ones transferred.
BatchInRange ==
    \A r \in PDReqs :
        /\ num_transferred[r] <= Len(PDKeysOf[r])
        /\ prefill[r] \in {"asking", "allocating", "answered"} =>
              num_transferred[r] <= sending[r].upto /\ sending[r].upto <= Len(PDKeysOf[r])

\* The decoder sees a request once its last chunk was sent.
HiddenUntilSent == \A r \in PDReqs : decode[r] # "hidden" => prefill[r] = "sent"

\* The allocation thread works through the batch of the request it serves.
JobMatches ==
    \A r \in PDReqs :
        /\ alloc_job.req = {r} => prefill[r] = "allocating"
        /\ prefill[r] = "allocating" =>
              /\ alloc_job.req = {r}
              /\ Len(alloc_job.left) <= sending[r].upto - num_transferred[r]
              /\ \A i \in 1..Len(alloc_job.left) :
                    alloc_job.left[i] = PDKeysOf[r][sending[r].upto - Len(alloc_job.left) + i]

\* What has been promised at every stage of a request.
PromisesMade ==
    \A r \in PDReqs :
        /\ decode[r] = "hidden" => PromisedUpTo(promised, r, num_transferred[r])
        /\ prefill[r] = "allocating" => PromisedUpTo(promised, r, sending[r].upto - Len(alloc_job.left))
        /\ prefill[r] = "answered" => PromisedUpTo(promised, r, sending[r].upto)
        /\ decode[r] = "visible" => PromisedUpTo(promised, r, Len(PDKeysOf[r]))
        /\ decode[r] = "loaded" => \A k \in loaded[r] : <<r, k>> \in promised

RefsCovered == \A k \in PDKeys : pd_data[k].refs >= Cardinality(Promises(promised, k))

PDInv ==
    /\ PDTypeOK
    /\ BatchInRange
    /\ HiddenUntilSent
    /\ JobMatches
    /\ preempts = 0 => PromisesMade /\ RefsCovered

LEMMA EntryWithRefs ==
    ASSUME NEW e \in Entries, NEW n \in Nat
    PROVE  [e EXCEPT !.refs = n] \in Entries /\ [e EXCEPT !.refs = n].refs = n
BY DEF Entries

LEMMA EntryWritten ==
    ASSUME NEW e \in Entries
    PROVE  [e EXCEPT !.written = TRUE] \in Entries /\ [e EXCEPT !.written = TRUE].refs = e.refs
BY DEF Entries

LEMMA PDInvInit == PDInit => PDInv
<1> SUFFICES ASSUME PDInit PROVE PDInv
  OBVIOUS
<1>1. \A r \in PDReqs : PDKeysOf[r] \in Seq(PDKeys) /\ Len(PDKeysOf[r]) \in Nat
  BY PDAssumption
<1>2. PDTypeOK
  BY DEF PDInit, PDTypeOK, NoEntry, NoJob, Entries, PutBatches
<1>3. BatchInRange /\ HiddenUntilSent
  BY <1>1 DEF PDInit, BatchInRange, HiddenUntilSent
<1>4. JobMatches
  BY DEF PDInit, JobMatches, NoJob
<1>5. PromisesMade
  BY DEF PDInit, PromisesMade, PromisedUpTo
<1>6. RefsCovered
  <2>1. \A k \in PDKeys : Promises(promised, k) = {}
    BY DEF PDInit, Promises
  <2>2. \A k \in PDKeys : Cardinality(Promises(promised, k)) = 0
    BY <2>1, FS_EmptySet
  <2>3. \A k \in PDKeys : pd_data[k].refs = 0
    BY DEF PDInit, NoEntry
  <2> QED BY <2>2, <2>3 DEF RefsCovered
<1> QED BY <1>2, <1>3, <1>4, <1>5, <1>6 DEF PDInv

LEMMA PromisesFinite ==
    ASSUME NEW p, NEW k
    PROVE  IsFiniteSet(Promises(p, k)) /\ Cardinality(Promises(p, k)) \in Nat
BY FS_Subset, FS_CardinalityType, PDAssumption DEF Promises

\* remote_allocate: the batch of an idle request.
LEMMA AskKeeps ==
    ASSUME PDInv, NEW r \in PDReqs, remote_allocate(r)
    PROVE  PDInv'
<1>1. /\ PDTypeOK /\ prefill[r] = "idle"
      /\ prefill' = [prefill EXCEPT ![r] = "asking"]
      /\ UNCHANGED <<pd_data, num_transferred, alloc_job, promised, decode, loaded, preempts>>
  BY DEF PDInv, remote_allocate, decode_vars
<1>2. PICK n \in num_transferred[r] + 1 .. Len(PDKeysOf[r]) :
        sending' = [sending EXCEPT ![r] = [upto |-> n, write |-> {}]]
  BY DEF remote_allocate
<1>3. n \in Nat /\ num_transferred[r] <= n /\ n <= Len(PDKeysOf[r])
  BY <1>1, <1>2, PDAssumption DEF PDTypeOK
<1>4. PDTypeOK'
  BY <1>1, <1>2, <1>3 DEF PDTypeOK, PutBatches
<1>5. /\ \A q \in PDReqs : q # r => prefill'[q] = prefill[q] /\ sending'[q] = sending[q]
      /\ prefill'[r] = "asking" /\ sending'[r].upto = n
  BY <1>1, <1>2 DEF PDTypeOK
<1>6. BatchInRange' /\ HiddenUntilSent'
  BY <1>1, <1>3, <1>5 DEF PDInv, BatchInRange, HiddenUntilSent
<1>7. JobMatches'
  BY <1>1, <1>5 DEF PDInv, JobMatches
<1>8. preempts' = 0 => PromisesMade' /\ RefsCovered'
  BY <1>1, <1>5 DEF PDInv, PromisesMade, RefsCovered
<1> QED BY <1>4, <1>6, <1>7, <1>8 DEF PDInv

\* transfer_done: what was promised up to the end of the batch is transferred, and
\* the whole request visible after the last batch.
LEMMA DoneKeeps ==
    ASSUME PDInv, NEW r \in PDReqs, transfer_done(r)
    PROVE  PDInv'
<1>1. /\ PDTypeOK /\ prefill[r] = "answered"
      /\ pd_data' = [k \in PDKeys |-> IF k \in sending[r].write /\ Present(k)
                                       THEN [pd_data[k] EXCEPT !.written = TRUE] ELSE pd_data[k]]
      /\ num_transferred' = [num_transferred EXCEPT ![r] = sending[r].upto]
      /\ UNCHANGED <<sending, alloc_job, promised, loaded, preempts>>
  BY DEF PDInv, transfer_done
<1>2. PICK last \in BOOLEAN :
        /\ last <=> sending[r].upto = Len(PDKeysOf[r])
        /\ prefill' = [prefill EXCEPT ![r] = IF last THEN "sent" ELSE "idle"]
        /\ decode' = [decode EXCEPT ![r] = IF last THEN "visible" ELSE @]
  BY DEF transfer_done
<1>3. decode[r] = "hidden" /\ sending[r].upto \in Nat /\ sending[r].upto <= Len(PDKeysOf[r])
  BY <1>1 DEF PDInv, PDTypeOK, PutBatches, HiddenUntilSent, BatchInRange
<1>4. /\ pd_data' \in [PDKeys -> Entries]
      /\ \A k \in PDKeys : pd_data'[k].refs = pd_data[k].refs
  BY <1>1, EntryWritten DEF PDTypeOK
<1>5. /\ \A q \in PDReqs : q # r => /\ prefill'[q] = prefill[q] /\ decode'[q] = decode[q]
                                    /\ num_transferred'[q] = num_transferred[q]
      /\ prefill'[r] = (IF last THEN "sent" ELSE "idle")
      /\ decode'[r] = (IF last THEN "visible" ELSE "hidden")
      /\ num_transferred'[r] = sending[r].upto
  BY <1>1, <1>2, <1>3 DEF PDTypeOK
<1>6. PDTypeOK'
  BY <1>1, <1>2, <1>3, <1>4 DEF PDTypeOK
<1>7. BatchInRange' /\ HiddenUntilSent'
  BY <1>1, <1>3, <1>5 DEF PDInv, BatchInRange, HiddenUntilSent
<1>8. JobMatches'
  BY <1>1, <1>5 DEF PDInv, JobMatches
<1>9. ASSUME preempts' = 0 PROVE PromisesMade' /\ RefsCovered'
  <2>1. PromisesMade /\ RefsCovered
    BY <1>1, <1>9 DEF PDInv
  <2>2. PromisedUpTo(promised, r, sending[r].upto)
    BY <1>1, <2>1 DEF PromisesMade
  <2>3. PromisesMade'
    BY <1>1, <1>2, <1>5, <2>1, <2>2 DEF PromisesMade
  <2> QED BY <1>1, <1>4, <2>1, <2>3 DEF RefsCovered
<1> QED BY <1>6, <1>7, <1>8, <1>9 DEF PDInv

LEMMA FailKeeps ==
    ASSUME PDInv, NEW r \in PDReqs, transfer_fails(r)
    PROVE  PDInv'
<1>1. /\ PDTypeOK /\ prefill[r] = "answered" /\ prefill' = [prefill EXCEPT ![r] = "failed"]
      /\ UNCHANGED <<pd_data, num_transferred, sending, alloc_job, promised, decode, loaded, preempts>>
  BY DEF PDInv, transfer_fails, decode_vars
<1>2. prefill'[r] = "failed" /\ \A q \in PDReqs : q # r => prefill'[q] = prefill[q]
  BY <1>1 DEF PDTypeOK
<1>3. PDTypeOK'
  BY <1>1 DEF PDTypeOK
<1>4. BatchInRange' /\ HiddenUntilSent' /\ JobMatches'
  BY <1>1, <1>2 DEF PDInv, BatchInRange, HiddenUntilSent, JobMatches
<1>5. preempts' = 0 => PromisesMade' /\ RefsCovered'
  BY <1>1, <1>2 DEF PDInv, PromisesMade, RefsCovered
<1> QED BY <1>3, <1>4, <1>5 DEF PDInv

\* The allocation thread takes a request: it serves no other.
LEMMA ReceiveKeeps ==
    ASSUME PDInv, NEW r \in PDReqs, alloc_receives(r)
    PROVE  PDInv'
<1>1. /\ PDTypeOK /\ alloc_job = NoJob /\ prefill[r] = "asking"
      /\ prefill' = [prefill EXCEPT ![r] = "allocating"]
      /\ UNCHANGED <<pd_data, num_transferred, sending, promised, decode, loaded, preempts>>
  BY DEF PDInv, alloc_receives, decode_vars
<1>2. PICK m \in Nat, n \in Nat, s \in Seq(PDKeys) :
        m = num_transferred[r] /\ n = sending[r].upto /\ s = PDKeysOf[r]
  BY <1>1, PDAssumption DEF PDTypeOK, PutBatches
<1>3. m <= n /\ n <= Len(s)
  BY <1>1, <1>2 DEF PDInv, BatchInRange
<1>4. PICK left : left = SubSeq(s, m + 1, n)
  OBVIOUS
<1>5. left \in Seq(PDKeys) /\ Len(left) = n - m /\ \A i \in 1..(n - m) : left[i] = s[m + i]
  BY <1>3, <1>4
<1>6. alloc_job' = [req |-> {r}, left |-> left]
  BY <1>2, <1>4 DEF alloc_receives
<1>7. PDTypeOK'
  BY <1>1, <1>5, <1>6 DEF PDTypeOK
<1>8. /\ prefill'[r] = "allocating" /\ \A q \in PDReqs : q # r => prefill'[q] = prefill[q]
      /\ alloc_job'.req = {r} /\ alloc_job'.left = left
  BY <1>1, <1>6 DEF PDTypeOK
<1>9. BatchInRange' /\ HiddenUntilSent'
  BY <1>1, <1>8 DEF PDInv, BatchInRange, HiddenUntilSent
<1>10. JobMatches'
  <2>1. \A q \in PDReqs : prefill[q] # "allocating"
    BY <1>1 DEF PDInv, JobMatches, NoJob
  <2>2. \A q \in PDReqs : prefill'[q] = "allocating" <=> q = r
    BY <1>8, <2>1
  <2>3. \A i \in 1..Len(left) : left[i] = s[n - Len(left) + i]
    BY <1>3, <1>5
  <2>4. Len(left) <= n - m
    BY <1>5
  <2> QED BY <1>1, <1>2, <1>8, <2>2, <2>3, <2>4 DEF JobMatches
<1>11. ASSUME preempts' = 0 PROVE PromisesMade' /\ RefsCovered'
  <2>1. PromisesMade /\ RefsCovered
    BY <1>1, <1>11 DEF PDInv
  <2>2. \A q \in PDReqs : prefill'[q] = "allocating" <=> q = r
    BY <1>1, <1>8 DEF PDInv, JobMatches, NoJob
  <2>3. decode[r] = "hidden"
    BY <1>1 DEF PDInv, PDTypeOK, HiddenUntilSent
  <2>4. PromisedUpTo(promised, r, n - Len(left))
    <3>1. n - Len(left) = m
      BY <1>3, <1>5
    <3> QED BY <1>2, <2>1, <2>3, <3>1 DEF PromisesMade
  <2>5. PromisesMade'
    BY <1>1, <1>2, <1>8, <2>1, <2>2, <2>4 DEF PromisesMade
  <2> QED BY <1>1, <2>1, <2>5 DEF RefsCovered
<1> QED BY <1>7, <1>9, <1>10, <1>11 DEF PDInv

\* A chunk there already gets a reference more, a new one its first.
LEMMA AllocateKeeps ==
    ASSUME PDInv, NEW r \in PDReqs, alloc_next(r)
    PROVE  PDInv'
<1>1. /\ PDTypeOK /\ alloc_job.req = {r} /\ alloc_job.left # <<>>
      /\ alloc_job' = [alloc_job EXCEPT !.left = Tail(@)]
      /\ UNCHANGED <<prefill, num_transferred, decode, loaded, preempts>>
  BY DEF PDInv, alloc_next, decode_vars
<1>2. PICK s \in Seq(PDKeys), n \in Nat, k \in PDKeys :
        s = alloc_job.left /\ n = sending[r].upto /\ k = Head(s)
  BY <1>1 DEF PDTypeOK, PutBatches
<1>3. /\ s # <<>> /\ Len(s) \in Nat /\ Len(s) >= 1 /\ k = s[1]
      /\ Tail(s) \in Seq(PDKeys) /\ Len(Tail(s)) = Len(s) - 1
      /\ \A i \in 1..(Len(s) - 1) : Tail(s)[i] = s[i + 1]
  BY <1>1, <1>2
<1>4. /\ already_sent(r, k) \/ allocate_and_put(r, k)
      /\ promised' = promised \cup {<<r, k>>}
      /\ alloc_job'.req = {r} /\ alloc_job'.left = Tail(s)
      /\ alloc_job' \in [req : SUBSET PDReqs, left : Seq(PDKeys)]
  BY <1>1, <1>2, <1>3 DEF alloc_next, PDTypeOK
<1>5. /\ pd_data' \in [PDKeys -> Entries]
      /\ pd_data'[k].refs = pd_data[k].refs + 1
      /\ \A j \in PDKeys : j # k => pd_data'[j].refs = pd_data[j].refs
  <2>1. PICK e \in Entries, n1 \in Nat : e = pd_data[k] /\ n1 = pd_data[k].refs
    BY <1>1 DEF PDTypeOK, Entries
  <2>2. PICK f \in Entries : f.refs = n1 + 1 /\ pd_data' = [pd_data EXCEPT ![k] = f]
    <3>1. CASE already_sent(r, k)
      <4>1. n1 + 1 \in Nat
        OBVIOUS
      <4>2. pd_data' = [pd_data EXCEPT ![k] = [e EXCEPT !.refs = n1 + 1]]
        BY <2>1, <3>1 DEF already_sent
      <4> QED BY <4>1, <4>2, EntryWithRefs
    <3>2. CASE allocate_and_put(r, k)
      <4>1. n1 = 0
        BY <2>1, <3>2 DEF allocate_and_put, Present
      <4>2. [refs |-> 1, written |-> FALSE] \in Entries
        BY DEF Entries
      <4>3. [refs |-> 1, written |-> FALSE].refs = n1 + 1
        BY <4>1
      <4>4. pd_data' = [pd_data EXCEPT ![k] = [refs |-> 1, written |-> FALSE]]
        BY <3>2 DEF allocate_and_put
      <4> QED BY <4>2, <4>3, <4>4
    <3> QED BY <1>4, <3>1, <3>2
  <2> QED BY <1>1, <2>1, <2>2 DEF PDTypeOK
<1>6. /\ sending' \in [PDReqs -> PutBatches]
      /\ \A q \in PDReqs : sending'[q].upto = sending[q].upto
  <2>1. CASE already_sent(r, k)
    BY <1>1, <2>1 DEF already_sent, PDTypeOK
  <2>2. CASE allocate_and_put(r, k)
    <3>1. PICK b \in PutBatches, w \in SUBSET PDKeys : b = sending[r] /\ w = b.write \cup {k}
      BY <1>1 DEF PDTypeOK, PutBatches
    <3>2. sending' = [sending EXCEPT ![r] = [b EXCEPT !.write = w]]
      BY <2>2, <3>1 DEF allocate_and_put
    <3>3. [b EXCEPT !.write = w] \in PutBatches /\ [b EXCEPT !.write = w].upto = b.upto
      BY DEF PutBatches
    <3> QED BY <1>1, <3>1, <3>2, <3>3 DEF PDTypeOK
  <2> QED BY <1>4, <2>1, <2>2
<1>7. PDTypeOK'
  BY <1>1, <1>4, <1>5, <1>6 DEF PDTypeOK
<1>8. BatchInRange' /\ HiddenUntilSent'
  BY <1>1, <1>6 DEF PDInv, BatchInRange, HiddenUntilSent
<1>9. /\ prefill[r] = "allocating" /\ \A q \in PDReqs : prefill[q] = "allocating" => q = r
      /\ Len(s) <= n - num_transferred[r] /\ num_transferred[r] \in Nat /\ n <= Len(PDKeysOf[r])
      /\ \A i \in 1..Len(s) : s[i] = PDKeysOf[r][n - Len(s) + i]
  <2>1. prefill[r] = "allocating" /\ \A q \in PDReqs : prefill[q] = "allocating" => q = r
    BY <1>1 DEF PDInv, JobMatches
  <2> QED BY <1>1, <1>2, <2>1 DEF PDInv, PDTypeOK, JobMatches, BatchInRange
<1>10. JobMatches'
  <2>1. Len(Tail(s)) <= n - num_transferred[r]
    BY <1>3, <1>9
  <2>2. ASSUME NEW i \in 1..Len(Tail(s)) PROVE Tail(s)[i] = PDKeysOf[r][n - Len(Tail(s)) + i]
    <3>1. i \in 1..(Len(s) - 1) /\ i + 1 \in 1..Len(s) /\ n - Len(s) + (i + 1) = n - Len(Tail(s)) + i
      BY <1>3
    <3> QED BY <1>3, <1>9, <3>1
  <2>3. sending'[r].upto = n
    BY <1>2, <1>6
  <2>4. ASSUME NEW q \in PDReqs, alloc_job'.req = {q} \/ prefill'[q] = "allocating" PROVE q = r
    BY <1>1, <1>4, <1>9, <2>4
  <2> QED BY <1>1, <1>4, <1>9, <2>1, <2>2, <2>3, <2>4 DEF JobMatches
<1>11. ASSUME preempts' = 0 PROVE PromisesMade' /\ RefsCovered'
  <2>1. PromisesMade /\ RefsCovered
    BY <1>1, <1>11 DEF PDInv
  <2>2. \A q \in PDReqs, m \in Nat : PromisedUpTo(promised, q, m) => PromisedUpTo(promised', q, m)
    BY <1>4 DEF PromisedUpTo
  <2>3. PromisedUpTo(promised', r, n - Len(Tail(s)))
    <3>1. PromisedUpTo(promised, r, n - Len(s))
      BY <1>2, <1>9, <2>1 DEF PromisesMade
    <3>2. n - Len(Tail(s)) = n - Len(s) + 1 /\ n - Len(s) \in Nat
      BY <1>3, <1>9
    <3>3. k = PDKeysOf[r][n - Len(s) + 1]
      BY <1>3, <1>9
    <3>4. ASSUME NEW i \in 1..(n - Len(Tail(s))) PROVE <<r, PDKeysOf[r][i]>> \in promised'
      <4>1. i \in 1..(n - Len(s)) \/ i = n - Len(s) + 1
        BY <3>2
      <4> QED BY <1>4, <3>1, <3>3, <4>1 DEF PromisedUpTo
    <3> QED BY <3>4 DEF PromisedUpTo
  <2>4. ASSUME NEW q \in PDReqs
        PROVE  /\ decode'[q] = "hidden" => PromisedUpTo(promised', q, num_transferred'[q])
               /\ prefill'[q] = "allocating" => PromisedUpTo(promised', q, sending'[q].upto - Len(alloc_job'.left))
               /\ prefill'[q] = "answered" => PromisedUpTo(promised', q, sending'[q].upto)
               /\ decode'[q] = "visible" => PromisedUpTo(promised', q, Len(PDKeysOf[q]))
               /\ decode'[q] = "loaded" => \A j \in loaded'[q] : <<q, j>> \in promised'
    <3>1. num_transferred[q] \in Nat /\ sending[q].upto \in Nat /\ Len(PDKeysOf[q]) \in Nat
      BY <1>1, PDAssumption DEF PDTypeOK, PutBatches
    <3>2. prefill'[q] = "allocating" => PromisedUpTo(promised', q, sending'[q].upto - Len(alloc_job'.left))
      BY <1>1, <1>2, <1>4, <1>6, <1>9, <2>3
    <3> QED BY <1>1, <1>4, <1>6, <2>1, <2>2, <3>1, <3>2 DEF PromisesMade
  <2>5. ASSUME NEW j \in PDKeys PROVE pd_data'[j].refs >= Cardinality(Promises(promised', j))
    <3>1. /\ pd_data[j].refs \in Nat /\ pd_data[j].refs >= Cardinality(Promises(promised, j))
          /\ IsFiniteSet(Promises(promised, j)) /\ Cardinality(Promises(promised, j)) \in Nat
      BY <1>1, <2>1, PromisesFinite DEF RefsCovered, PDTypeOK, Entries
    <3>2. CASE j # k
      <4>1. Promises(promised', j) = Promises(promised, j)
        BY <1>4, <3>2 DEF Promises
      <4> QED BY <1>5, <3>1, <3>2, <4>1
    <3>3. CASE j = k
      <4>1. Promises(promised', j) = Promises(promised, j) \cup {r}
        BY <1>4, <3>3 DEF Promises
      <4>2. Cardinality(Promises(promised', j)) <= Cardinality(Promises(promised, j)) + 1
        <5>1. r \in Promises(promised, j) => Promises(promised', j) = Promises(promised, j)
          BY <4>1
        <5>2. r \notin Promises(promised, j) => Cardinality(Promises(promised', j)) = Cardinality(Promises(promised, j)) + 1
          BY <3>1, <4>1, FS_AddElement
        <5> QED BY <3>1, <5>1, <5>2
      <4>3. Cardinality(Promises(promised', j)) \in Nat
        BY PromisesFinite
      <4> QED BY <1>5, <3>1, <3>3, <4>2, <4>3
    <3> QED BY <3>2, <3>3
  <2>6. PromisesMade'
    BY <2>4 DEF PromisesMade
  <2> QED BY <2>5, <2>6 DEF RefsCovered
<1> QED BY <1>7, <1>8, <1>10, <1>11 DEF PDInv

LEMMA ReplyKeeps ==
    ASSUME PDInv, NEW r \in PDReqs, alloc_replies(r)
    PROVE  PDInv'
<1>1. /\ PDTypeOK /\ alloc_job.req = {r} /\ alloc_job.left = <<>> /\ alloc_job' = NoJob
      /\ prefill' = [prefill EXCEPT ![r] = "answered"]
      /\ UNCHANGED <<pd_data, num_transferred, sending, promised, decode, loaded, preempts>>
  BY DEF PDInv, alloc_replies, decode_vars
<1>2. prefill[r] = "allocating" /\ \A q \in PDReqs : prefill[q] = "allocating" => q = r
  BY <1>1 DEF PDInv, JobMatches
<1>3. prefill'[r] = "answered" /\ \A q \in PDReqs : q # r => prefill'[q] = prefill[q]
  BY <1>1 DEF PDTypeOK
<1>4. PDTypeOK'
  BY <1>1 DEF PDTypeOK, NoJob
<1>5. BatchInRange' /\ HiddenUntilSent'
  BY <1>1, <1>2, <1>3 DEF PDInv, BatchInRange, HiddenUntilSent
<1>6. JobMatches'
  BY <1>1, <1>2, <1>3 DEF JobMatches, NoJob
<1>7. ASSUME preempts' = 0 PROVE PromisesMade' /\ RefsCovered'
  <2>1. PromisesMade /\ RefsCovered
    BY <1>1, <1>7 DEF PDInv
  <2>2. PromisedUpTo(promised, r, sending[r].upto)
    <3>1. sending[r].upto - Len(alloc_job.left) = sending[r].upto
      BY <1>1 DEF PDTypeOK, PutBatches
    <3> QED BY <1>2, <2>1, <3>1 DEF PromisesMade
  <2>3. PromisesMade'
    BY <1>1, <1>2, <1>3, <2>1, <2>2 DEF PromisesMade
  <2> QED BY <1>1, <2>1, <2>3 DEF RefsCovered
<1> QED BY <1>4, <1>5, <1>6, <1>7 DEF PDInv

\* The chunks a visible request copies were promised to it.
LEMMA LoadKeeps ==
    ASSUME PDInv, NEW r \in PDReqs, decode_loads(r)
    PROVE  PDInv'
<1>1. /\ PDTypeOK /\ decode[r] = "visible" /\ decode' = [decode EXCEPT ![r] = "loaded"]
      /\ UNCHANGED <<pd_data, prefill, num_transferred, sending, alloc_job, promised, preempts>>
  BY DEF PDInv, decode_loads, prefill_vars
<1>2. PICK computed \in 0 .. Len(PDKeysOf[r]), hit \in 0 .. Len(PDKeysOf[r]) :
        loaded' = [loaded EXCEPT ![r] = {PDKeysOf[r][i] : i \in computed + 1 .. hit}]
  BY <1>1 DEF decode_loads
<1>3. PICK keys : keys = {PDKeysOf[r][i] : i \in computed + 1 .. hit}
  OBVIOUS
<1>4. PDKeysOf[r] \in Seq(PDKeys) /\ Len(PDKeysOf[r]) \in Nat
  BY PDAssumption
<1>5. \A i \in computed + 1 .. hit : i \in 1..Len(PDKeysOf[r])
  BY <1>4
<1>6. keys \subseteq PDKeys
  BY <1>3, <1>4, <1>5
<1>7. PDTypeOK'
  BY <1>1, <1>2, <1>3, <1>6 DEF PDTypeOK
<1>8. /\ decode'[r] = "loaded" /\ loaded'[r] = keys
      /\ \A q \in PDReqs : q # r => decode'[q] = decode[q] /\ loaded'[q] = loaded[q]
  BY <1>1, <1>2, <1>3 DEF PDTypeOK
<1>9. BatchInRange' /\ JobMatches'
  BY <1>1 DEF PDInv, BatchInRange, JobMatches
<1>10. HiddenUntilSent'
  BY <1>1, <1>8 DEF PDInv, HiddenUntilSent
<1>11. ASSUME preempts' = 0 PROVE PromisesMade' /\ RefsCovered'
  <2>1. PromisesMade /\ RefsCovered
    BY <1>1, <1>11 DEF PDInv
  <2>2. PromisedUpTo(promised, r, Len(PDKeysOf[r]))
    BY <1>1, <2>1 DEF PromisesMade
  <2>3. \A k \in keys : <<r, k>> \in promised
    BY <1>3, <1>5, <2>2 DEF PromisedUpTo
  <2>4. prefill[r] = "sent"
    BY <1>1 DEF PDInv, HiddenUntilSent
  <2>5. PromisesMade'
    BY <1>1, <1>8, <2>1, <2>3, <2>4 DEF PromisesMade
  <2> QED BY <1>1, <2>1, <2>5 DEF RefsCovered
<1> QED BY <1>7, <1>9, <1>10, <1>11 DEF PDInv

\* A retrieve gives up the reference that was promised to its request, never
\* that of another.
LEMMA RemoveKeeps ==
    ASSUME PDInv, NEW r \in PDReqs, NEW k \in PDKeys, decode_removes(r, k)
    PROVE  PDInv'
<1>1. /\ PDTypeOK /\ decode[r] = "loaded" /\ k \in loaded[r]
      /\ pd_data' = [pd_data EXCEPT ![k] = IF @.refs <= 1 THEN NoEntry ELSE [pd_data[k] EXCEPT !.refs = @ - 1]]
      /\ loaded' = [loaded EXCEPT ![r] = @ \ {k}]
      /\ promised' = promised \ {<<r, k>>}
      /\ UNCHANGED <<prefill, num_transferred, sending, alloc_job, decode, preempts>>
  BY DEF PDInv, decode_removes, prefill_vars
<1>2. /\ pd_data' \in [PDKeys -> Entries]
      /\ pd_data'[k].refs >= pd_data[k].refs - 1
      /\ \A j \in PDKeys : j # k => pd_data'[j].refs = pd_data[j].refs
  <2>1. PICK e \in Entries, n \in Nat : e = pd_data[k] /\ n = pd_data[k].refs
    BY <1>1 DEF PDTypeOK, Entries
  <2>2. PICK f \in Entries : f.refs >= n - 1 /\ pd_data' = [pd_data EXCEPT ![k] = f]
    <3>0. pd_data' = [pd_data EXCEPT ![k] = IF n <= 1 THEN NoEntry ELSE [e EXCEPT !.refs = n - 1]]
      BY <1>1, <2>1
    <3>1. CASE n <= 1
      <4>1. NoEntry \in Entries /\ NoEntry.refs = 0
        BY DEF NoEntry, Entries
      <4>2. pd_data' = [pd_data EXCEPT ![k] = NoEntry]
        BY <3>0, <3>1
      <4>3. 0 >= n - 1
        BY <3>1
      <4> QED BY <4>1, <4>2, <4>3
    <3>2. CASE ~(n <= 1)
      <4>1. n - 1 \in Nat
        BY <3>2
      <4>2. pd_data' = [pd_data EXCEPT ![k] = [e EXCEPT !.refs = n - 1]]
        BY <3>0, <3>2
      <4>3. [e EXCEPT !.refs = n - 1] \in Entries /\ [e EXCEPT !.refs = n - 1].refs = n - 1
        BY <4>1, EntryWithRefs
      <4>4. n - 1 >= n - 1
        BY <4>1
      <4> QED BY <4>2, <4>3, <4>4
    <3> QED BY <3>1, <3>2
  <2> QED BY <1>1, <2>1, <2>2, ZenonT(60) DEF PDTypeOK
<1>3. loaded' \in [PDReqs -> SUBSET PDKeys] /\ \A q \in PDReqs : loaded'[q] \subseteq loaded[q]
  BY <1>1 DEF PDTypeOK
<1>4. loaded'[r] = loaded[r] \ {k}
  BY <1>1 DEF PDTypeOK
<1>5. PDTypeOK'
  BY <1>1, <1>2, <1>3 DEF PDTypeOK
<1>6. BatchInRange' /\ JobMatches' /\ HiddenUntilSent'
  BY <1>1 DEF PDInv, BatchInRange, JobMatches, HiddenUntilSent
<1>7. ASSUME preempts' = 0 PROVE PromisesMade' /\ RefsCovered'
  <2>1. PromisesMade /\ RefsCovered
    BY <1>1, <1>7 DEF PDInv
  <2>2. prefill[r] = "sent"
    BY <1>1 DEF PDInv, HiddenUntilSent
  <2>3. \A q \in PDReqs : \A m : q # r => (PromisedUpTo(promised', q, m) <=> PromisedUpTo(promised, q, m))
    BY <1>1 DEF PromisedUpTo
  <2>4. \A q \in PDReqs : decode'[q] = "loaded" => \A j \in loaded'[q] : <<q, j>> \in promised'
    BY <1>1, <1>3, <1>4, <2>1 DEF PromisesMade
  <2>5. PromisesMade'
    BY <1>1, <2>1, <2>2, <2>3, <2>4 DEF PromisesMade
  <2>6. ASSUME NEW j \in PDKeys PROVE pd_data'[j].refs >= Cardinality(Promises(promised', j))
    <3>1. /\ pd_data[j].refs \in Nat /\ pd_data[j].refs >= Cardinality(Promises(promised, j))
          /\ IsFiniteSet(Promises(promised, j)) /\ Cardinality(Promises(promised, j)) \in Nat
      BY <1>1, <2>1, PromisesFinite DEF RefsCovered, PDTypeOK, Entries
    <3>2. CASE j # k
      <4>1. Promises(promised', j) = Promises(promised, j)
        BY <1>1, <3>2 DEF Promises
      <4> QED BY <1>2, <3>1, <3>2, <4>1
    <3>3. CASE j = k
      <4>1. Promises(promised', j) = Promises(promised, j) \ {r} /\ r \in Promises(promised, j)
        BY <1>1, <2>1, <3>3 DEF Promises, PromisesMade
      <4>2. Cardinality(Promises(promised', j)) = Cardinality(Promises(promised, j)) - 1
        <5>1. Cardinality(Promises(promised, j) \ {r}) = Cardinality(Promises(promised, j)) - 1
          BY <3>1, <4>1, FS_RemoveElement, Zenon
        <5> QED BY <4>1, <5>1
      <4>3. pd_data'[j].refs \in Nat
        BY <1>2 DEF Entries
      <4> QED BY <1>2, <3>1, <3>3, <4>2, <4>3
    <3> QED BY <3>2, <3>3
  <2> QED BY <2>5, <2>6 DEF RefsCovered
<1> QED BY <1>5, <1>6, <1>7 DEF PDInv

LEMMA DecodedKeeps ==
    ASSUME PDInv, NEW r \in PDReqs, decode_done(r) \/ decode_preempted(r)
    PROVE  PDInv'
<1>1. PICK d \in {"done", "visible"} :
        /\ PDTypeOK /\ decode[r] \in {"loaded", "done"} /\ decode' = [decode EXCEPT ![r] = d]
        /\ \/ d = "done" /\ preempts' = preempts
           \/ preempts' = preempts + 1
        /\ UNCHANGED <<pd_data, prefill, num_transferred, sending, alloc_job, promised, loaded>>
  BY DEF PDInv, decode_done, decode_preempted, prefill_vars
<1>2. preempts \in Nat /\ preempts' \in Nat /\ (preempts' = 0 => d = "done" /\ preempts = 0)
  BY <1>1 DEF PDTypeOK
<1>3. decode'[r] = d /\ \A q \in PDReqs : q # r => decode'[q] = decode[q]
  BY <1>1 DEF PDTypeOK
<1>4. PDTypeOK'
  BY <1>1, <1>2 DEF PDTypeOK
<1>5. BatchInRange' /\ JobMatches'
  BY <1>1 DEF PDInv, BatchInRange, JobMatches
<1>6. HiddenUntilSent'
  BY <1>1, <1>3 DEF PDInv, HiddenUntilSent
<1>7. ASSUME preempts' = 0 PROVE PromisesMade' /\ RefsCovered'
  <2>1. PromisesMade /\ RefsCovered /\ prefill[r] = "sent"
    BY <1>1, <1>2, <1>7 DEF PDInv, HiddenUntilSent
  <2>2. PromisesMade'
    BY <1>1, <1>2, <1>3, <1>7, <2>1 DEF PromisesMade
  <2> QED BY <1>1, <2>1, <2>2 DEF RefsCovered
<1> QED BY <1>4, <1>5, <1>6, <1>7 DEF PDInv

LEMMA PDInvStep == PDInv /\ [PDNext]_pd_vars => PDInv'
<1>1. ASSUME PDInv, UNCHANGED pd_vars PROVE PDInv'
  BY <1>1 DEF pd_vars, prefill_vars, decode_vars, PDInv, PDTypeOK, BatchInRange, HiddenUntilSent, JobMatches,
              PromisesMade, RefsCovered
<1> QED BY <1>1, AskKeeps, DoneKeeps, FailKeeps, ReceiveKeeps, AllocateKeeps, ReplyKeeps, LoadKeeps,
           RemoveKeeps, DecodedKeeps DEF PDNext

\* For any requests, however their chunks overlap, and any size of the decoder's
\* memory: every chunk has a reference for each request it is promised to.
THEOREM PromisedChunksKept == PDSpec => []PromisedChunksStay
<1>1. PDInv => PromisedChunksStay
  BY DEF PDInv, RefsCovered, Promises, PromisedChunksStay
<1> QED BY <1>1, PDInvInit, PDInvStep, PTL DEF PDSpec

----------------------------------------------------------------------------
\* P2PBackend.

P2PRequests ==
    [stage : {"idle", "found", "ready", "sent", "raised", "got", "ended"}, found : Nat, bufs : Seq(P2PBufs),
     tries : Nat, hits : Nat]
P2PMsgs == [req : P2PReqs, socket : Nat, bufs : Seq(P2PBufs)]
P2PServings == [stage : {"found", "writing", "written", "failed"}, msg : P2PMsgs, hits : Nat]

P2PTypeOK ==
    /\ p2p_setup \in P2PSetups
    /\ p2p_req \in [P2PReqs -> P2PRequests]
    /\ lookup_lock \subseteq P2PReqs
    /\ lookup_socket \in Nat
    /\ p2p_msgs \subseteq P2PMsgs
    /\ p2p_answers \subseteq [kind : {"hits", "not_initialized", "server_error"}, n : Nat]
    /\ serving = NoServing \/ serving \in P2PServings

\* A request has buffer b for chunk i.
Held(req, r, i, b) == i \in DOMAIN req[r].bufs /\ req[r].bufs[i] = b

\* No buffer is handed out twice.
BufsApart ==
    \A r, q \in P2PReqs, i, j \in Nat, b \in P2PBufs :
        Held(p2p_req, r, i, b) /\ Held(p2p_req, q, j, b) => r = q /\ i = j

\* The lock is around send and recv, and one request at a time has it.
LockHeld ==
    /\ \A r \in P2PReqs : r \in lookup_lock <=> p2p_req[r].stage = "sent"
    /\ \A r, q \in lookup_lock : r = q
    /\ socket_waits => lookup_lock = {}
    /\ \A r \in P2PReqs : p2p_req[r].stage # "idle" => lookup_socket >= 1

Serves(m) == serving # NoServing /\ serving.msg = m
InFlight(m) == m \in p2p_msgs \/ Serves(m)
Current(m) == InFlight(m) /\ m.socket = lookup_socket

\* Messages come from sockets opened so far and, while their request may still be
\* answered, name its buffers.
MsgsMatch ==
    \A m \in P2PMsgs : InFlight(m) =>
        /\ 1 <= m.socket /\ m.socket <= lookup_socket
        /\ p2p_req[m.req].stage \notin {"idle", "found"}
        /\ p2p_req[m.req].stage \in {"ready", "sent"} => p2p_req[m.req].bufs = m.bufs
        /\ Serves(m) => serving.hits <= Len(m.bufs)

\* The socket in use carries one message or its answer, that of the request
\* with the lock; a socket left between send and recv carries what it may.
OneOutstanding ==
    /\ \A m, n \in P2PMsgs : Current(m) /\ Current(n) => m = n
    /\ \A m \in P2PMsgs : Serves(m) /\ Current(m) => m \notin p2p_msgs
    /\ p2p_answers # {} => \A m \in P2PMsgs : ~Current(m)
    /\ ~socket_waits => \A m \in P2PMsgs : Current(m) => m.req \in lookup_lock
    /\ ~socket_waits /\ p2p_answers # {} => lookup_lock # {}

\* No answer counts more chunks than the request has buffers.
AnswersInRange ==
    \A a \in p2p_answers, r \in lookup_lock : a.kind = "hits" => a.n <= Len(p2p_req[r].bufs)

\* The chunks written, answered and got are in the buffers they are for.
WrittenData ==
    \A m \in P2PMsgs : Serves(m) /\ serving.stage = "written" =>
        \A i \in 1..serving.hits : Held(p2p_req, m.req, i, m.bufs[i]) => buf_data[m.bufs[i]] = i

AnsweredData ==
    \A a \in p2p_answers, r \in lookup_lock : a.kind = "hits" =>
        \A i \in 1..a.n : i \in DOMAIN p2p_req[r].bufs /\ buf_data[p2p_req[r].bufs[i]] = i

GotData ==
    \A r \in P2PReqs : p2p_req[r].stage = "got" =>
        \A i \in 1..p2p_req[r].hits : i \in DOMAIN p2p_req[r].bufs /\ buf_data[p2p_req[r].bufs[i]] = i

P2PInv ==
    /\ P2PTypeOK /\ BufsApart /\ LockHeld /\ MsgsMatch /\ OneOutstanding /\ AnswersInRange
    /\ ~late_write => WrittenData /\ AnsweredData /\ GotData

\* The longest prefix of a message's keys in the cache is no longer than its buffers.
LEMMA PrefixHitsInRange ==
    ASSUME NEW n \in Nat
    PROVE  PrefixHits(n) \in 0..n
<1>1. PICK h \in 0..n : (\A i \in 1..h : i \in peer_cache) /\ (h < n => h + 1 \notin peer_cache)
  <2> DEFINE T == {h \in 0..n : h < n => h + 1 \notin peer_cache}
  <2>1. T \in SUBSET Nat /\ n \in T
    OBVIOUS
  <2>2. PICK h \in T : \A y \in T : ~(<<y, h>> \in OpToRel(<, Nat))
    <3> HIDE DEF T
    <3> QED BY <2>1, NatLessThanWellFounded, WFMin
  <2>3. h \in 0..n /\ (h < n => h + 1 \notin peer_cache)
    OBVIOUS
  <2>4. ASSUME NEW i \in 1..h PROVE i \in peer_cache
    <3>1. i - 1 \in 0..n /\ i - 1 \in Nat /\ i - 1 < h /\ i - 1 < n /\ (i - 1) + 1 = i
      BY <2>3
    <3>2. <<i - 1, h>> \in OpToRel(<, Nat)
      BY <2>3, <3>1 DEF OpToRel
    <3>3. i - 1 \notin T
      BY <2>2, <3>2
    <3> QED BY <3>1, <3>3
  <2> QED BY <2>3, <2>4
<1>2. 1..h \subseteq peer_cache
  BY <1>1
<1> QED BY <1>1, <1>2 DEF PrefixHits

LEMMA P2PInvInit == P2PInit => P2PInv
<1> SUFFICES ASSUME P2PInit PROVE P2PInv
  OBVIOUS
<1>1. /\ p2p_req = [r \in P2PReqs |-> NotStarted] /\ serving = NoServing
      /\ p2p_msgs = {} /\ p2p_answers = {} /\ lookup_lock = {}
  BY DEF P2PInit
<1>2. NotStarted \in P2PRequests /\ NotStarted.bufs = <<>> /\ NotStarted.stage = "idle"
  BY DEF NotStarted, P2PRequests
<1>3. P2PTypeOK
  BY <1>1, <1>2 DEF P2PTypeOK, P2PInit
<1>4. BufsApart
  BY <1>1, <1>2 DEF BufsApart, Held
<1>5. LockHeld
  BY <1>1, <1>2 DEF LockHeld
<1>6. MsgsMatch /\ OneOutstanding /\ AnswersInRange
  BY <1>1 DEF AnswersInRange, MsgsMatch, OneOutstanding, Current, InFlight, Serves
<1>7. WrittenData /\ AnsweredData /\ GotData
  BY <1>1, <1>2 DEF WrittenData, AnsweredData, GotData, Serves
<1> QED BY <1>3, <1>4, <1>5, <1>6, <1>7 DEF P2PInv

\* Steps of the peer that write nothing: messages are taken up or dropped, and an
\* answer of the socket in use takes the place of its message.
LEMMA PeerKeeps ==
    ASSUME P2PInv, P2PTypeOK',
           UNCHANGED <<p2p_req, lookup_lock, lookup_socket, socket_waits, buf_data, late_write>>,
           p2p_msgs' \subseteq p2p_msgs,
           \A m \in P2PMsgs : Serves(m)' =>
               /\ InFlight(m) /\ serving'.hits <= Len(m.bufs)
               /\ m.socket = lookup_socket => m \notin p2p_msgs'
               /\ serving'.stage = "written" =>
                     Serves(m) /\ serving.stage = "written" /\ serving'.hits = serving.hits,
           \/ p2p_answers' = p2p_answers
           \/ \E m \in P2PMsgs : \E a : /\ Current(m) /\ ~InFlight(m)' /\ p2p_answers' = {a}
                                        /\ a.kind = "hits" =>
                                             Serves(m) /\ serving.stage = "written" /\ a.n = serving.hits
    PROVE  P2PInv'
<1>1. \A m \in P2PMsgs : InFlight(m)' => InFlight(m)
  BY DEF InFlight
<1>2. \A m \in P2PMsgs : Current(m)' => Current(m)
  BY <1>1 DEF Current
<1>3. BufsApart' /\ LockHeld'
  BY DEF P2PInv, BufsApart, LockHeld, Held
<1>4. MsgsMatch'
  BY <1>1 DEF P2PInv, MsgsMatch
<1>5. OneOutstanding'
  <2>1. \A m, n \in P2PMsgs : Current(m)' /\ Current(n)' => m = n
    BY <1>2 DEF P2PInv, OneOutstanding
  <2>2. \A m \in P2PMsgs : Serves(m)' /\ Current(m)' => m \notin p2p_msgs'
    BY DEF Current
  <2>3. p2p_answers' # {} => \A m \in P2PMsgs : ~Current(m)'
    <3>1. CASE p2p_answers' = p2p_answers
      BY <1>2, <3>1 DEF P2PInv, OneOutstanding
    <3>2. CASE \E m \in P2PMsgs : Current(m) /\ ~InFlight(m)'
      BY <1>2, <3>2 DEF P2PInv, OneOutstanding, Current
    <3> QED BY <3>1, <3>2
  <2>4. ~socket_waits' => \A m \in P2PMsgs : Current(m)' => m.req \in lookup_lock'
    BY <1>2 DEF P2PInv, OneOutstanding
  <2>5. ~socket_waits' /\ p2p_answers' # {} => lookup_lock' # {}
    <3>1. CASE p2p_answers' = p2p_answers
      BY <3>1 DEF P2PInv, OneOutstanding
    <3>2. CASE \E m \in P2PMsgs : Current(m)
      BY <3>2 DEF P2PInv, OneOutstanding
    <3> QED BY <3>1, <3>2
  <2> QED BY <2>1, <2>2, <2>3, <2>4, <2>5 DEF OneOutstanding
<1>6. ASSUME NEW m \in P2PMsgs, NEW a, Current(m), p2p_answers' = {a}, NEW r \in lookup_lock,
             a.kind = "hits", Serves(m), serving.stage = "written", a.n = serving.hits
      PROVE  /\ r = m.req /\ p2p_req[r].bufs = m.bufs /\ m.bufs \in Seq(P2PBufs)
             /\ a.n \in Nat /\ a.n <= Len(m.bufs)
  <2>1. r = m.req /\ r \in P2PReqs /\ p2p_req[r].stage = "sent"
    BY <1>6 DEF P2PInv, P2PTypeOK, LockHeld, OneOutstanding
  <2>2. InFlight(m)
    BY <1>6 DEF InFlight
  <2>3. p2p_req[r].bufs = m.bufs /\ serving.hits <= Len(m.bufs)
    BY <1>6, <2>1, <2>2 DEF P2PInv, MsgsMatch
  <2>4. m.bufs \in Seq(P2PBufs) /\ serving.hits \in Nat
    BY <1>6 DEF P2PInv, P2PTypeOK, P2PMsgs, P2PServings, Serves
  <2> QED BY <1>6, <2>1, <2>3, <2>4
<1>7. AnswersInRange'
  <2>1. CASE p2p_answers' = p2p_answers
    BY <2>1 DEF P2PInv, AnswersInRange
  <2>2. CASE \E m \in P2PMsgs : \E a : /\ Current(m) /\ p2p_answers' = {a}
                                       /\ a.kind = "hits" =>
                                            Serves(m) /\ serving.stage = "written" /\ a.n = serving.hits
    BY <1>6, <2>2 DEF AnswersInRange
  <2> QED BY <2>1, <2>2
<1>8. ASSUME ~late_write' PROVE WrittenData' /\ AnsweredData' /\ GotData'
  <2>1. WrittenData /\ AnsweredData /\ GotData
    BY <1>8 DEF P2PInv
  <2>2. WrittenData' /\ GotData'
    BY <2>1 DEF WrittenData, GotData, Held
  <2>3. AnsweredData'
    <3>1. CASE p2p_answers' = p2p_answers
      BY <2>1, <3>1 DEF AnsweredData
    <3>2. ASSUME NEW m \in P2PMsgs, NEW a, Current(m), p2p_answers' = {a}, NEW r \in lookup_lock,
                 a.kind = "hits", Serves(m), serving.stage = "written", a.n = serving.hits,
                 NEW i \in 1..a.n
          PROVE  i \in DOMAIN p2p_req[r].bufs /\ buf_data[p2p_req[r].bufs[i]] = i
      <4>1. /\ r = m.req /\ p2p_req[r].bufs = m.bufs /\ m.bufs \in Seq(P2PBufs)
            /\ a.n \in Nat /\ a.n <= Len(m.bufs)
        BY <1>6, <3>2
      <4>2. i \in DOMAIN m.bufs
        BY <3>2, <4>1
      <4>3. Held(p2p_req, m.req, i, m.bufs[i])
        BY <4>1, <4>2 DEF Held
      <4>4. buf_data[m.bufs[i]] = i
        BY <2>1, <3>2, <4>3 DEF WrittenData
      <4> QED BY <4>1, <4>2, <4>4
    <3>3. CASE \E m \in P2PMsgs : \E a : /\ Current(m) /\ p2p_answers' = {a}
                                         /\ a.kind = "hits" =>
                                              Serves(m) /\ serving.stage = "written" /\ a.n = serving.hits
      BY <3>2, <3>3 DEF AnsweredData
    <3> QED BY <3>1, <3>3
  <2> QED BY <2>2, <2>3
<1> QED BY <1>3, <1>4, <1>5, <1>7, <1>8 DEF P2PInv

\* A request gives buffers up or keeps them: the data of what it keeps stays.
LEMMA FewerHeld ==
    ASSUME P2PInv, UNCHANGED <<buf_data, late_write, serving>>,
           \A q \in P2PReqs : \A i, b : Held(p2p_req', q, i, b) => Held(p2p_req, q, i, b)
    PROVE  BufsApart' /\ (~late_write' => WrittenData')
<1>1. BufsApart'
  BY DEF P2PInv, BufsApart
<1>2. ASSUME ~late_write' PROVE WrittenData'
  <2>1. WrittenData
    BY <1>2 DEF P2PInv
  <2>2. \A m \in P2PMsgs : m.req \in P2PReqs
    BY DEF P2PMsgs
  <2> QED BY <2>1, <2>2 DEF WrittenData, Serves
<1> QED BY <1>1, <1>2

\* A request leaves the lock or is refused it: it is to try again, or has ended
\* with what the answer says.
LEMMA ClientLeaves ==
    ASSUME P2PInv, NEW r \in P2PReqs, p2p_req[r].stage \in {"ready", "sent"}, lookup_lock \subseteq {r},
           p2p_req' \in [P2PReqs -> P2PRequests], \A q \in P2PReqs : q # r => p2p_req'[q] = p2p_req[q],
           p2p_req'[r].stage \in {"ready", "raised", "got", "ended"},
           p2p_req'[r].stage = "ready" => p2p_req'[r].bufs = p2p_req[r].bufs,
           \A i, b : Held(p2p_req', r, i, b) => Held(p2p_req, r, i, b),
           p2p_req'[r].stage = "got" /\ ~late_write =>
               \A i \in 1..p2p_req'[r].hits :
                   i \in DOMAIN p2p_req'[r].bufs /\ buf_data[p2p_req'[r].bufs[i]] = i,
           lookup_lock' = {},
           UNCHANGED <<p2p_setup, p2p_msgs, serving, buf_data, late_write>>,
           \/ socket_waits' /\ UNCHANGED <<lookup_socket, p2p_answers>>
           \/ lookup_socket' = lookup_socket + 1 /\ p2p_answers' = {}
           \/ p2p_answers # {} /\ p2p_answers' = {} /\ UNCHANGED <<lookup_socket, socket_waits>>
    PROVE  P2PInv'
<1>1. lookup_socket \in Nat /\ lookup_socket' \in Nat /\ lookup_socket' >= lookup_socket /\ lookup_socket >= 1
  BY DEF P2PInv, P2PTypeOK, LockHeld
<1>2. P2PTypeOK'
  BY <1>1 DEF P2PInv, P2PTypeOK
<1>3. \A m : InFlight(m)' <=> InFlight(m)
  BY DEF InFlight, Serves
<1>4. \A m : Serves(m)' <=> Serves(m)
  BY DEF Serves
<1>5. BufsApart' /\ (~late_write' => WrittenData')
  <2>1. \A q \in P2PReqs : \A i, b : Held(p2p_req', q, i, b) => Held(p2p_req, q, i, b)
    BY DEF Held
  <2> QED BY <2>1, FewerHeld
<1>6. LockHeld'
  BY <1>1 DEF P2PInv, LockHeld
<1>7. MsgsMatch'
  <2> SUFFICES ASSUME NEW m \in P2PMsgs, InFlight(m)
               PROVE  /\ 1 <= m.socket /\ m.socket <= lookup_socket'
                      /\ p2p_req'[m.req].stage \notin {"idle", "found"}
                      /\ p2p_req'[m.req].stage \in {"ready", "sent"} => p2p_req'[m.req].bufs = m.bufs
                      /\ Serves(m)' => serving.hits <= Len(m.bufs)
    BY <1>3 DEF MsgsMatch
  <2>1. /\ 1 <= m.socket /\ m.socket <= lookup_socket /\ m.socket \in Nat /\ m.req \in P2PReqs
        /\ p2p_req[m.req].stage \notin {"idle", "found"}
        /\ p2p_req[m.req].stage \in {"ready", "sent"} => p2p_req[m.req].bufs = m.bufs
        /\ Serves(m) => serving.hits <= Len(m.bufs)
    BY DEF P2PInv, MsgsMatch, P2PMsgs
  <2>2. m.socket <= lookup_socket'
    BY <1>1, <2>1
  <2>3. CASE m.req = r
    BY <1>4, <2>1, <2>2, <2>3
  <2>4. CASE m.req # r
    BY <1>4, <2>1, <2>2, <2>4
  <2> QED BY <2>3, <2>4
<1>8. OneOutstanding'
  <2>1. CASE socket_waits' /\ UNCHANGED <<lookup_socket, p2p_answers>>
    <3>1. \A m : Current(m)' <=> Current(m)
      BY <1>3, <2>1 DEF Current
    <3> QED BY <1>4, <2>1, <3>1 DEF P2PInv, OneOutstanding
  <2>2. CASE lookup_socket' = lookup_socket + 1 /\ p2p_answers' = {}
    <3>1. \A m \in P2PMsgs : ~Current(m)'
      <4>1. \A m \in P2PMsgs : InFlight(m)' => m.socket \in Nat /\ m.socket <= lookup_socket
        BY <1>3 DEF P2PInv, MsgsMatch, P2PMsgs
      <4> QED BY <1>1, <2>2, <4>1 DEF Current
    <3> QED BY <2>2, <3>1 DEF OneOutstanding
  <2>3. CASE p2p_answers # {} /\ p2p_answers' = {} /\ UNCHANGED <<lookup_socket, socket_waits>>
    <3>1. \A m \in P2PMsgs : ~Current(m)'
      BY <1>3, <2>3 DEF P2PInv, OneOutstanding, Current
    <3> QED BY <2>3, <3>1 DEF OneOutstanding
  <2> QED BY <2>1, <2>2, <2>3
<1>9. AnsweredData' /\ AnswersInRange'
  BY DEF AnsweredData, AnswersInRange
<1>10. ~late_write' => GotData'
  BY DEF P2PInv, GotData
<1> QED BY <1>2, <1>5, <1>6, <1>7, <1>8, <1>9, <1>10 DEF P2PInv

\* Ended: the request keeps its first buffers, one for every hit.
LEMMA EndedKeeps ==
    ASSUME P2PInv, NEW r \in P2PReqs, NEW hits \in Nat, hits <= Len(p2p_req[r].bufs), Ended(r, hits)
    PROVE  /\ p2p_req' \in [P2PReqs -> P2PRequests] /\ \A q \in P2PReqs : q # r => p2p_req'[q] = p2p_req[q]
           /\ p2p_req'[r].stage \in {"got", "ended"} /\ (p2p_req'[r].stage = "got" => p2p_req'[r].hits = hits)
           /\ \A i, b : Held(p2p_req', r, i, b) => Held(p2p_req, r, i, b)
           /\ \A i \in 1..hits : i \in DOMAIN p2p_req'[r].bufs /\ p2p_req'[r].bufs[i] = p2p_req[r].bufs[i]
<1>1. p2p_req \in [P2PReqs -> P2PRequests]
  BY DEF P2PInv, P2PTypeOK
<1>2. PICK q \in P2PRequests, s \in Seq(P2PBufs) : q = p2p_req[r] /\ s = q.bufs
  BY <1>1 DEF P2PRequests
<1>3. PICK t, st : t = SubSeq(s, 1, hits) /\ st = IF hits = 0 THEN "ended" ELSE "got"
  OBVIOUS
<1>4. t \in Seq(P2PBufs) /\ DOMAIN t = 1..hits /\ DOMAIN s = 1..Len(s) /\ \A i \in 1..hits : t[i] = s[i]
  BY <1>2, <1>3
<1>5. \A i \in 1..hits : i \in 1..Len(s)
  BY <1>2
<1>6. p2p_req' = [p2p_req EXCEPT ![r] = [q EXCEPT !.stage = st, !.hits = hits, !.bufs = t]]
  BY <1>1, <1>2, <1>3 DEF Ended
<1>7. PICK x : x = [q EXCEPT !.stage = st, !.hits = hits, !.bufs = t]
  OBVIOUS
<1>8. x \in P2PRequests /\ x.stage = st /\ x.hits = hits /\ x.bufs = t
  BY <1>2, <1>3, <1>4, <1>7 DEF P2PRequests
<1>9. p2p_req' \in [P2PReqs -> P2PRequests] /\ p2p_req'[r] = x /\ \A p \in P2PReqs : p # r => p2p_req'[p] = p2p_req[p]
  BY <1>1, <1>6, <1>7, <1>8
<1>10. \A i, b : Held(p2p_req', r, i, b) => Held(p2p_req, r, i, b)
  BY <1>2, <1>4, <1>5, <1>8, <1>9 DEF Held
<1> QED BY <1>2, <1>3, <1>4, <1>8, <1>9, <1>10

LEMMA TryAgainKeeps ==
    ASSUME P2PInv, NEW r \in P2PReqs, NEW tries \in Nat, TryAgain(r, tries)
    PROVE  /\ p2p_req' \in [P2PReqs -> P2PRequests] /\ \A q \in P2PReqs : q # r => p2p_req'[q] = p2p_req[q]
           /\ p2p_req'[r].stage = "ready" => p2p_req'[r].bufs = p2p_req[r].bufs
           /\ p2p_req'[r].stage \in {"ready", "got", "ended"}
           /\ p2p_req'[r].stage = "got" => p2p_req'[r].hits = 0
           /\ \A i, b : Held(p2p_req', r, i, b) => Held(p2p_req, r, i, b)
<1>1. p2p_req \in [P2PReqs -> P2PRequests] /\ p2p_req[r].bufs \in Seq(P2PBufs)
  BY DEF P2PInv, P2PTypeOK, P2PRequests
<1>2. CASE p2p_req' = [p2p_req EXCEPT ![r].stage = "ready", ![r].tries = tries]
  <2>1. /\ p2p_req' \in [P2PReqs -> P2PRequests] /\ p2p_req'[r].stage = "ready"
        /\ p2p_req'[r].bufs = p2p_req[r].bufs /\ \A q \in P2PReqs : q # r => p2p_req'[q] = p2p_req[q]
    BY <1>1, <1>2 DEF P2PRequests
  <2> QED BY <2>1 DEF Held
<1>3. CASE Ended(r, 0)
  <2>1. 0 \in Nat /\ 0 <= Len(p2p_req[r].bufs)
    BY <1>1
  <2>2. /\ p2p_req' \in [P2PReqs -> P2PRequests] /\ \A q \in P2PReqs : q # r => p2p_req'[q] = p2p_req[q]
        /\ p2p_req'[r].stage \in {"got", "ended"} /\ (p2p_req'[r].stage = "got" => p2p_req'[r].hits = 0)
        /\ \A i, b : Held(p2p_req', r, i, b) => Held(p2p_req, r, i, b)
    BY <1>3, <2>1, EndedKeeps
  <2> QED BY <2>2
<1> QED BY <1>2, <1>3 DEF TryAgain

LEMMA SentHasLock ==
    ASSUME P2PInv, NEW r \in P2PReqs, p2p_req[r].stage = "sent"
    PROVE  lookup_lock = {r} /\ ~socket_waits
BY DEF P2PInv, P2PTypeOK, LockHeld

\* The answer to a request tells how many of its buffers were written.
LEMMA AnswerKeeps ==
    ASSUME P2PInv, NEW r \in P2PReqs, answer_received(r)
    PROVE  P2PInv'
<1>1. PICK a \in p2p_answers :
        IF a.kind = "not_initialized"
        THEN Reconnect /\ TryAgain(r, p2p_req[r].tries)
        ELSE /\ Ended(r, num_hit_chunks(r, a)) /\ p2p_answers' = {}
             /\ UNCHANGED <<lookup_socket, receiver_known, socket_waits>>
  BY DEF answer_received
<1>2. /\ p2p_req[r].stage = "sent" /\ lookup_lock' = {}
      /\ UNCHANGED <<p2p_setup, p2p_msgs, buf_data, serving, late_write>>
  BY DEF answer_received
<1>3. lookup_lock = {r} /\ p2p_req[r].tries \in Nat /\ p2p_req[r].bufs \in Seq(P2PBufs)
      /\ a \in [kind : {"hits", "not_initialized", "server_error"}, n : Nat]
  BY <1>2, SentHasLock DEF P2PInv, P2PTypeOK, P2PRequests
<1>4. CASE a.kind = "not_initialized"
  <2>1. lookup_socket' = lookup_socket + 1 /\ p2p_answers' = {} /\ TryAgain(r, p2p_req[r].tries)
    BY <1>1, <1>4 DEF Reconnect
  <2>2. /\ p2p_req' \in [P2PReqs -> P2PRequests] /\ \A q \in P2PReqs : q # r => p2p_req'[q] = p2p_req[q]
        /\ p2p_req'[r].stage = "ready" => p2p_req'[r].bufs = p2p_req[r].bufs
        /\ p2p_req'[r].stage \in {"ready", "got", "ended"}
        /\ p2p_req'[r].stage = "got" => p2p_req'[r].hits = 0
        /\ \A i, b : Held(p2p_req', r, i, b) => Held(p2p_req, r, i, b)
    BY <1>3, <2>1, TryAgainKeeps
  <2> QED BY <1>2, <1>3, <2>1, <2>2, ClientLeaves
<1>5. CASE a.kind # "not_initialized"
  <2>1. PICK hits : hits = num_hit_chunks(r, a)
    OBVIOUS
  <2>2. Ended(r, hits) /\ p2p_answers # {} /\ p2p_answers' = {} /\ UNCHANGED <<lookup_socket, socket_waits>>
    BY <1>1, <1>5, <2>1
  <2>3. hits \in Nat /\ (a.kind = "hits" => hits = a.n) /\ (a.kind # "hits" => hits = 0)
    BY <1>3, <2>1 DEF num_hit_chunks
  <2>4. ~late_write => \A i \in 1..hits : i \in DOMAIN p2p_req[r].bufs /\ buf_data[p2p_req[r].bufs[i]] = i
    BY <1>3, <2>3 DEF P2PInv, AnsweredData
  <2>5. hits <= Len(p2p_req[r].bufs)
    BY <1>3, <2>3 DEF P2PInv, AnswersInRange
  <2>6. /\ p2p_req' \in [P2PReqs -> P2PRequests] /\ \A q \in P2PReqs : q # r => p2p_req'[q] = p2p_req[q]
        /\ p2p_req'[r].stage \in {"got", "ended"} /\ (p2p_req'[r].stage = "got" => p2p_req'[r].hits = hits)
        /\ \A i, b : Held(p2p_req', r, i, b) => Held(p2p_req, r, i, b)
        /\ \A i \in 1..hits : i \in DOMAIN p2p_req'[r].bufs /\ p2p_req'[r].bufs[i] = p2p_req[r].bufs[i]
    BY <2>2, <2>3, <2>5, EndedKeeps
  <2> QED BY <1>2, <1>3, <2>2, <2>4, <2>6, ClientLeaves
<1> QED BY <1>4, <1>5

\* Time-outs, refusals and connections that fail end a try.
LEMMA TryFailsKeeps ==
    ASSUME P2PInv, NEW r \in P2PReqs,
           reconnect_fails(r) \/ recv_times_out(r) \/ send_refused(r) \/ reconnect_raises(r)
    PROVE  P2PInv'
<1>1. p2p_req \in [P2PReqs -> P2PRequests] /\ p2p_req[r].tries \in Nat /\ p2p_req[r].bufs \in Seq(P2PBufs)
  BY DEF P2PInv, P2PTypeOK, P2PRequests
<1>2. CASE reconnect_fails(r)
  <2>1. /\ p2p_req[r].stage = "sent" /\ Ended(r, 0) /\ p2p_answers # {} /\ p2p_answers' = {} /\ lookup_lock' = {}
        /\ UNCHANGED <<p2p_setup, lookup_socket, socket_waits, p2p_msgs, serving, buf_data, late_write>>
    BY <1>2 DEF reconnect_fails
  <2>2. 0 \in Nat /\ 0 <= Len(p2p_req[r].bufs)
    BY <1>1
  <2>3. /\ p2p_req' \in [P2PReqs -> P2PRequests] /\ \A q \in P2PReqs : q # r => p2p_req'[q] = p2p_req[q]
        /\ p2p_req'[r].stage \in {"got", "ended"} /\ (p2p_req'[r].stage = "got" => p2p_req'[r].hits = 0)
        /\ \A i, b : Held(p2p_req', r, i, b) => Held(p2p_req, r, i, b)
    BY <2>1, <2>2, EndedKeeps
  <2>4. lookup_lock \subseteq {r}
    BY <2>1, SentHasLock
  <2> QED BY <2>1, <2>3, <2>4, ClientLeaves
<1>3. CASE recv_times_out(r) \/ send_refused(r)
  <2>1. PICK tries \in Nat : TryAgain(r, tries)
    BY <1>1, <1>3 DEF recv_times_out, send_refused
  <2>2. /\ p2p_req[r].stage \in {"ready", "sent"} /\ lookup_lock \subseteq {r} /\ lookup_lock' = {}
        /\ lookup_socket' = lookup_socket + 1 /\ p2p_answers' = {}
        /\ UNCHANGED <<p2p_setup, p2p_msgs, serving, buf_data, late_write>>
    BY <1>3, SentHasLock DEF recv_times_out, send_refused, Reconnect
  <2>3. /\ p2p_req' \in [P2PReqs -> P2PRequests] /\ \A q \in P2PReqs : q # r => p2p_req'[q] = p2p_req[q]
        /\ p2p_req'[r].stage = "ready" => p2p_req'[r].bufs = p2p_req[r].bufs
        /\ p2p_req'[r].stage \in {"ready", "got", "ended"}
        /\ p2p_req'[r].stage = "got" => p2p_req'[r].hits = 0
        /\ \A i, b : Held(p2p_req', r, i, b) => Held(p2p_req, r, i, b)
    BY <2>1, TryAgainKeeps
  <2> QED BY <2>2, <2>3, ClientLeaves
<1>4. CASE reconnect_raises(r)
  <2>1. /\ p2p_req[r].stage \in {"ready", "sent"} /\ lookup_lock \subseteq {r} /\ lookup_lock' = {}
        /\ socket_waits' /\ p2p_req' = [p2p_req EXCEPT ![r].stage = "raised"]
        /\ UNCHANGED <<p2p_setup, p2p_msgs, serving, buf_data, late_write, lookup_socket, p2p_answers>>
    BY <1>4, SentHasLock DEF reconnect_raises
  <2>2. /\ p2p_req' \in [P2PReqs -> P2PRequests] /\ \A q \in P2PReqs : q # r => p2p_req'[q] = p2p_req[q]
        /\ p2p_req'[r].stage = "raised" /\ p2p_req'[r].bufs = p2p_req[r].bufs
    BY <1>1, <2>1 DEF P2PRequests
  <2> QED BY <2>1, <2>2, ClientLeaves DEF Held
<1> QED BY <1>2, <1>3, <1>4

\* The request has no message on its way before it has been sent.
LEMMA LookupKeeps ==
    ASSUME P2PInv, NEW r \in P2PReqs, NEW n \in 1..p2p_setup.chunks, p2p_lookup(r, n)
    PROVE  P2PInv'
<1>1. /\ p2p_req \in [P2PReqs -> P2PRequests] /\ p2p_req[r].stage = "idle"
      /\ p2p_req' = [p2p_req EXCEPT ![r].stage = "found", ![r].found = n]
      /\ lookup_socket \in Nat
      /\ lookup_socket' = IF lookup_socket = 0 THEN 1 ELSE lookup_socket
      /\ UNCHANGED <<p2p_setup, socket_waits, lookup_lock, p2p_msgs, p2p_answers, buf_data, serving, late_write>>
  BY DEF P2PInv, P2PTypeOK, p2p_lookup
<1>2. n \in Nat
  BY P2PAssumption DEF P2PInv, P2PTypeOK
<1>3. /\ p2p_req' \in [P2PReqs -> P2PRequests] /\ p2p_req'[r].stage = "found" /\ p2p_req'[r].bufs = p2p_req[r].bufs
      /\ \A q \in P2PReqs : q # r => p2p_req'[q] = p2p_req[q]
  BY <1>1, <1>2 DEF P2PRequests
<1>4. lookup_socket' \in Nat /\ lookup_socket' >= 1 /\ lookup_socket' >= lookup_socket
  BY <1>1
<1>5. P2PTypeOK'
  BY <1>1, <1>3, <1>4 DEF P2PInv, P2PTypeOK
<1>6. BufsApart' /\ (~late_write' => WrittenData')
  <2>1. \A q \in P2PReqs : \A i, b : Held(p2p_req', q, i, b) => Held(p2p_req, q, i, b)
    BY <1>3 DEF Held
  <2> QED BY <1>1, <2>1, FewerHeld
<1>7. LockHeld'
  BY <1>1, <1>3, <1>4 DEF P2PInv, LockHeld
<1>8. /\ \A m : InFlight(m)' <=> InFlight(m)
      /\ \A m : Serves(m)' <=> Serves(m)
  BY <1>1 DEF InFlight, Serves
<1>9. \A m \in P2PMsgs : InFlight(m) => /\ 1 <= m.socket /\ m.socket <= lookup_socket /\ m.socket \in Nat
                                        /\ m.req \in P2PReqs /\ m.req # r
  BY <1>1 DEF P2PInv, MsgsMatch, P2PMsgs
<1>10. MsgsMatch'
  <2> SUFFICES ASSUME NEW m \in P2PMsgs, InFlight(m)
               PROVE  /\ 1 <= m.socket /\ m.socket <= lookup_socket'
                      /\ p2p_req'[m.req].stage \notin {"idle", "found"}
                      /\ p2p_req'[m.req].stage \in {"ready", "sent"} => p2p_req'[m.req].bufs = m.bufs
                      /\ Serves(m)' => serving'.hits <= Len(m.bufs)
    BY <1>8 DEF MsgsMatch
  <2>1. 1 <= m.socket /\ m.socket <= lookup_socket'
    BY <1>1, <1>4, <1>9
  <2>2. p2p_req'[m.req] = p2p_req[m.req]
    BY <1>3, <1>9
  <2> QED BY <1>1, <1>8, <2>1, <2>2 DEF P2PInv, MsgsMatch
<1>11. OneOutstanding'
  <2>1. \A m \in P2PMsgs : Current(m)' <=> Current(m)
    BY <1>1, <1>8, <1>9 DEF Current
  <2> QED BY <1>1, <1>8, <2>1 DEF P2PInv, OneOutstanding
<1>12. \A q \in lookup_lock : q \in P2PReqs /\ p2p_req'[q] = p2p_req[q]
  BY <1>1, <1>3 DEF P2PInv, P2PTypeOK, LockHeld
<1>13. AnswersInRange' /\ (~late_write' => AnsweredData')
  BY <1>1, <1>12 DEF P2PInv, AnswersInRange, AnsweredData
<1>14. ~late_write' => GotData'
  BY <1>1, <1>3 DEF P2PInv, GotData
<1> QED BY <1>5, <1>6, <1>7, <1>10, <1>11, <1>13, <1>14 DEF P2PInv

LEMMA AllocateBufsKeeps ==
    ASSUME P2PInv, NEW r \in P2PReqs, p2p_allocate(r)
    PROVE  P2PInv'
<1>1. /\ p2p_req \in [P2PReqs -> P2PRequests] /\ p2p_req[r].stage = "found" /\ p2p_req[r].found \in Nat
      /\ UNCHANGED <<p2p_setup, socket_waits, lookup_lock, lookup_socket, p2p_msgs, p2p_answers, buf_data, serving,
                     late_write>>
  BY DEF P2PInv, P2PTypeOK, P2PRequests, p2p_allocate
<1>2. PICK bufs \in [1..p2p_req[r].found -> P2PBufs \ Taken] :
        /\ \A i, j \in DOMAIN bufs : i # j => bufs[i] # bufs[j]
        /\ p2p_req' = [p2p_req EXCEPT ![r].stage = "ready", ![r].bufs = bufs]
  BY DEF p2p_allocate
<1>3. bufs \in Seq(P2PBufs) /\ \A i \in DOMAIN bufs : bufs[i] \notin Taken
  BY <1>1, <1>2
<1>4. /\ p2p_req' \in [P2PReqs -> P2PRequests] /\ p2p_req'[r].stage = "ready" /\ p2p_req'[r].bufs = bufs
      /\ \A q \in P2PReqs : q # r => p2p_req'[q] = p2p_req[q]
  BY <1>1, <1>2, <1>3 DEF P2PRequests
<1>5. P2PTypeOK'
  BY <1>1, <1>4 DEF P2PInv, P2PTypeOK
<1>6. BufsApart'
  <2> SUFFICES ASSUME NEW p \in P2PReqs, NEW q \in P2PReqs, NEW i \in Nat, NEW j \in Nat, NEW b \in P2PBufs,
                      Held(p2p_req', p, i, b), Held(p2p_req', q, j, b)
               PROVE  p = q /\ i = j
    BY DEF BufsApart
  <2>1. ASSUME NEW s \in P2PReqs, s # r, NEW k, Held(p2p_req', s, k, b) PROVE Held(p2p_req, s, k, b) /\ b \in Taken
    BY <1>4, <2>1 DEF Held, Taken
  <2>2. ASSUME NEW k, Held(p2p_req', r, k, b) PROVE k \in DOMAIN bufs /\ b = bufs[k] /\ b \notin Taken
    BY <1>3, <1>4, <2>2 DEF Held
  <2>3. CASE p = r /\ q = r
    BY <1>2, <2>2, <2>3
  <2>4. CASE p # r /\ q # r
    BY <2>1, <2>4 DEF P2PInv, BufsApart
  <2> QED BY <2>1, <2>2, <2>3, <2>4
<1>7. LockHeld'
  BY <1>1, <1>4 DEF P2PInv, LockHeld
<1>8. /\ \A m : InFlight(m)' <=> InFlight(m)
      /\ \A m : Serves(m)' <=> Serves(m)
      /\ \A m : Current(m)' <=> Current(m)
  BY <1>1 DEF InFlight, Serves, Current
<1>9. \A m \in P2PMsgs : InFlight(m) => m.req \in P2PReqs /\ m.req # r /\ p2p_req'[m.req] = p2p_req[m.req]
  BY <1>1, <1>4 DEF P2PInv, MsgsMatch, P2PMsgs
<1>10. MsgsMatch' /\ OneOutstanding'
  BY <1>1, <1>8, <1>9 DEF P2PInv, MsgsMatch, OneOutstanding
<1>11. \A q \in lookup_lock : q \in P2PReqs /\ p2p_req'[q] = p2p_req[q]
  BY <1>1, <1>4 DEF P2PInv, P2PTypeOK, LockHeld
<1>12. AnswersInRange' /\ (~late_write' => AnsweredData')
  BY <1>1, <1>11 DEF P2PInv, AnswersInRange, AnsweredData
<1>13. ~late_write' => WrittenData'
  BY <1>1, <1>8, <1>9 DEF P2PInv, WrittenData, Held, InFlight
<1>14. ~late_write' => GotData'
  BY <1>1, <1>4 DEF P2PInv, GotData
<1> QED BY <1>5, <1>6, <1>7, <1>10, <1>12, <1>13, <1>14 DEF P2PInv

\* The socket carries nothing else when a request is sent.
LEMMA SendKeeps ==
    ASSUME P2PInv, NEW r \in P2PReqs, p2p_send(r)
    PROVE  P2PInv'
<1>1. /\ p2p_req \in [P2PReqs -> P2PRequests] /\ p2p_req[r].stage = "ready" /\ p2p_req[r].tries \in Nat
      /\ lookup_lock = {} /\ ~socket_waits /\ lookup_lock' = {r}
      /\ p2p_req' = [p2p_req EXCEPT ![r].stage = "sent", ![r].tries = @ + 1]
      /\ UNCHANGED <<p2p_setup, socket_waits, lookup_socket, p2p_answers, buf_data, serving, late_write>>
      /\ lookup_socket \in Nat /\ lookup_socket >= 1
  BY DEF P2PInv, P2PTypeOK, P2PRequests, LockHeld, p2p_send
<1>2. PICK m0 : m0 = [req |-> r, socket |-> lookup_socket, bufs |-> p2p_req[r].bufs]
  OBVIOUS
<1>3. /\ m0 \in P2PMsgs /\ m0.req = r /\ m0.socket = lookup_socket /\ m0.bufs = p2p_req[r].bufs
      /\ p2p_msgs' = p2p_msgs \cup {m0}
  BY <1>1, <1>2 DEF P2PMsgs, P2PRequests, p2p_send
<1>4. /\ p2p_req' \in [P2PReqs -> P2PRequests] /\ p2p_req'[r].stage = "sent" /\ p2p_req'[r].bufs = p2p_req[r].bufs
      /\ \A q \in P2PReqs : q # r => p2p_req'[q] = p2p_req[q]
  BY <1>1 DEF P2PRequests
<1>5. P2PTypeOK'
  BY <1>1, <1>3, <1>4 DEF P2PInv, P2PTypeOK
<1>6. BufsApart' /\ (~late_write' => WrittenData')
  <2>1. \A q \in P2PReqs : \A i, b : Held(p2p_req', q, i, b) => Held(p2p_req, q, i, b)
    BY <1>4 DEF Held
  <2> QED BY <1>1, <2>1, FewerHeld
<1>7. LockHeld'
  BY <1>1, <1>4 DEF P2PInv, LockHeld
<1>8. p2p_answers = {} /\ \A m \in P2PMsgs : ~Current(m)
  BY <1>1 DEF P2PInv, OneOutstanding
<1>9. /\ \A m : Serves(m)' <=> Serves(m)
      /\ \A m : InFlight(m)' <=> InFlight(m) \/ m = m0
      /\ \A m \in P2PMsgs : Current(m)' <=> m = m0
      /\ ~Serves(m0)
  BY <1>1, <1>3, <1>8 DEF InFlight, Serves, Current
<1>10. MsgsMatch'
  <2>1. ASSUME NEW m \in P2PMsgs, InFlight(m)
        PROVE  /\ 1 <= m.socket /\ m.socket <= lookup_socket
               /\ p2p_req'[m.req].stage \notin {"idle", "found"}
               /\ p2p_req'[m.req].stage \in {"ready", "sent"} => p2p_req'[m.req].bufs = m.bufs
               /\ Serves(m) => serving.hits <= Len(m.bufs)
    <3>1. /\ 1 <= m.socket /\ m.socket <= lookup_socket /\ m.req \in P2PReqs
          /\ p2p_req[m.req].stage \notin {"idle", "found"}
          /\ p2p_req[m.req].stage \in {"ready", "sent"} => p2p_req[m.req].bufs = m.bufs
          /\ Serves(m) => serving.hits <= Len(m.bufs)
      BY <2>1 DEF P2PInv, MsgsMatch, P2PMsgs
    <3>2. CASE m.req = r
      BY <1>1, <1>4, <3>1, <3>2
    <3>3. CASE m.req # r
      BY <1>4, <3>1, <3>3
    <3> QED BY <3>2, <3>3
  <2>2. /\ 1 <= m0.socket /\ m0.socket <= lookup_socket
        /\ p2p_req'[m0.req].stage = "sent" /\ p2p_req'[m0.req].bufs = m0.bufs
    BY <1>1, <1>3, <1>4
  <2> QED BY <1>1, <1>9, <2>1, <2>2 DEF MsgsMatch
<1>11. OneOutstanding'
  BY <1>1, <1>3, <1>8, <1>9 DEF OneOutstanding
<1>12. AnswersInRange' /\ AnsweredData'
  BY <1>1, <1>8 DEF AnswersInRange, AnsweredData
<1>13. ~late_write' => GotData'
  BY <1>1, <1>4 DEF P2PInv, GotData
<1> QED BY <1>5, <1>6, <1>7, <1>10, <1>11, <1>12, <1>13 DEF P2PInv

LEMMA ConsumedKeeps ==
    ASSUME P2PInv, NEW r \in P2PReqs, p2p_consumed(r)
    PROVE  P2PInv'
<1>1. /\ p2p_req \in [P2PReqs -> P2PRequests] /\ p2p_req[r].stage = "got"
      /\ p2p_req' = [p2p_req EXCEPT ![r].stage = "ended", ![r].bufs = <<>>]
      /\ UNCHANGED <<p2p_setup, socket_waits, lookup_lock, lookup_socket, p2p_msgs, p2p_answers, buf_data, serving,
                     late_write>>
  BY DEF P2PInv, P2PTypeOK, p2p_consumed
<1>2. /\ p2p_req' \in [P2PReqs -> P2PRequests] /\ p2p_req'[r].stage = "ended" /\ p2p_req'[r].bufs = <<>>
      /\ \A q \in P2PReqs : q # r => p2p_req'[q] = p2p_req[q]
  <2>1. <<>> \in Seq(P2PBufs)
    OBVIOUS
  <2> QED BY <1>1, <2>1 DEF P2PRequests
<1>3. P2PTypeOK'
  BY <1>1, <1>2 DEF P2PInv, P2PTypeOK
<1>4. BufsApart' /\ (~late_write' => WrittenData')
  <2>1. \A q \in P2PReqs : \A i, b : Held(p2p_req', q, i, b) => Held(p2p_req, q, i, b)
    BY <1>2 DEF Held
  <2> QED BY <1>1, <2>1, FewerHeld
<1>5. LockHeld'
  BY <1>1, <1>2 DEF P2PInv, LockHeld
<1>6. /\ \A m : InFlight(m)' <=> InFlight(m)
      /\ \A m : Serves(m)' <=> Serves(m)
      /\ \A m : Current(m)' <=> Current(m)
  BY <1>1 DEF InFlight, Serves, Current
<1>7. MsgsMatch'
  <2> SUFFICES ASSUME NEW m \in P2PMsgs, InFlight(m)
               PROVE  /\ 1 <= m.socket /\ m.socket <= lookup_socket
                      /\ p2p_req'[m.req].stage \notin {"idle", "found"}
                      /\ p2p_req'[m.req].stage \in {"ready", "sent"} => p2p_req'[m.req].bufs = m.bufs
                      /\ Serves(m) => serving.hits <= Len(m.bufs)
    BY <1>1, <1>6 DEF MsgsMatch
  <2>1. /\ 1 <= m.socket /\ m.socket <= lookup_socket /\ m.req \in P2PReqs
        /\ p2p_req[m.req].stage \notin {"idle", "found"}
        /\ p2p_req[m.req].stage \in {"ready", "sent"} => p2p_req[m.req].bufs = m.bufs
        /\ Serves(m) => serving.hits <= Len(m.bufs)
    BY DEF P2PInv, MsgsMatch, P2PMsgs
  <2>2. CASE m.req = r
    BY <1>2, <2>1, <2>2
  <2>3. CASE m.req # r
    BY <1>2, <2>1, <2>3
  <2> QED BY <2>2, <2>3
<1>8. OneOutstanding'
  BY <1>1, <1>6 DEF P2PInv, OneOutstanding
<1>9. \A q \in lookup_lock : q \in P2PReqs /\ p2p_req'[q] = p2p_req[q]
  <2>1. r \notin lookup_lock /\ lookup_lock \subseteq P2PReqs
    BY <1>1 DEF P2PInv, P2PTypeOK, LockHeld
  <2> QED BY <1>2, <2>1
<1>10. AnswersInRange' /\ (~late_write' => AnsweredData')
  <2>1. UNCHANGED <<lookup_lock, p2p_answers, buf_data, late_write>>
    BY <1>1
  <2> QED BY <1>9, <2>1 DEF P2PInv, AnswersInRange, AnsweredData
<1>11. ~late_write' => GotData'
  BY <1>1, <1>2 DEF P2PInv, GotData
<1> QED BY <1>3, <1>4, <1>5, <1>7, <1>8, <1>10, <1>11 DEF P2PInv

\* What the peer serves is of the type of a serving, and its message is on its way nowhere else.
LEMMA ServingFacts ==
    ASSUME P2PInv, serving # NoServing
    PROVE  /\ serving \in P2PServings /\ serving.msg \in P2PMsgs /\ serving.hits \in Nat
           /\ Serves(serving.msg) /\ InFlight(serving.msg) /\ serving.hits <= Len(serving.msg.bufs)
           /\ serving.msg.socket = lookup_socket => Current(serving.msg) /\ serving.msg \notin p2p_msgs
<1>1. serving \in P2PServings /\ serving.msg \in P2PMsgs /\ serving.hits \in Nat
  BY DEF P2PInv, P2PTypeOK, P2PServings
<1>2. Serves(serving.msg) /\ InFlight(serving.msg)
  BY DEF Serves, InFlight
<1>3. serving.hits <= Len(serving.msg.bufs)
  BY <1>1, <1>2 DEF P2PInv, MsgsMatch
<1>4. serving.msg.socket = lookup_socket => Current(serving.msg) /\ serving.msg \notin p2p_msgs
  BY <1>1, <1>2 DEF P2PInv, OneOutstanding, Current
<1> QED BY <1>1, <1>2, <1>3, <1>4

\* A message is refused, or its keys are looked up.
LEMMA TakenUpKeeps ==
    ASSUME P2PInv, NEW m \in p2p_msgs, refuse(m) \/ peer_contains(m)
    PROVE  P2PInv'
<1>1. /\ serving = NoServing /\ m \in P2PMsgs /\ m.bufs \in Seq(P2PBufs) /\ InFlight(m)
      /\ p2p_msgs' = p2p_msgs \ {m}
      /\ UNCHANGED <<p2p_setup, p2p_req, lookup_lock, lookup_socket, socket_waits, buf_data, late_write>>
  BY DEF P2PInv, P2PTypeOK, P2PMsgs, InFlight, refuse, peer_contains
<1>2. CASE refuse(m)
  <2>1. PICK a : a = [kind |-> "not_initialized", n |-> 0]
    OBVIOUS
  <2>2. serving' = NoServing /\ p2p_answers' = IF m.socket = lookup_socket THEN {a} ELSE p2p_answers
    BY <1>1, <1>2, <2>1 DEF refuse, Answer
  <2>3. P2PTypeOK'
    BY <1>1, <2>1, <2>2 DEF P2PInv, P2PTypeOK
  <2>4. /\ \A k : ~Serves(k)'
        /\ ~InFlight(m)' /\ (m.socket = lookup_socket => Current(m))
    BY <1>1, <2>2 DEF Serves, InFlight, Current
  <2>5. \/ p2p_answers' = p2p_answers
        \/ Current(m) /\ ~InFlight(m)' /\ p2p_answers' = {a} /\ a.kind # "hits"
    BY <2>1, <2>2, <2>4
  <2> QED BY <1>1, <2>3, <2>4, <2>5, PeerKeeps
<1>3. CASE peer_contains(m)
  <2>1. PICK hits : hits = PrefixHits(Len(m.bufs))
    OBVIOUS
  <2>2. hits \in Nat /\ hits <= Len(m.bufs)
    <3>1. Len(m.bufs) \in Nat
      BY <1>1
    <3>2. hits \in 0..Len(m.bufs)
      BY <2>1, <3>1, PrefixHitsInRange
    <3> QED BY <3>1, <3>2
  <2>3. serving' = [stage |-> "found", msg |-> m, hits |-> hits] /\ p2p_answers' = p2p_answers
    BY <1>3, <2>1 DEF peer_contains
  <2>4. serving' \in P2PServings /\ serving'.stage = "found" /\ serving'.msg = m /\ serving'.hits = hits
    BY <1>1, <2>2, <2>3 DEF P2PServings
  <2>5. P2PTypeOK'
    BY <1>1, <2>3, <2>4 DEF P2PInv, P2PTypeOK
  <2>6. ASSUME NEW k \in P2PMsgs, Serves(k)'
        PROVE  /\ InFlight(k) /\ serving'.hits <= Len(k.bufs) /\ k \notin p2p_msgs'
               /\ serving'.stage # "written"
    BY <1>1, <2>2, <2>4, <2>6 DEF Serves
  <2> QED BY <1>1, <2>3, <2>5, <2>6, PeerKeeps
<1> QED BY <1>2, <1>3

\* The chunks looked up are there.
LEMMA PeerGetsKeeps == ASSUME P2PInv, peer_gets PROVE P2PInv'
<1>1. /\ serving.stage = "found" /\ serving' = [serving EXCEPT !.stage = "writing"]
      /\ UNCHANGED <<p2p_setup, p2p_req, lookup_lock, lookup_socket, socket_waits, p2p_msgs, p2p_answers, buf_data,
                     late_write>>
  BY DEF peer_gets
<1>2. serving # NoServing
  BY <1>1 DEF NoServing
<1>3. serving' \in P2PServings /\ serving'.stage = "writing" /\ serving'.msg = serving.msg /\ serving'.hits = serving.hits
  BY <1>1, <1>2, ServingFacts DEF P2PServings
<1>4. P2PTypeOK'
  BY <1>1, <1>3 DEF P2PInv, P2PTypeOK
<1>5. ASSUME NEW k \in P2PMsgs, Serves(k)'
      PROVE  /\ InFlight(k) /\ serving'.hits <= Len(k.bufs)
             /\ k.socket = lookup_socket => k \notin p2p_msgs'
             /\ serving'.stage # "written"
  <2>1. k = serving.msg
    BY <1>3, <1>5 DEF Serves
  <2> QED BY <1>1, <1>2, <1>3, <2>1, ServingFacts
<1> QED BY <1>1, <1>4, <1>5, PeerKeeps

\* The peer answers what it wrote, or that it failed.
LEMMA PeerAnswersKeeps == ASSUME P2PInv, peer_get_raises \/ peer_answers PROVE P2PInv'
<1>1. PICK m, a :
        /\ m = serving.msg /\ a.kind \in {"hits", "server_error"} /\ a.n \in Nat
        /\ a \in [kind : {"hits", "not_initialized", "server_error"}, n : Nat]
        /\ a.kind = "hits" => serving.stage = "written" /\ a.n = serving.hits
        /\ serving.stage # "none"
        /\ p2p_answers' = IF m.socket = lookup_socket THEN {a} ELSE p2p_answers
  <2>1. CASE peer_get_raises
    <3>1. PICK m, a : m = serving.msg /\ a = [kind |-> "server_error", n |-> 0]
      OBVIOUS
    <3>2. serving.stage = "found" /\ p2p_answers' = IF m.socket = lookup_socket THEN {a} ELSE p2p_answers
      BY <2>1, <3>1 DEF peer_get_raises, Answer
    <3>3. /\ a.kind = "server_error" /\ a.n \in Nat
          /\ a \in [kind : {"hits", "not_initialized", "server_error"}, n : Nat]
      BY <3>1
    <3> QED BY <3>1, <3>2, <3>3
  <2>2. CASE peer_answers /\ serving.stage = "written"
    <3>1. PICK a : a = [kind |-> "hits", n |-> serving.hits]
      OBVIOUS
    <3>2. serving # NoServing
      BY <2>2 DEF NoServing
    <3>3. serving.hits \in Nat
      BY <3>2, ServingFacts
    <3> QED BY <2>2, <3>1, <3>3 DEF peer_answers, Answer
  <2>3. CASE peer_answers /\ serving.stage # "written"
    <3>1. PICK a : a = [kind |-> "server_error", n |-> 0]
      OBVIOUS
    <3> QED BY <2>3, <3>1 DEF peer_answers, Answer
  <2> QED BY <2>1, <2>2, <2>3
<1>2. /\ serving' = NoServing
      /\ UNCHANGED <<p2p_setup, p2p_req, lookup_lock, lookup_socket, socket_waits, p2p_msgs, buf_data, late_write>>
  BY DEF peer_get_raises, peer_answers
<1>3. serving # NoServing
  BY <1>1 DEF NoServing
<1>4. /\ m \in P2PMsgs /\ Serves(m)
      /\ m.socket = lookup_socket => Current(m) /\ m \notin p2p_msgs
  BY <1>1, <1>3, ServingFacts
<1>5. P2PTypeOK'
  BY <1>1, <1>2 DEF P2PInv, P2PTypeOK
<1>6. \A k : ~Serves(k)' /\ (InFlight(k)' => k \in p2p_msgs)
  BY <1>2 DEF Serves, InFlight
<1>7. \/ p2p_answers' = p2p_answers
      \/ /\ Current(m) /\ ~InFlight(m)' /\ p2p_answers' = {a}
         /\ a.kind = "hits" => Serves(m) /\ serving.stage = "written" /\ a.n = serving.hits
  BY <1>1, <1>4, <1>6
<1> QED BY <1>2, <1>4, <1>5, <1>6, <1>7, PeerKeeps

\* Chunks leave the peer's cache and come back to it, or the peer starts anew.
LEMMA PeerCacheKeeps ==
    ASSUME P2PInv, \/ peer_restarts
                   \/ \E c \in 1..p2p_setup.chunks : peer_evicts(c) \/ peer_removes(c) \/ peer_stores(c)
    PROVE  P2PInv'
<1>1. /\ serving' = serving \/ serving' = NoServing
      /\ UNCHANGED <<p2p_setup, p2p_req, lookup_lock, lookup_socket, socket_waits, p2p_msgs, p2p_answers, buf_data,
                     late_write>>
  BY DEF peer_restarts, peer_evicts, peer_removes, peer_stores
<1>2. P2PTypeOK'
  BY <1>1 DEF P2PInv, P2PTypeOK
<1>3. ASSUME NEW k \in P2PMsgs, Serves(k)'
      PROVE  /\ InFlight(k) /\ serving'.hits <= Len(k.bufs)
             /\ k.socket = lookup_socket => k \notin p2p_msgs'
             /\ Serves(k) /\ serving' = serving
  <2>1. serving' = serving /\ serving # NoServing /\ k = serving.msg
    BY <1>1, <1>3 DEF Serves
  <2> QED BY <1>1, <2>1, ServingFacts
<1> QED BY <1>1, <1>2, <1>3, PeerKeeps

\* Every buffer written is the one its request has for that chunk, or the write is late.
LEMMA PeerWritesKeeps ==
    ASSUME P2PInv, NEW n \in 0..p2p_setup.chunks, peer_writes(n)
    PROVE  P2PInv'
<1>1. PICK m, stage :
        /\ m = serving.msg /\ stage = IF n = serving.hits THEN "written" ELSE "failed"
        /\ serving' = [serving EXCEPT !.stage = stage]
  BY DEF peer_writes
<1>2. /\ serving.stage = "writing" /\ n <= serving.hits
      /\ buf_data' = [b \in P2PBufs |-> IF \E i \in 1..n : m.bufs[i] = b
                                        THEN CHOOSE i \in 1..n : m.bufs[i] = b ELSE buf_data[b]]
      /\ late_write' = (late_write \/ \E i \in 1..n : ~Holds(m.req, i, m.bufs[i]))
      /\ UNCHANGED <<p2p_setup, p2p_req, lookup_lock, lookup_socket, socket_waits, p2p_msgs, p2p_answers>>
  BY <1>1 DEF peer_writes
<1>3. serving # NoServing
  BY <1>2 DEF NoServing
<1>4. /\ serving \in P2PServings /\ m \in P2PMsgs /\ m.req \in P2PReqs /\ m.bufs \in Seq(P2PBufs)
      /\ serving.hits \in Nat /\ serving.hits <= Len(m.bufs) /\ Serves(m)
  BY <1>1, <1>3, ServingFacts DEF P2PMsgs
<1>5. n \in Nat
  BY P2PAssumption DEF P2PInv, P2PTypeOK
<1>6. /\ serving' \in P2PServings /\ serving'.stage = stage /\ serving'.msg = m /\ serving'.hits = serving.hits
      /\ serving' # NoServing
  <2>1. stage \in {"written", "failed"}
    BY <1>1
  <2>2. serving' \in P2PServings /\ serving'.stage = stage /\ serving'.msg = m /\ serving'.hits = serving.hits
    BY <1>1, <1>4, <2>1 DEF P2PServings
  <2> QED BY <2>1, <2>2 DEF NoServing
<1>7. P2PTypeOK' /\ BufsApart' /\ LockHeld' /\ AnswersInRange'
  <2>1. P2PTypeOK'
    BY <1>2, <1>6 DEF P2PInv, P2PTypeOK
  <2> QED BY <1>2, <2>1 DEF P2PInv, BufsApart, LockHeld, AnswersInRange
<1>8. /\ \A k : Serves(k)' <=> Serves(k)
      /\ \A k : InFlight(k)' <=> InFlight(k)
      /\ \A k : Current(k)' <=> Current(k)
  BY <1>1, <1>2, <1>3, <1>6 DEF Serves, InFlight, Current
<1>9. MsgsMatch' /\ OneOutstanding'
  <2>1. MsgsMatch'
    BY <1>2, <1>6, <1>8 DEF P2PInv, MsgsMatch
  <2> QED BY <1>2, <1>8, <2>1 DEF P2PInv, OneOutstanding
<1>10. ASSUME ~late_write' PROVE WrittenData' /\ AnsweredData' /\ GotData'
  <2>1. ~late_write /\ \A i \in 1..n : Held(p2p_req, m.req, i, m.bufs[i])
    BY <1>2, <1>10 DEF Holds, Held
  <2>2. ASSUME NEW q \in P2PReqs, NEW i \in Nat, NEW b \in P2PBufs, Held(p2p_req, q, i, b),
               \E j \in 1..n : m.bufs[j] = b
        PROVE  buf_data'[b] = i
    <3>1. PICK j : j = CHOOSE k \in 1..n : m.bufs[k] = b
      OBVIOUS
    <3>2. j \in 1..n /\ m.bufs[j] = b
      BY <2>2, <3>1, Zenon
    <3>3. j \in Nat /\ Held(p2p_req, m.req, j, b)
      BY <1>5, <2>1, <3>2
    <3>4. i = j
      BY <1>4, <2>2, <3>3 DEF P2PInv, BufsApart
    <3> QED BY <1>2, <2>2, <3>1, <3>4
  <2>3. ASSUME NEW q \in P2PReqs, NEW i \in Nat, NEW b \in P2PBufs, Held(p2p_req, q, i, b), buf_data[b] = i
        PROVE  buf_data'[b] = i
    <3>1. CASE \E j \in 1..n : m.bufs[j] = b
      BY <2>2, <2>3, <3>1
    <3>2. CASE ~ \E j \in 1..n : m.bufs[j] = b
      BY <1>2, <2>3, <3>2
    <3> QED BY <3>1, <3>2
  <2>4. ASSUME NEW q \in P2PReqs, NEW i \in DOMAIN p2p_req[q].bufs
        PROVE  i \in Nat /\ p2p_req[q].bufs[i] \in P2PBufs /\ Held(p2p_req, q, i, p2p_req[q].bufs[i])
    <3>1. p2p_req[q].bufs \in Seq(P2PBufs)
      BY DEF P2PInv, P2PTypeOK, P2PRequests
    <3> QED BY <2>4, <3>1 DEF Held
  <2>5. WrittenData'
    <3> SUFFICES ASSUME serving'.stage = "written", NEW i \in 1..serving.hits PROVE buf_data'[m.bufs[i]] = i
      BY <1>6 DEF WrittenData, Serves
    <3>1. i \in 1..n /\ i \in Nat
      BY <1>1, <1>4, <1>6
    <3>2. m.bufs[i] \in P2PBufs
      BY <1>4, <3>1
    <3> QED BY <1>4, <2>1, <2>2, <3>1, <3>2
  <2>6. AnsweredData'
    <3>1. lookup_lock \subseteq P2PReqs
      BY DEF P2PInv, P2PTypeOK
    <3>2. AnsweredData
      BY <2>1 DEF P2PInv
    <3> QED BY <1>2, <2>3, <2>4, <3>1, <3>2 DEF AnsweredData
  <2>7. GotData'
    <3>1. GotData
      BY <2>1 DEF P2PInv
    <3> QED BY <1>2, <2>3, <2>4, <3>1 DEF GotData
  <2> QED BY <2>5, <2>6, <2>7
<1> QED BY <1>7, <1>9, <1>10 DEF P2PInv

LEMMA P2PInvStep == P2PInv /\ [P2PNext]_p2p_vars => P2PInv'
<1> SUFFICES ASSUME P2PInv, [P2PNext]_p2p_vars PROVE P2PInv'
  OBVIOUS
<1>1. ASSUME NEW r \in P2PReqs, NEW n \in 1..p2p_setup.chunks, p2p_lookup(r, n) PROVE P2PInv'
  BY <1>1, LookupKeeps
<1>2. ASSUME NEW r \in P2PReqs, p2p_allocate(r) PROVE P2PInv'
  BY <1>2, AllocateBufsKeeps
<1>3. ASSUME NEW r \in P2PReqs, p2p_send(r) PROVE P2PInv'
  BY <1>3, SendKeeps
<1>4. ASSUME NEW r \in P2PReqs, answer_received(r) PROVE P2PInv'
  BY <1>4, AnswerKeeps
<1>5. ASSUME NEW r \in P2PReqs, reconnect_fails(r) \/ recv_times_out(r) \/ send_refused(r) \/ reconnect_raises(r)
      PROVE  P2PInv'
  BY <1>5, TryFailsKeeps
<1>6. ASSUME NEW r \in P2PReqs, p2p_consumed(r) PROVE P2PInv'
  BY <1>6, ConsumedKeeps
<1>7. ASSUME NEW m \in p2p_msgs, refuse(m) \/ peer_contains(m) PROVE P2PInv'
  BY <1>7, TakenUpKeeps
<1>8. CASE peer_gets
  BY <1>8, PeerGetsKeeps
<1>9. CASE peer_get_raises \/ peer_answers
  BY <1>9, PeerAnswersKeeps
<1>10. CASE \/ peer_restarts
            \/ \E c \in 1..p2p_setup.chunks : peer_evicts(c) \/ peer_removes(c) \/ peer_stores(c)
  BY <1>10, PeerCacheKeeps
<1>11. ASSUME NEW n \in 0..p2p_setup.chunks, peer_writes(n) PROVE P2PInv'
  BY <1>11, PeerWritesKeeps
<1>12. CASE UNCHANGED p2p_vars
  BY <1>12 DEF p2p_vars, P2PInv, P2PTypeOK, BufsApart, LockHeld, MsgsMatch, OneOutstanding, AnswersInRange,
               WrittenData, AnsweredData, GotData, Held, Serves, InFlight, Current
<1> QED BY <1>1, <1>2, <1>3, <1>4, <1>5, <1>6, <1>7, <1>8, <1>9, <1>10, <1>11, <1>12 DEF P2PNext

\* A request that got chunks from a peer holds the first chunks of its prompt, in order,
\* for any number of requests, buffers, chunks, tries and faults at the peer, unless the
\* peer wrote to buffers that had been given up (p2p_backend.py:
\* batched_get_non_blocking, _handle_batched_lookup_and_get).
THEOREM FetchedFromPeer == P2PSpec => []GotItsChunks
<1>1. P2PInv => GotItsChunks
  BY DEF P2PInv, GotData, GotItsChunks
<1> QED BY <1>1, P2PInvInit, P2PInvStep, PTL DEF P2PSpec
=============================================================================
