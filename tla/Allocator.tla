------------------------------ MODULE Allocator ------------------------------
(***************************************************************************)
(* AddressManager and TensorMemoryAllocator of memory_management.py, with  *)
(* the expansion thread of lazy_memory_allocator.py.                       *)
(*                                                                         *)
(* The address space is 0 .. heap - 1.  A block is [start, size]; the      *)
(* explicit list of free blocks, sorted by start, is the set free_list.    *)
(* Every operation of AddressManager runs under its lock.  A batched       *)
(* allocation that carves equal blocks from the free blocks in order takes *)
(* what as many first-fit allocations would; it works on a copy of the     *)
(* list, which replaces the list only if the whole batch fits.             *)
(* TensorMemoryAllocator.batched_free invalidates its objects, joins       *)
(* adjacent ones into runs, and frees run after run: allocations of other  *)
(* threads fall between two runs.                                          *)
(***************************************************************************)
EXTENDS Integers, FiniteSets

CONSTANTS
    RawSizes,       \* sizes callers ask for
    ALIGN_BYTES,
    InitSize,       \* the address space at the start
    FinalSize,      \* and when the expansion thread has ended
    ExpandSize,     \* what it adds at a time
    MaxBatch        \* blocks in a batch

VARIABLES
    heap,           \* AddressManager._size
    free_list,      \* _explicit_list
    total_allocated_size,
    live,           \* blocks of the valid memory objects
    batch,          \* the batched allocation that holds the lock, if any
    freeing         \* runs a batched_free has still to free

alloc_vars == <<heap, free_list, total_allocated_size, live, batch, freeing>>

Block == [start : Nat, size : Nat]
End(b) == b.start + b.size

compute_aligned_size(raw) == ((raw + ALIGN_BYTES - 1) \div ALIGN_BYTES) * ALIGN_BYTES

ASSUME AllocatorAssumption ==
    /\ InitSize \in Nat \ {0}
    /\ FinalSize \in Nat
    /\ ExpandSize \in Nat \ {0}
    /\ MaxBatch \in Nat \ {0}
    /\ \A raw \in RawSizes : compute_aligned_size(raw) \in Nat \ {0}

Closed == [open |-> FALSE, size |-> 1, count |-> 0, left |-> 0, list |-> {}, got |-> {}]

AllocInit ==
    /\ heap = InitSize
    /\ free_list = {[start |-> 0, size |-> InitSize]}
    /\ total_allocated_size = 0
    /\ live = {}
    /\ batch = Closed
    /\ freeing = {}

\* Mutant: the size test is off by one.
FirstFit_short(list, n, b) == b \in list /\ b.size >= n - 1

\* b is the first block of the list that holds n bytes.
FirstFit(list, n, b) ==
    /\ b \in list /\ b.size >= n
    /\ \A c \in list : c.size >= n => b.start <= c.start

\* The list once the first n bytes of its block b are taken.
Carved(list, n, b) ==
    (list \ {b}) \cup (IF b.size > n THEN {[start |-> b.start + n, size |-> b.size - n]} ELSE {})

\* Mutant: a freed block is joined to the block before it only.
Coalesced_prev(list, b, new) ==
    \/ \E p \in list : End(p) = b.start /\ new = (list \ {p}) \cup {[p EXCEPT !.size = p.size + b.size]}
    \/ (\A p \in list : End(p) # b.start) /\ new = list \cup {b}

\* free and _coalesce: the list `new` is `list` with b joined to the blocks
\* that end where it starts and start where it ends.
Coalesced(list, b, new) ==
    \/ \E p \in list, s \in list :
          /\ End(p) = b.start /\ End(b) = s.start
          /\ new = (list \ {p, s}) \cup {[start |-> p.start, size |-> p.size + b.size + s.size]}
    \/ \E p \in list :
          /\ End(p) = b.start /\ \A s \in list : End(b) # s.start
          /\ new = (list \ {p}) \cup {[start |-> p.start, size |-> p.size + b.size]}
    \/ \E s \in list :
          /\ End(b) = s.start /\ \A p \in list : End(p) # b.start
          /\ new = (list \ {s}) \cup {[start |-> b.start, size |-> b.size + s.size]}
    \/ /\ \A x \in list : End(x) # b.start /\ End(b) # x.start
       /\ new = list \cup {b}

\* TensorMemoryAllocator.allocate.
allocate(raw) ==
    LET n == compute_aligned_size(raw)
    IN  /\ ~batch.open
        /\ \E b \in free_list :
              /\ FirstFit(free_list, n, b)
              /\ free_list' = Carved(free_list, n, b)
              /\ live' = live \cup {[start |-> b.start, size |-> n]}
        /\ total_allocated_size' = total_allocated_size + n
        /\ UNCHANGED <<heap, batch, freeing>>

batched_allocate(raw, k) ==
    /\ ~batch.open
    /\ batch' = [open |-> TRUE, size |-> compute_aligned_size(raw), count |-> k, left |-> k,
                 list |-> free_list, got |-> {}]
    /\ UNCHANGED <<heap, free_list, total_allocated_size, live, freeing>>

BatchCarve ==
    /\ batch.open /\ batch.left > 0
    /\ \E b \in batch.list :
          /\ FirstFit(batch.list, batch.size, b)
          /\ batch' = [batch EXCEPT !.left = batch.left - 1,
                         !.list = Carved(batch.list, batch.size, b),
                         !.got = batch.got \cup {[start |-> b.start, size |-> batch.size]}]
    /\ UNCHANGED <<heap, free_list, total_allocated_size, live, freeing>>

BatchCommit ==
    /\ batch.open /\ batch.left = 0
    /\ free_list' = batch.list
    /\ live' = live \cup batch.got
    /\ total_allocated_size' = total_allocated_size + batch.size * batch.count
    /\ batch' = Closed
    /\ UNCHANGED <<heap, freeing>>

\* Not enough memory: the list is untouched.
BatchFail ==
    /\ batch.open /\ batch.left > 0
    /\ \A b \in batch.list : b.size < batch.size
    /\ batch' = Closed
    /\ UNCHANGED <<heap, free_list, total_allocated_size, live, freeing>>

\* TensorMemoryAllocator.free of a valid object, which becomes invalid.
free(b) ==
    /\ ~batch.open
    /\ Coalesced(free_list, b, free_list')
    /\ live' = live \ {b}
    /\ total_allocated_size' = total_allocated_size - b.size
    /\ UNCHANGED <<heap, batch, freeing>>

batched_free(objs) ==
    /\ freeing = {}
    /\ freeing' = objs
    /\ live' = live \ objs
    /\ UNCHANGED <<heap, free_list, total_allocated_size, batch>>

JoinRuns ==
    /\ \E a \in freeing, b \in freeing :
          /\ End(a) = b.start
          /\ freeing' = (freeing \ {a, b}) \cup {[start |-> a.start, size |-> a.size + b.size]}
    /\ UNCHANGED <<heap, free_list, total_allocated_size, live, batch>>

FreeRun ==
    /\ ~batch.open
    /\ \E b \in freeing :
          /\ \A x \in freeing : End(x) # b.start /\ End(b) # x.start
          /\ Coalesced(free_list, b, free_list')
          /\ freeing' = freeing \ {b}
          /\ total_allocated_size' = total_allocated_size - b.size
    /\ UNCHANGED <<heap, live, batch>>

\* The expansion thread commits more pinned memory: sbrk.
sbrk ==
    /\ ~batch.open
    /\ heap + ExpandSize <= FinalSize
    /\ LET new == [start |-> heap, size |-> ExpandSize]
       IN  Coalesced(free_list, new, free_list')
    /\ heap' = heap + ExpandSize
    /\ UNCHANGED <<total_allocated_size, live, batch, freeing>>

AllocNext ==
    \/ \E raw \in RawSizes : allocate(raw)
    \/ \E raw \in RawSizes, k \in 2 .. MaxBatch : batched_allocate(raw, k)
    \/ BatchCarve \/ BatchCommit \/ BatchFail
    \/ \E b \in live : free(b)
    \/ \E objs \in SUBSET live : batched_free(objs)
    \/ JoinRuns \/ FreeRun
    \/ sbrk

AllocSpec == AllocInit /\ [][AllocNext]_alloc_vars

----------------------------------------------------------------------------

Apart(a, b) == End(a) <= b.start \/ End(b) <= a.start
AllApart(S) == \A a \in S, b \in S : a # b => Apart(a, b)
NoneShared(S, T) == \A a \in S, b \in T : Apart(a, b)

\* The blocks in use and the free ones lie side by side in 0 .. size - 1.
Layout(used, list, size) ==
    /\ AllApart(used) /\ AllApart(list) /\ NoneShared(used, list)
    /\ \A b \in used \cup list : b.size > 0 /\ End(b) <= size

Joined(list) == \A a \in list, b \in list : End(a) # b.start

AllocTypeOK ==
    /\ heap \in Nat /\ total_allocated_size \in Int
    /\ free_list \subseteq Block /\ live \subseteq Block /\ freeing \subseteq Block
    /\ batch \in [open : BOOLEAN, size : Nat \ {0}, count : Nat, left : Nat,
                  list : SUBSET Block, got : SUBSET Block]

\* No byte belongs to two memory objects, or to an object and the free list
\* (first fit, splitting and coalescing of AddressManager, with batches and
\* runs of other threads in between), and none lies outside the heap.
NoOverlap == Layout(live \cup freeing, free_list, heap) /\ NoneShared(live, freeing)

\* check_consistency: adjacent free blocks have been joined.
FreeListCoalesced == Joined(free_list)

\* The same of the copy a batch works on.
BatchApart ==
    batch.open => /\ Layout(live \cup freeing \cup batch.got, batch.list, heap)
                  /\ NoneShared(batch.got, live \cup freeing)
                  /\ Joined(batch.list)

=============================================================================
