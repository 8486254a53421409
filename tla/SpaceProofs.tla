---------------------------- MODULE SpaceProofs -----------------------------
(***************************************************************************)
(* The space of the three stores that hand it out: bytes of a heap, bytes  *)
(* of a directory, slots of a device.                                      *)
(*                                                                         *)
(* The blocks of the allocator never overlap and its free list stays       *)
(* coalesced, for every alignment, heap size and sizes asked for.  The     *)
(* invariant is about the whole layout: free blocks, objects in use, runs  *)
(* about to be freed and, while a batch holds the lock, the copy it works  *)
(* on.  Two lemmas carry it: taking the front of a free block, and giving  *)
(* a block back to a list it does not overlap, keep a layout and keep a    *)
(* joined list joined.                                                     *)
(*                                                                         *)
(* The two backends that keep chunks on disk account for their space, for  *)
(* any set of keys, any capacity, any number of worker threads and any     *)
(* number of restarts.  The modules share no state; each has an inductive  *)
(* invariant of its own.                                                   *)
(***************************************************************************)
EXTENDS Allocator, LocalDisk, RawBlock, FiniteSetTheorems, SequenceTheorems, TLAPS

----------------------------------------------------------------------------
\* The allocator.

AllocInv == AllocTypeOK /\ NoOverlap /\ FreeListCoalesced /\ BatchApart

\* The front n bytes of a free block, taken as allocate takes them.
LEMMA CarveLayout ==
    ASSUME NEW U, U \subseteq Block, NEW F, F \subseteq Block, NEW H \in Nat,
           NEW n \in Nat \ {0}, NEW b, b \in F, b.size >= n,
           Layout(U, F, H), Joined(F),
           NEW new \in Block, new = [start |-> b.start, size |-> n]
    PROVE  /\ new \in Block /\ Carved(F, n, b) \subseteq Block
           /\ Layout(U \cup {new}, Carved(F, n, b), H)
           /\ NoneShared({new}, U)
           /\ Joined(Carved(F, n, b))
<1> DEFINE rest == [start |-> b.start + n, size |-> b.size - n]
           G == Carved(F, n, b)
<1>1. b \in Block /\ b.start \in Nat /\ b.size \in Nat
  BY DEF Block
<1>2. new \in Block /\ new.start = b.start /\ new.size = n
  BY <1>1 DEF Block
<1>3. b.size > n => rest \in Block /\ rest.start = b.start + n /\ rest.size = b.size - n
  BY <1>1 DEF Block
<1>4. \A x \in G : (x \in F /\ x # b) \/ (b.size > n /\ x = rest)
  BY DEF Carved
<1>5. G \subseteq Block
  BY <1>3, <1>4
<1>6. \A x \in U : Apart(x, new)
  BY <1>1, <1>2 DEF Layout, NoneShared, Apart, End, Block
<1>7. AllApart(U \cup {new})
  BY <1>1, <1>2, <1>6 DEF Layout, AllApart, Apart, End, Block
<1>8. \A x \in F : x # b => Apart(x, new) /\ Apart(new, x)
  BY <1>1, <1>2 DEF Layout, AllApart, Apart, End, Block
<1>9. b.size > n => /\ Apart(rest, new) /\ Apart(new, rest)
                    /\ \A x \in F : x # b => Apart(x, rest) /\ Apart(rest, x)
                    /\ \A x \in U : Apart(x, rest)
  BY <1>1, <1>2, <1>3 DEF Layout, AllApart, NoneShared, Apart, End, Block
<1>10. AllApart(G)
  BY <1>4, <1>9 DEF Layout, AllApart
<1>11. NoneShared(U \cup {new}, G)
  BY <1>4, <1>8, <1>9 DEF Layout, NoneShared
<1>12. \A x \in (U \cup {new}) \cup G : x.size > 0 /\ End(x) <= H
  BY <1>1, <1>2, <1>3, <1>4 DEF Layout, End, Block
<1>13. NoneShared({new}, U)
  BY <1>6 DEF NoneShared, Apart
<1>14. Joined(G)
  <2> SUFFICES ASSUME NEW x \in G, NEW y \in G PROVE End(x) # y.start
    BY DEF Joined
  <2>1. CASE x \in F /\ y \in F
    BY <2>1 DEF Joined
  <2>2. CASE b.size > n /\ x = rest /\ y \in F
    <3>1. End(x) = End(b)
      BY <2>2, <1>1, <1>3 DEF End
    <3> QED  BY <3>1, <2>2 DEF Joined
  <2>3. CASE b.size > n /\ y = rest /\ x \in F
    <3>1. x \in Block
      BY <2>3
    <3>2. CASE x = b
      BY <3>2, <2>3, <1>1, <1>3 DEF End
    <3>3. CASE x # b
      <4>1. Apart(x, b) /\ x.size > 0
        BY <2>3, <3>3 DEF Layout, AllApart
      <4> QED  BY <4>1, <2>3, <3>1, <1>1, <1>3 DEF Apart, End, Block
    <3> QED  BY <3>2, <3>3
  <2>4. CASE b.size > n /\ x = rest /\ y = rest
    BY <2>4, <1>1, <1>3 DEF End
  <2> QED  BY <1>4, <2>1, <2>2, <2>3, <2>4
<1> HIDE DEF G
<1>15. Layout(U \cup {new}, G, H)
  BY <1>7, <1>10, <1>11, <1>12 DEF Layout
<1> QED  BY <1>2, <1>5, <1>13, <1>14, <1>15 DEF G

\* A free list in which one block m replaces some blocks.
LEMMA ReplaceLayout ==
    ASSUME NEW U, U \subseteq Block, NEW F, F \subseteq Block, NEW H \in Nat,
           Layout(U, F, H), Joined(F),
           NEW m \in Block, m.size > 0, End(m) <= H,
           NEW N, N \subseteq F \cup {m},
           \A x \in U : Apart(x, m),
           \A x \in N \ {m} : Apart(x, m) /\ End(x) # m.start /\ End(m) # x.start
    PROVE  N \subseteq Block /\ Layout(U, N, H) /\ Joined(N)
<1>1. N \subseteq Block
  OBVIOUS
<1>2. AllApart(N)
  BY DEF Layout, AllApart, Apart
<1>3. NoneShared(U, N)
  BY DEF Layout, NoneShared
<1>4. \A x \in U \cup N : x.size > 0 /\ End(x) <= H
  BY DEF Layout
<1>5. Joined(N)
  <2> SUFFICES ASSUME NEW x \in N, NEW y \in N PROVE End(x) # y.start
    BY DEF Joined
  <2>1. CASE x # m /\ y # m
    BY <2>1 DEF Joined
  <2>2. CASE x = m /\ y = m
    BY <2>2 DEF End, Block
  <2> QED  BY <2>1, <2>2
<1> QED  BY <1>1, <1>2, <1>3, <1>4, <1>5 DEF Layout

\* A block that overlaps nothing, given back to the list as free gives it.
LEMMA CoalesceLayout ==
    ASSUME NEW U, U \subseteq Block, NEW F, F \subseteq Block, NEW H \in Nat,
           NEW b \in Block, b.size > 0, End(b) <= H,
           NoneShared({b}, U), NoneShared({b}, F),
           Layout(U, F, H), Joined(F),
           NEW N, Coalesced(F, b, N)
    PROVE  N \subseteq Block /\ Layout(U, N, H) /\ Joined(N)
<1>0. b.start \in Nat /\ b.size \in Nat /\ \A x \in U \cup F : x.start \in Nat /\ x.size \in Nat
  BY DEF Block
<1>1. CASE \E p \in F, s \in F :
             /\ End(p) = b.start /\ End(b) = s.start
             /\ N = (F \ {p, s}) \cup {[start |-> p.start, size |-> p.size + b.size + s.size]}
  <2> PICK p \in F, s \in F :
             /\ End(p) = b.start /\ End(b) = s.start
             /\ N = (F \ {p, s}) \cup {[start |-> p.start, size |-> p.size + b.size + s.size]}
    BY <1>1
  <2> DEFINE m == [start |-> p.start, size |-> p.size + b.size + s.size]
  <2>1. m \in Block /\ m.start = p.start /\ m.size = p.size + b.size + s.size
    BY <1>0 DEF Block
  <2>2. End(m) = End(s) /\ End(s) <= H /\ m.size > 0
    BY <1>0, <2>1 DEF End, Layout
  <2>3. N = (F \ {p, s}) \cup {m}
    OBVIOUS
  <2> HIDE DEF m
  <2>4. \A x \in U : Apart(x, m)
    BY <1>0, <2>1 DEF Layout, NoneShared, Apart, End
  <2>5. \A x \in F \ {p, s} : Apart(x, m)
    BY <1>0, <2>1 DEF Layout, AllApart, NoneShared, Apart, End
  <2>6. \A x \in F : End(x) # m.start /\ End(m) # x.start
    BY <2>1, <2>2 DEF Joined
  <2>7. \A x \in N \ {m} : Apart(x, m) /\ End(x) # m.start /\ End(m) # x.start
    BY <2>3, <2>5, <2>6
  <2> QED  BY <2>1, <2>2, <2>3, <2>4, <2>7, ReplaceLayout
<1>2. CASE \E p \in F :
             /\ End(p) = b.start /\ \A s \in F : End(b) # s.start
             /\ N = (F \ {p}) \cup {[start |-> p.start, size |-> p.size + b.size]}
  <2> PICK p \in F :
             /\ End(p) = b.start /\ \A s \in F : End(b) # s.start
             /\ N = (F \ {p}) \cup {[start |-> p.start, size |-> p.size + b.size]}
    BY <1>2
  <2> DEFINE m == [start |-> p.start, size |-> p.size + b.size]
  <2>1. m \in Block /\ m.start = p.start /\ m.size = p.size + b.size
    BY <1>0 DEF Block
  <2>2. End(m) = End(b) /\ End(b) <= H /\ m.size > 0
    BY <1>0, <2>1 DEF End, Layout
  <2>3. N = (F \ {p}) \cup {m}
    OBVIOUS
  <2> HIDE DEF m
  <2>4. \A x \in U : Apart(x, m)
    BY <1>0, <2>1 DEF Layout, NoneShared, Apart, End
  <2>5. \A x \in F \ {p} : Apart(x, m)
    BY <1>0, <2>1 DEF Layout, AllApart, NoneShared, Apart, End
  <2>6. \A x \in F : End(x) # m.start /\ End(m) # x.start
    BY <2>1, <2>2 DEF Joined
  <2>7. \A x \in N \ {m} : Apart(x, m) /\ End(x) # m.start /\ End(m) # x.start
    BY <2>3, <2>5, <2>6
  <2> QED  BY <2>1, <2>2, <2>3, <2>4, <2>7, ReplaceLayout
<1>3. CASE \E s \in F :
             /\ End(b) = s.start /\ \A p \in F : End(p) # b.start
             /\ N = (F \ {s}) \cup {[start |-> b.start, size |-> b.size + s.size]}
  <2> PICK s \in F :
             /\ End(b) = s.start /\ \A p \in F : End(p) # b.start
             /\ N = (F \ {s}) \cup {[start |-> b.start, size |-> b.size + s.size]}
    BY <1>3
  <2> DEFINE m == [start |-> b.start, size |-> b.size + s.size]
  <2>1. m \in Block /\ m.start = b.start /\ m.size = b.size + s.size
    BY <1>0 DEF Block
  <2>2. End(m) = End(s) /\ End(s) <= H /\ m.size > 0
    BY <1>0, <2>1 DEF End, Layout
  <2>3. N = (F \ {s}) \cup {m}
    OBVIOUS
  <2> HIDE DEF m
  <2>4. \A x \in U : Apart(x, m)
    BY <1>0, <2>1 DEF Layout, NoneShared, Apart, End
  <2>5. \A x \in F \ {s} : Apart(x, m)
    BY <1>0, <2>1 DEF Layout, AllApart, NoneShared, Apart, End
  <2>6. \A x \in F : End(x) # m.start /\ End(m) # x.start
    BY <2>1, <2>2 DEF Joined
  <2>7. \A x \in N \ {m} : Apart(x, m) /\ End(x) # m.start /\ End(m) # x.start
    BY <2>3, <2>5, <2>6
  <2> QED  BY <2>1, <2>2, <2>3, <2>4, <2>7, ReplaceLayout
<1>4. CASE /\ \A x \in F : End(x) # b.start /\ End(b) # x.start
           /\ N = F \cup {b}
  <2>1. \A x \in U \cup F : Apart(x, b)
    BY DEF NoneShared, Apart
  <2>2. N \subseteq F \cup {b}
    BY <1>4
  <2> QED  BY <1>4, <2>1, <2>2, ReplaceLayout
<1> QED  BY <1>1, <1>2, <1>3, <1>4 DEF Coalesced

LEMMA AllocInitInv == AllocInit => AllocInv
<1> SUFFICES ASSUME AllocInit PROVE AllocInv
  OBVIOUS
<1> DEFINE b == [start |-> 0, size |-> InitSize]
<1>1. b \in Block /\ b.start = 0 /\ b.size = InitSize /\ b.size > 0
  BY AllocatorAssumption DEF Block
<1>2. free_list = {b} /\ live = {} /\ freeing = {} /\ heap = InitSize /\ batch = Closed
  BY DEF AllocInit
<1> HIDE DEF b
<1>3. AllocTypeOK
  BY <1>1, <1>2, AllocatorAssumption DEF AllocInit, AllocTypeOK, Closed
<1>4. NoOverlap
  BY <1>1, <1>2, AllocatorAssumption DEF NoOverlap, Layout, AllApart, NoneShared, End
<1>5. FreeListCoalesced
  BY <1>1, <1>2, AllocatorAssumption DEF FreeListCoalesced, Joined, End
<1>6. BatchApart
  BY <1>2 DEF BatchApart, Closed
<1> QED  BY <1>3, <1>4, <1>5, <1>6 DEF AllocInv

\* A set of blocks in use that loses some: the layout stays one.
LEMMA FewerUsed ==
    ASSUME NEW U, NEW V, V \subseteq U, NEW F, NEW H, Layout(U, F, H)
    PROVE  Layout(V, F, H)
BY DEF Layout, AllApart, NoneShared

\* Two adjacent blocks in use that become one, m.
LEMMA JoinUsed ==
    ASSUME NEW U, U \subseteq Block, NEW F, F \subseteq Block, NEW H \in Nat, Layout(U, F, H),
           NEW a \in U, NEW b \in U, End(a) = b.start,
           NEW m, m = [start |-> a.start, size |-> a.size + b.size],
           NEW V, V \subseteq (U \ {a, b}) \cup {m}
    PROVE  V \subseteq Block /\ Layout(V, F, H)
<1>0. \A x \in U \cup F : x.start \in Nat /\ x.size \in Nat /\ x.size > 0
  BY DEF Block, Layout
<1>1. m \in Block /\ m.start = a.start /\ m.size = a.size + b.size /\ m.size > 0
  BY <1>0 DEF Block
<1>2. End(m) = End(b) /\ End(b) <= H
  BY <1>0, <1>1 DEF End, Layout
<1>3. \A x \in U \ {a, b} : Apart(x, m) /\ Apart(m, x)
  BY <1>0, <1>1 DEF Layout, AllApart, Apart, End
<1>4. \A x \in F : Apart(m, x)
  BY <1>0, <1>1 DEF Layout, NoneShared, Apart, End
<1>5. AllApart(V)
  BY <1>3 DEF Layout, AllApart
<1>6. NoneShared(V, F)
  BY <1>4 DEF Layout, NoneShared
<1>7. \A x \in V \cup F : x.size > 0 /\ End(x) <= H
  BY <1>1, <1>2 DEF Layout
<1> QED  BY <1>1, <1>5, <1>6, <1>7 DEF Layout

LEMMA AllocNextInv == AllocInv /\ [AllocNext]_alloc_vars => AllocInv'
<1> SUFFICES ASSUME AllocInv, [AllocNext]_alloc_vars PROVE AllocInv'
  OBVIOUS
<1> DEFINE used == live \cup freeing
<1>0. /\ AllocTypeOK /\ NoOverlap /\ FreeListCoalesced /\ BatchApart
      /\ heap \in Nat /\ free_list \subseteq Block /\ used \subseteq Block
      /\ batch.list \subseteq Block /\ batch.got \subseteq Block
      /\ Layout(used, free_list, heap) /\ Joined(free_list) /\ NoneShared(live, freeing)
  BY DEF AllocInv, AllocTypeOK, NoOverlap, FreeListCoalesced
<1>1. ASSUME NEW raw \in RawSizes, allocate(raw) PROVE AllocInv'
  <2> DEFINE n == compute_aligned_size(raw)
  <2>1. n \in Nat \ {0}
    BY AllocatorAssumption
  <2> HIDE DEF n
  <2>2. PICK b \in free_list :
          /\ FirstFit(free_list, n, b)
          /\ free_list' = Carved(free_list, n, b)
          /\ live' = live \cup {[start |-> b.start, size |-> n]}
    BY <1>1 DEF allocate, n
  <2> DEFINE new == [start |-> b.start, size |-> n]
  <2>a. new \in Block
    BY <1>0, <2>1 DEF Block
  <2>3. /\ new \in Block /\ free_list' \subseteq Block
        /\ Layout(used \cup {new}, free_list', heap) /\ NoneShared({new}, used)
        /\ Joined(free_list')
    BY <1>0, <2>1, <2>2, <2>a, CarveLayout DEF FirstFit
  <2>4. live' = live \cup {new}
    BY <2>2
  <2> HIDE DEF new
  <2>5. ~batch.open /\ heap' = heap /\ batch' = batch /\ freeing' = freeing
        /\ total_allocated_size' = total_allocated_size + n
    BY <1>1 DEF allocate, n
  <2>6. live' \cup freeing' = used \cup {new}
    BY <2>4, <2>5
  <2>7. NoneShared(live', freeing')
    BY <1>0, <2>3, <2>4, <2>5 DEF NoneShared
  <2>8. AllocTypeOK'
    BY <1>0, <2>1, <2>3, <2>4, <2>5 DEF AllocTypeOK
  <2>9. NoOverlap' /\ FreeListCoalesced' /\ BatchApart'
    BY <2>3, <2>5, <2>6, <2>7 DEF NoOverlap, FreeListCoalesced, BatchApart
  <2> QED  BY <2>8, <2>9 DEF AllocInv
<1>2. ASSUME NEW raw \in RawSizes, NEW k \in 2 .. MaxBatch, batched_allocate(raw, k)
      PROVE  AllocInv'
  <2>1. compute_aligned_size(raw) \in Nat \ {0} /\ k \in Nat
    BY AllocatorAssumption
  <2>2. /\ batch' = [open |-> TRUE, size |-> compute_aligned_size(raw), count |-> k, left |-> k,
                     list |-> free_list, got |-> {}]
        /\ UNCHANGED <<heap, free_list, total_allocated_size, live, freeing>>
    BY <1>2 DEF batched_allocate
  <2>3. AllocTypeOK'
    BY <1>0, <2>1, <2>2 DEF AllocTypeOK
  <2>4. NoOverlap' /\ FreeListCoalesced'
    BY <1>0, <2>2 DEF NoOverlap, FreeListCoalesced
  <2>5. batch'.got = {} /\ batch'.list = free_list /\ used \cup {} = used
    BY <2>2
  <2>6. NoneShared({}, used)
    BY DEF NoneShared
  <2>7. BatchApart'
    BY <1>0, <2>2, <2>5, <2>6 DEF BatchApart
  <2> QED  BY <2>3, <2>4, <2>7 DEF AllocInv
<1>3. CASE BatchCarve
  <2>1. PICK b \in batch.list :
          /\ FirstFit(batch.list, batch.size, b)
          /\ batch' = [batch EXCEPT !.left = batch.left - 1,
                         !.list = Carved(batch.list, batch.size, b),
                         !.got = batch.got \cup {[start |-> b.start, size |-> batch.size]}]
    BY <1>3 DEF BatchCarve
  <2> DEFINE n == batch.size
             new == [start |-> b.start, size |-> n]
             U == used \cup batch.got
             B == batch.list
  <2>2. /\ n \in Nat \ {0} /\ batch.open /\ batch.left \in Nat /\ batch.left > 0
        /\ UNCHANGED <<heap, free_list, total_allocated_size, live, freeing>>
    BY <1>0, <1>3 DEF BatchCarve, AllocTypeOK
  <2>3. Layout(U, batch.list, heap) /\ NoneShared(batch.got, used) /\ Joined(batch.list)
        /\ U \subseteq Block
    BY <1>0, <2>2 DEF BatchApart
  <2>4. /\ new \in Block /\ Carved(batch.list, n, b) \subseteq Block
        /\ Layout(U \cup {new}, Carved(batch.list, n, b), heap) /\ NoneShared({new}, U)
        /\ Joined(Carved(batch.list, n, b))
    <3>1. new = [start |-> b.start, size |-> n]
      OBVIOUS
    <3>2. /\ b \in B /\ b.size >= n /\ B \subseteq Block /\ Layout(U, B, heap) /\ Joined(B)
          /\ U \subseteq Block /\ heap \in Nat /\ n \in Nat \ {0}
      BY <1>0, <2>1, <2>2, <2>3 DEF FirstFit
    <3> HIDE DEF U, B, n, new
    <3>3. /\ new \in Block /\ Carved(B, n, b) \subseteq Block
          /\ Layout(U \cup {new}, Carved(B, n, b), heap) /\ NoneShared({new}, U)
          /\ Joined(Carved(B, n, b))
      <4>1. new \in Block
        BY <3>1, <3>2 DEF Block
      <4>3. Joined(Carved(B, n, b))
        BY <3>1, <3>2, <4>1, CarveLayout
      <4>4. NoneShared({new}, U)
        BY <3>1, <3>2, <4>1, CarveLayout
      <4>5. Carved(B, n, b) \subseteq Block
        BY <3>1, <3>2, <4>1, CarveLayout
      <4>6. Layout(U \cup {new}, Carved(B, n, b), heap)
        BY <3>1, <3>2, <4>1, CarveLayout
      <4>7. QED BY <4>1, <4>3, <4>4, <4>5, <4>6
    <3> QED  BY <3>3 DEF B
  <2>5. /\ batch'.open /\ batch'.list = Carved(batch.list, n, b)
        /\ batch'.got = batch.got \cup {new} /\ batch'.size = n
        /\ batch'.left = batch.left - 1
        /\ batch' \in [open : BOOLEAN, size : Nat \ {0}, count : Nat, left : Nat,
                       list : SUBSET Block, got : SUBSET Block]
    <3>1. batch.left - 1 \in Nat
      BY <2>2
    <3> QED  BY <1>0, <2>1, <2>2, <2>4, <3>1 DEF AllocTypeOK
  <2> HIDE DEF new
  <2>6. AllocTypeOK'
    BY <1>0, <2>2, <2>5 DEF AllocTypeOK
  <2>7. NoOverlap' /\ FreeListCoalesced'
    BY <1>0, <2>2 DEF NoOverlap, FreeListCoalesced
  <2>8. live' \cup freeing' \cup batch'.got = U \cup {new}
    BY <2>2, <2>5
  <2>9. NoneShared(batch'.got, live' \cup freeing')
    BY <2>2, <2>3, <2>4, <2>5 DEF NoneShared
  <2>10. BatchApart'
    BY <2>2, <2>4, <2>5, <2>8, <2>9 DEF BatchApart
  <2> QED  BY <2>6, <2>7, <2>10 DEF AllocInv
<1>4. CASE BatchCommit
  <2>1. /\ batch.open /\ free_list' = batch.list /\ live' = live \cup batch.got
        /\ batch' = Closed /\ heap' = heap /\ freeing' = freeing
        /\ total_allocated_size' = total_allocated_size + batch.size * batch.count
    BY <1>4 DEF BatchCommit
  <2>2. Layout(used \cup batch.got, batch.list, heap) /\ NoneShared(batch.got, used)
        /\ Joined(batch.list)
    BY <1>0, <2>1 DEF BatchApart
  <2>3. live' \cup freeing' = used \cup batch.got
    BY <2>1
  <2>4. NoneShared(live', freeing')
    BY <1>0, <2>1, <2>2 DEF NoneShared
  <2>5. ~batch'.open /\ batch' \in [open : BOOLEAN, size : Nat \ {0}, count : Nat, left : Nat,
                       list : SUBSET Block, got : SUBSET Block]
    BY <2>1 DEF Closed
  <2>6. AllocTypeOK'
    <3>1. batch.size \in Nat /\ batch.count \in Nat /\ total_allocated_size \in Int
      BY <1>0 DEF AllocTypeOK
    <3>2. total_allocated_size' \in Int
      BY <2>1, <3>1
    <3> QED  BY <1>0, <2>1, <2>5, <3>2 DEF AllocTypeOK
  <2>7. NoOverlap' /\ FreeListCoalesced' /\ BatchApart'
    BY <2>1, <2>2, <2>3, <2>4, <2>5 DEF NoOverlap, FreeListCoalesced, BatchApart
  <2> QED  BY <2>6, <2>7 DEF AllocInv
<1>5. CASE BatchFail
  <2>1. batch' = Closed /\ UNCHANGED <<heap, free_list, total_allocated_size, live, freeing>>
    BY <1>5 DEF BatchFail
  <2>2. ~batch'.open /\ batch' \in [open : BOOLEAN, size : Nat \ {0}, count : Nat, left : Nat,
                       list : SUBSET Block, got : SUBSET Block]
    BY <2>1 DEF Closed
  <2> QED  BY <1>0, <2>1, <2>2
            DEF AllocInv, AllocTypeOK, NoOverlap, FreeListCoalesced, BatchApart
<1>6. ASSUME NEW b \in used, NEW U, U \subseteq used, NoneShared({b}, U),
             ~batch.open, Coalesced(free_list, b, free_list'),
             heap' = heap, batch' = batch, live' \cup freeing' = U,
             NoneShared(live', freeing'),
             total_allocated_size' = total_allocated_size - b.size
      PROVE  AllocInv'
  <2>1. b \in Block /\ b.size > 0 /\ End(b) <= heap /\ NoneShared({b}, free_list)
    BY <1>0 DEF Layout, NoneShared
  <2>2. Layout(U, free_list, heap) /\ U \subseteq Block
    BY <1>0, <1>6, FewerUsed
  <2>3. free_list' \subseteq Block /\ Layout(U, free_list', heap) /\ Joined(free_list')
    <3> HIDE DEF used
    <3> QED  BY <1>0, <1>6, <2>1, <2>2, CoalesceLayout
  <2>4. live' \subseteq Block /\ freeing' \subseteq Block /\ total_allocated_size' \in Int
    BY <1>0, <1>6, <2>1, <2>2 DEF AllocTypeOK, Block
  <2> QED  BY <1>0, <1>6, <2>3, <2>4
            DEF AllocInv, AllocTypeOK, NoOverlap, FreeListCoalesced, BatchApart
<1>7. ASSUME NEW b \in live, free(b) PROVE AllocInv'
  <2> DEFINE U == (live \ {b}) \cup freeing
  <2>1. /\ ~batch.open /\ Coalesced(free_list, b, free_list') /\ live' = live \ {b}
        /\ heap' = heap /\ batch' = batch /\ freeing' = freeing
        /\ total_allocated_size' = total_allocated_size - b.size
    BY <1>7 DEF free
  <2>2. U \subseteq used /\ live' \cup freeing' = U /\ b \in used
    BY <2>1
  <2>3. NoneShared({b}, U)
    BY <1>0 DEF NoneShared, Layout, AllApart
  <2>4. NoneShared(live', freeing')
    BY <1>0, <2>1 DEF NoneShared
  <2> QED  BY <1>6, <2>1, <2>2, <2>3, <2>4
<1>8. ASSUME NEW objs \in SUBSET live, batched_free(objs) PROVE AllocInv'
  <2>1. /\ freeing = {} /\ freeing' = objs /\ live' = live \ objs
        /\ UNCHANGED <<heap, free_list, total_allocated_size, batch>>
    BY <1>8 DEF batched_free
  <2>2. live' \cup freeing' = used
    BY <2>1
  <2>3. NoneShared(live', freeing')
    BY <1>0, <2>1 DEF NoneShared, Layout, AllApart
  <2>4. live' \subseteq Block /\ freeing' \subseteq Block
    BY <1>0, <2>1
  <2> QED  BY <1>0, <2>1, <2>2, <2>3, <2>4
            DEF AllocInv, AllocTypeOK, NoOverlap, FreeListCoalesced, BatchApart
<1>9. CASE JoinRuns
  <2>1. PICK a \in freeing, b \in freeing :
          /\ End(a) = b.start
          /\ freeing' = (freeing \ {a, b}) \cup {[start |-> a.start, size |-> a.size + b.size]}
    BY <1>9 DEF JoinRuns
  <2> DEFINE m == [start |-> a.start, size |-> a.size + b.size]
  <2>2. m = [start |-> a.start, size |-> a.size + b.size] /\ freeing' = (freeing \ {a, b}) \cup {m}
    BY <2>1
  <2>3. UNCHANGED <<heap, free_list, total_allocated_size, live, batch>>
    BY <1>9 DEF JoinRuns
  <2> HIDE DEF m
  <2>4. /\ a \in Block /\ b \in Block /\ a.start \in Nat /\ a.size \in Nat /\ a.size > 0
        /\ b.start \in Nat /\ b.size \in Nat /\ b.size > 0
    BY <1>0 DEF Block, Layout
  <2>5. ~Apart(a, a) /\ ~Apart(b, b) /\ m.start = a.start /\ m.size = a.size + b.size
        /\ m \in Block
    BY <2>2, <2>4 DEF Apart, End, Block
  <2>6. a \notin live /\ b \notin live
    BY <1>0, <2>5 DEF NoneShared
  <2>7. live' \cup freeing' \subseteq (used \ {a, b}) \cup {m}
    BY <2>2, <2>3, <2>6
  <2>8. freeing' \subseteq Block /\ Layout(live' \cup freeing', free_list, heap)
    <3> DEFINE V == live' \cup freeing'
    <3>1. /\ a \in used /\ b \in used /\ V \subseteq (used \ {a, b}) \cup {m}
          /\ used \subseteq Block /\ free_list \subseteq Block /\ heap \in Nat
          /\ Layout(used, free_list, heap) /\ End(a) = b.start
      BY <1>0, <2>1, <2>7
    <3> HIDE DEF used, V
    <3>2. V \subseteq Block /\ Layout(V, free_list, heap)
      BY <2>2, <3>1, JoinUsed
    <3> QED  BY <3>2 DEF V
  <2>9. \A x \in Block : Apart(a, x) /\ Apart(b, x) /\ x.size > 0 => Apart(m, x) /\ Apart(x, m)
    BY <2>1, <2>4, <2>5 DEF Apart, End, Block
  <2>10. \A x \in used : x \in Block /\ x.size > 0
    BY <1>0 DEF Layout
  <2>11. NoneShared(live', freeing')
    <3>1. \A x \in live : Apart(a, x) /\ Apart(b, x)
      BY <1>0 DEF NoneShared, Apart
    <3> QED  BY <1>0, <2>2, <2>3, <2>9, <2>10, <3>1 DEF NoneShared
  <2>12. ASSUME batch.open
         PROVE  /\ Layout(live' \cup freeing' \cup batch.got, batch.list, heap)
                /\ NoneShared(batch.got, live' \cup freeing') /\ Joined(batch.list)
    <3> DEFINE W == used \cup batch.got
               V == live' \cup freeing' \cup batch.got
    <3>1. Layout(W, batch.list, heap) /\ NoneShared(batch.got, used) /\ Joined(batch.list)
      BY <1>0, <2>12 DEF BatchApart
    <3>2. \A x \in batch.got : Apart(a, x) /\ Apart(b, x) /\ x \in Block /\ x.size > 0
      BY <1>0, <3>1 DEF NoneShared, Apart, Layout
    <3>3. a \notin batch.got /\ b \notin batch.got
      BY <2>5, <3>2
    <3>4. V \subseteq (W \ {a, b}) \cup {m} /\ a \in W /\ b \in W /\ W \subseteq Block
      BY <1>0, <2>7, <3>3
    <3>5. Layout(V, batch.list, heap)
      <4> HIDE DEF V, W
      <4> QED  BY <1>0, <2>1, <2>2, <3>1, <3>4, JoinUsed
    <3>6. NoneShared(batch.got, live' \cup freeing')
      BY <2>7, <2>9, <3>1, <3>2 DEF NoneShared
    <3> QED  BY <3>1, <3>5, <3>6
  <2>13. BatchApart'
    BY <2>3, <2>12 DEF BatchApart
  <2> QED  BY <1>0, <2>3, <2>8, <2>11, <2>13 DEF AllocInv, AllocTypeOK, NoOverlap, FreeListCoalesced
<1>10. CASE FreeRun
  <2>1. PICK b \in freeing :
          /\ Coalesced(free_list, b, free_list')
          /\ freeing' = freeing \ {b}
          /\ total_allocated_size' = total_allocated_size - b.size
    BY <1>10 DEF FreeRun
  <2> DEFINE U == live \cup (freeing \ {b})
  <2>2. ~batch.open /\ UNCHANGED <<heap, live, batch>>
    BY <1>10 DEF FreeRun
  <2>3. U \subseteq used /\ live' \cup freeing' = U /\ b \in used
    BY <2>1, <2>2
  <2>4. NoneShared({b}, U)
    BY <1>0 DEF NoneShared, Layout, AllApart, Apart
  <2>5. NoneShared(live', freeing')
    BY <1>0, <2>1, <2>2 DEF NoneShared
  <2> QED  BY <1>6, <2>1, <2>2, <2>3, <2>4, <2>5
<1>11. CASE sbrk
  <2> DEFINE new == [start |-> heap, size |-> ExpandSize]
             H == heap + ExpandSize
  <2>1. /\ ~batch.open /\ heap' = H /\ Coalesced(free_list, new, free_list')
        /\ UNCHANGED <<total_allocated_size, live, batch, freeing>>
    BY <1>11 DEF sbrk
  <2>2. new \in Block /\ new.start = heap /\ new.size = ExpandSize /\ new.size > 0 /\ H \in Nat
        /\ heap <= H /\ End(new) <= H
    BY <1>0, AllocatorAssumption DEF Block, End
  <2> HIDE DEF new, H
  <2>3. NoneShared({new}, used) /\ NoneShared({new}, free_list)
    BY <1>0, <2>2 DEF NoneShared, Layout, Apart
  <2>4. Layout(used, free_list, H)
    BY <1>0, <2>2 DEF Layout, End, Block
  <2>5. free_list' \subseteq Block /\ Layout(used, free_list', H) /\ Joined(free_list')
    <3> HIDE DEF used
    <3> QED  BY <1>0, <2>1, <2>2, <2>3, <2>4, CoalesceLayout
  <2> QED  BY <1>0, <2>1, <2>2, <2>5
            DEF AllocInv, AllocTypeOK, NoOverlap, FreeListCoalesced, BatchApart
<1>12. CASE UNCHANGED alloc_vars
  BY <1>0, <1>12 DEF alloc_vars, AllocInv, AllocTypeOK, NoOverlap, FreeListCoalesced, BatchApart
<1> QED  BY <1>1, <1>2, <1>3, <1>4, <1>5, <1>7, <1>8, <1>9, <1>10, <1>11, <1>12 DEF AllocNext

LEMMA AllocSafety == AllocSpec => []AllocInv
BY AllocInitInv, AllocNextInv, PTL DEF AllocSpec

\* No byte of the heap is ever handed out twice or handed out while the free
\* list holds it, whatever batches, runs and expansions interleave.
THEOREM NoOverlapHolds == AllocSpec => []NoOverlap
<1>1. AllocInv => NoOverlap
  BY DEF AllocInv
<1> QED  BY <1>1, AllocSafety, PTL

\* Adjacent free blocks are joined whenever the lock is free, which is what
\* check_consistency tests after the fact.
THEOREM FreeListCoalescedHolds == AllocSpec => []FreeListCoalesced
<1>1. AllocInv => FreeListCoalesced
  BY DEF AllocInv
<1> QED  BY <1>1, AllocSafety, PTL

----------------------------------------------------------------------------
\* LocalDiskBackend.

PutStages == {"none", "queued", "writing", "written", "inserted"}

\* Saves whose chunk is not in the dict yet.
Saving == {k \in DiskKeys : put_job[k] \in {"queued", "writing", "written"}}

DiskTypeOK ==
    /\ disk_dict \in SUBSET DiskKeys /\ IsFiniteSet(disk_dict)
    /\ put_tasks \subseteq DiskKeys
    /\ put_job \in [DiskKeys -> PutStages] /\ IsFiniteSet(Saving)
    /\ disk_files \in [DiskKeys -> {"none", "partial", "whole"}]
    /\ current_cache_size \in Nat

\* A key is not put again before its save has left put_tasks.
JobsAreTasks == \A k \in DiskKeys : put_job[k] # "none" => k \in put_tasks

\* A file belongs to an entry or to a save under way.
FilesOwned == \A k \in DiskKeys : disk_files[k] # "none" => k \in disk_dict \cup Saving

\* The space counted covers the entries and the saves: it is reserved before the save and
\* given back after the entry is gone, if at all.
SpaceReserved ==
    /\ Cardinality(disk_dict) + Cardinality(Saving) <= current_cache_size
    /\ current_cache_size <= MaxDisk

DiskInv == DiskTypeOK /\ JobsAreTasks /\ FilesOwned /\ SpaceReserved

\* Entries may disappear, with their files or without.
LEMMA FewerEntriesPreserve ==
    ASSUME DiskInv, disk_dict' \subseteq disk_dict,
           disk_files' \in [DiskKeys -> {"none", "partial", "whole"}],
           \A k \in DiskKeys : disk_files'[k] # "none" =>
               disk_files[k] # "none" /\ (k \in disk_dict => k \in disk_dict'),
           UNCHANGED <<put_job, current_cache_size>>,
           put_tasks \subseteq put_tasks', put_tasks' \subseteq DiskKeys
    PROVE  DiskInv'
<1>1. Saving' = Saving
  BY DEF Saving
<1>2. IsFiniteSet(disk_dict') /\ Cardinality(disk_dict') <= Cardinality(disk_dict)
  BY FS_Subset DEF DiskInv, DiskTypeOK
<1>3. /\ Cardinality(disk_dict) \in Nat /\ Cardinality(disk_dict') \in Nat
      /\ Cardinality(Saving) \in Nat
  BY <1>2, FS_CardinalityType DEF DiskInv, DiskTypeOK
<1>4. DiskTypeOK' /\ JobsAreTasks'
  BY <1>1, <1>2 DEF DiskInv, DiskTypeOK, JobsAreTasks
<1>5. FilesOwned'
  BY <1>1 DEF DiskInv, FilesOwned
<1>6. SpaceReserved'
  BY <1>1, <1>2, <1>3, DiskAssumption DEF DiskInv, DiskTypeOK, SpaceReserved
<1>7. QED BY <1>4, <1>5, <1>6 DEF DiskInv

LEMMA PutFitsPreserves ==
    ASSUME DiskInv, NEW k \in DiskKeys, PutFits(k)
    PROVE  DiskInv'
<1>1. put_job[k] = "none" /\ k \notin Saving
  BY DEF DiskInv, DiskTypeOK, JobsAreTasks, PutFits, Saving
<1>2. put_job' = [put_job EXCEPT ![k] = "queued"] /\ Saving' = Saving \cup {k}
  BY DEF DiskInv, DiskTypeOK, PutFits, Queue, Saving
<1>3. IsFiniteSet(Saving') /\ Cardinality(Saving') = Cardinality(Saving) + 1
  BY <1>1, <1>2, FS_AddElement DEF DiskInv, DiskTypeOK
<1>4. DiskTypeOK' /\ JobsAreTasks'
  BY <1>2, <1>3 DEF DiskInv, DiskTypeOK, JobsAreTasks, PutFits, Queue, PutStages
<1>5. FilesOwned'
  BY <1>2 DEF DiskInv, FilesOwned, PutFits
<1>6. SpaceReserved'
  BY <1>3, DiskAssumption, FS_CardinalityType DEF DiskInv, DiskTypeOK, SpaceReserved, PutFits
<1>7. QED BY <1>4, <1>5, <1>6 DEF DiskInv

\* The victim gives its space to the chunk that is put.
LEMMA PutEvictsPreserves ==
    ASSUME DiskInv, NEW k \in DiskKeys, NEW victim \in DiskKeys, PutEvicts(k, victim)
    PROVE  DiskInv'
<1>1. put_job[k] = "none" /\ k \notin Saving /\ victim \in disk_dict
  BY DEF DiskInv, DiskTypeOK, JobsAreTasks, PutEvicts, Saving, Evictable
<1>2. put_job' = [put_job EXCEPT ![k] = "queued"] /\ Saving' = Saving \cup {k}
  BY DEF DiskInv, DiskTypeOK, PutEvicts, Queue, Saving
<1>3. IsFiniteSet(Saving') /\ Cardinality(Saving') = Cardinality(Saving) + 1
  BY <1>1, <1>2, FS_AddElement DEF DiskInv, DiskTypeOK
<1>4. disk_dict' = disk_dict \ {victim}
  BY DEF PutEvicts, Drop
<1>5. IsFiniteSet(disk_dict') /\ Cardinality(disk_dict') = Cardinality(disk_dict) - 1
  BY <1>1, <1>4, FS_RemoveElement DEF DiskInv, DiskTypeOK
<1>6. DiskTypeOK' /\ JobsAreTasks'
  BY <1>2, <1>3, <1>4, <1>5 DEF DiskInv, DiskTypeOK, JobsAreTasks, PutEvicts, Queue, Drop, PutStages
<1>7. FilesOwned'
  BY <1>2, <1>4 DEF DiskInv, DiskTypeOK, FilesOwned, PutEvicts, Drop
<1>8. SpaceReserved'
  BY <1>3, <1>5, DiskAssumption, FS_CardinalityType DEF DiskInv, DiskTypeOK, SpaceReserved, PutEvicts
<1>9. QED BY <1>6, <1>7, <1>8 DEF DiskInv

\* The victim's entry and its space are gone before os.remove raises.
LEMMA PutRaisesPreserves ==
    ASSUME DiskInv, NEW k \in DiskKeys, NEW victim \in DiskKeys, PutRaises(k, victim)
    PROVE  DiskInv'
<1>1. victim \in disk_dict /\ Saving' = Saving /\ disk_dict' = disk_dict \ {victim}
  BY DEF PutRaises, Evictable, Drop, Saving
<1>2. IsFiniteSet(disk_dict') /\ Cardinality(disk_dict') = Cardinality(disk_dict) - 1
  BY <1>1, FS_RemoveElement DEF DiskInv, DiskTypeOK
<1>3. /\ Cardinality(disk_dict) \in Nat /\ Cardinality(disk_dict') \in Nat
      /\ Cardinality(Saving) \in Nat
  BY <1>2, FS_CardinalityType DEF DiskInv, DiskTypeOK
<1>4. current_cache_size' \in Nat /\ SpaceReserved'
  BY <1>1, <1>2, <1>3, DiskAssumption DEF DiskInv, DiskTypeOK, SpaceReserved, PutRaises
<1>5. DiskTypeOK' /\ JobsAreTasks'
  BY <1>1, <1>2, <1>4 DEF DiskInv, DiskTypeOK, JobsAreTasks, PutRaises, Drop
<1>6. FilesOwned'
  BY <1>1 DEF DiskInv, DiskTypeOK, FilesOwned, PutRaises, Drop
<1>7. QED BY <1>4, <1>5, <1>6 DEF DiskInv

\* A save that opens or writes its file keeps its place among the saves.
LEMMA SavePreserves ==
    ASSUME DiskInv, NEW k \in DiskKeys, SaveOpen(k) \/ SaveWrite(k)
    PROVE  DiskInv'
<1>1. k \in Saving /\ Saving' = Saving /\ put_job[k] # "none"
  BY DEF DiskInv, DiskTypeOK, SaveOpen, SaveWrite, Saving
<1>2. DiskTypeOK'
  BY <1>1 DEF DiskInv, DiskTypeOK, SaveOpen, SaveWrite, PutStages
<1>3. JobsAreTasks'
  BY <1>1 DEF DiskInv, DiskTypeOK, JobsAreTasks, SaveOpen, SaveWrite
<1>4. FilesOwned'
  BY <1>1 DEF DiskInv, DiskTypeOK, FilesOwned, SaveOpen, SaveWrite
<1>5. SpaceReserved'
  BY <1>1 DEF DiskInv, SpaceReserved, SaveOpen, SaveWrite
<1>6. QED BY <1>2, <1>3, <1>4, <1>5 DEF DiskInv

\* The space of the save becomes the space of the entry; an entry that is already there, of
\* an earlier put, keeps the space of both counted.
LEMMA InsertKeyPreserves ==
    ASSUME DiskInv, NEW k \in DiskKeys, insert_key(k)
    PROVE  DiskInv'
<1>1. k \in Saving /\ Saving' = Saving \ {k} /\ disk_dict' = disk_dict \cup {k}
  BY DEF DiskInv, DiskTypeOK, insert_key, Saving
<1>2. IsFiniteSet(Saving') /\ Cardinality(Saving') = Cardinality(Saving) - 1
  BY <1>1, FS_RemoveElement DEF DiskInv, DiskTypeOK
<1>3. IsFiniteSet(disk_dict') /\ Cardinality(disk_dict') <= Cardinality(disk_dict) + 1
  <2>1. IsFiniteSet(disk_dict) /\ Cardinality(disk_dict) \in Nat
    BY FS_CardinalityType DEF DiskInv, DiskTypeOK
  <2>2. /\ IsFiniteSet(disk_dict \cup {k})
        /\ \/ Cardinality(disk_dict \cup {k}) = Cardinality(disk_dict)
           \/ Cardinality(disk_dict \cup {k}) = Cardinality(disk_dict) + 1
    BY <2>1, FS_AddElement
  <2>3. QED BY <1>1, <2>1, <2>2
<1>4. DiskTypeOK' /\ JobsAreTasks'
  BY <1>1, <1>2, <1>3 DEF DiskInv, DiskTypeOK, JobsAreTasks, insert_key, PutStages
<1>5. FilesOwned'
  BY <1>1 DEF DiskInv, FilesOwned, insert_key
<1>6. SpaceReserved'
  BY <1>2, <1>3, DiskAssumption, FS_CardinalityType DEF DiskInv, DiskTypeOK, SpaceReserved, insert_key
<1>7. QED BY <1>4, <1>5, <1>6 DEF DiskInv

LEMMA RemovePutTaskPreserves ==
    ASSUME DiskInv, NEW k \in DiskKeys, remove_put_task(k)
    PROVE  DiskInv'
<1>1. Saving' = Saving
  BY DEF DiskInv, DiskTypeOK, remove_put_task, Saving
<1>2. DiskTypeOK' /\ JobsAreTasks'
  BY <1>1 DEF DiskInv, DiskTypeOK, JobsAreTasks, remove_put_task, PutStages
<1>3. FilesOwned' /\ SpaceReserved'
  BY <1>1 DEF DiskInv, FilesOwned, SpaceReserved, remove_put_task
<1>4. QED BY <1>2, <1>3 DEF DiskInv

LEMMA DiskNextPreserves == DiskInv /\ [DiskNext]_disk_vars => DiskInv'
<1> SUFFICES ASSUME DiskInv, [DiskNext]_disk_vars PROVE DiskInv'
  OBVIOUS
<1>1. ASSUME NEW k \in DiskKeys,
             \/ PutFits(k) \/ SaveOpen(k) \/ SaveWrite(k) \/ insert_key(k) \/ remove_put_task(k)
      PROVE  DiskInv'
  BY <1>1, PutFitsPreserves, SavePreserves, InsertKeyPreserves, RemovePutTaskPreserves
<1>2. ASSUME NEW k \in DiskKeys, NEW victim \in DiskKeys, PutEvicts(k, victim) \/ PutRaises(k, victim)
      PROVE  DiskInv'
  BY <1>2, PutEvictsPreserves, PutRaisesPreserves
<1>3. ASSUME NEW k \in DiskKeys, disk_remove(k)
      PROVE  DiskInv'
  <2>1. /\ disk_files' \in [DiskKeys -> {"none", "partial", "whole"}]
        /\ disk_dict' = disk_dict \ {k}
        /\ \A j \in DiskKeys : disk_files'[j] # "none" => j # k /\ disk_files[j] # "none"
    BY <1>3 DEF DiskInv, DiskTypeOK, disk_remove, Drop
  <2>2. UNCHANGED <<put_job, current_cache_size, put_tasks>>
    BY <1>3 DEF disk_remove
  <2>3. put_tasks \subseteq DiskKeys
    BY DEF DiskInv, DiskTypeOK
  <2>4. QED BY <2>1, <2>2, <2>3, FewerEntriesPreserve
<1>4. ASSUME disk_dict' \subseteq disk_dict,
             \A k \in disk_dict \ disk_dict' : disk_files[k] = "none",
             UNCHANGED <<disk_files, put_job, current_cache_size>>,
             put_tasks \subseteq put_tasks', put_tasks' \subseteq DiskKeys
      PROVE  DiskInv'
  BY <1>4, FewerEntriesPreserve DEF DiskInv, DiskTypeOK
<1>5. put_tasks \subseteq DiskKeys
  BY DEF DiskInv, DiskTypeOK
<1>6. ASSUME NEW k \in DiskKeys,
             PutStarved(k) \/ disk_pin(k) \/ disk_unpin(k) \/ get_blocking(k)
      PROVE  DiskInv'
  BY <1>4, <1>5, <1>6 DEF PutStarved, disk_pin, disk_unpin, get_blocking
<1>7. ASSUME NEW k \in DiskKeys, LoadKey(k)
      PROVE  DiskInv'
  BY <1>4, <1>5, <1>7 DEF LoadKey, read_file
<1>8. ASSUME \/ \E K \in SUBSET DiskKeys : batched_async_contains(K)
             \/ batched_get_non_blocking \/ LoadStart \/ UNCHANGED disk_vars
      PROVE  DiskInv'
  BY <1>4, <1>5, <1>8 DEF batched_async_contains, batched_get_non_blocking, LoadStart, disk_vars
<1>9. CASE load_bytes_from_disk
  BY <1>4, <1>5, <1>9 DEF load_bytes_from_disk, read_file
<1>10. QED BY <1>1, <1>2, <1>3, <1>6, <1>7, <1>8, <1>9 DEF DiskNext

\* Whatever is evicted, removed, lost or stored again while saves run, the files and the
\* space promised to saves stay within the configured size.
THEOREM DiskStaysBounded == DiskSpec => []DiskBounded
<1>1. DiskInit => DiskInv
  <2> SUFFICES ASSUME DiskInit PROVE DiskInv
    OBVIOUS
  <2>1. Saving = {} /\ disk_dict = {} /\ current_cache_size = 0
    BY DEF DiskInit, Saving
  <2>2. IsFiniteSet({}) /\ Cardinality({}) = 0
    BY FS_EmptySet
  <2>3. DiskTypeOK /\ JobsAreTasks /\ FilesOwned
    BY <2>1, <2>2 DEF DiskInit, DiskTypeOK, JobsAreTasks, FilesOwned, PutStages
  <2>4. SpaceReserved
    BY <2>1, <2>2, DiskAssumption DEF SpaceReserved
  <2>5. QED BY <2>3, <2>4 DEF DiskInv
<1>2. DiskInv => DiskBounded
  <2> SUFFICES ASSUME DiskInv PROVE DiskBounded
    OBVIOUS
  <2> DEFINE taken == {k \in DiskKeys : disk_files[k] # "none" \/ put_job[k] = "queued"}
  <2>1. taken \subseteq disk_dict \cup Saving
    BY DEF DiskInv, FilesOwned, Saving
  <2>2. /\ IsFiniteSet(disk_dict) /\ IsFiniteSet(Saving)
        /\ Cardinality(disk_dict) \in Nat /\ Cardinality(Saving) \in Nat
    BY FS_CardinalityType DEF DiskInv, DiskTypeOK
  <2>3. /\ IsFiniteSet(disk_dict \cup Saving)
        /\ Cardinality(disk_dict \cup Saving)
             = Cardinality(disk_dict) + Cardinality(Saving) - Cardinality(disk_dict \cap Saving)
    BY <2>2, FS_Union
  <2>4. Cardinality(disk_dict \cap Saving) \in Nat
    BY <2>2, FS_Subset, FS_CardinalityType, disk_dict \cap Saving \subseteq disk_dict
  <2>5. /\ Cardinality(taken) \in Nat
        /\ Cardinality(taken) <= Cardinality(disk_dict \cup Saving)
    BY <2>1, <2>3, FS_Subset, FS_CardinalityType
  <2>6. Cardinality(taken) <= MaxDisk
    <3> HIDE DEF taken
    <3>1. QED BY <2>2, <2>3, <2>4, <2>5, DiskAssumption DEF DiskInv, DiskTypeOK, SpaceReserved
  <2>7. QED BY <2>6 DEF DiskBounded
<1>3. QED BY <1>1, <1>2, DiskNextPreserves, PTL DEF DiskSpec

----------------------------------------------------------------------------
\* RustRawBlockBackend.

\* Who holds a slot: the keys of an index, the writes under way, the places of a free list.
IndexAt(index, s) == {k \in BlockKeys : index[k] = s}
WriteAt(writes, s) == {k \in BlockKeys : writes[k].slot = s}
FreeAt(slots, s) == {i \in 1..Len(slots) : slots[i] = s}

Single(S) == \E x : S = {x}

Nobody(I, W, F) == I = {} /\ W = {} /\ F = {}
OneHolder(I, W, F) ==
    \/ Single(I) /\ W = {} /\ F = {}
    \/ I = {} /\ Single(W) /\ F = {}
    \/ I = {} /\ W = {} /\ Single(F)

BlockTypeOK ==
    /\ next_slot \in Nat
    /\ block_index \in [BlockKeys -> 0..next_slot]
    /\ inflight \in [BlockKeys -> [slot : 0..next_slot, canceled : BOOLEAN,
                                   stage : {"none", "queued", "writing", "written"}]]
    /\ free_slots \in Seq(1..next_slot)
    /\ lost_slots \subseteq 1..next_slot

\* A write has a slot for as long as it lasts, and its key enters the index at its end only.
WritesHaveSlots ==
    \A k \in BlockKeys : /\ inflight[k].stage = "none" <=> inflight[k].slot = 0
                         /\ inflight[k].slot # 0 => block_index[k] = 0

SlotsHeldOnce ==
    \A s \in 1..next_slot :
        /\ s \in lost_slots => Nobody(IndexAt(block_index, s), WriteAt(inflight, s), FreeAt(free_slots, s))
        /\ s \notin lost_slots => OneHolder(IndexAt(block_index, s), WriteAt(inflight, s), FreeAt(free_slots, s))

\* A manifest accounts for the slots as the index it was taken from did, except that the
\* writes then under way are forgotten with the process: their slots are lost by a restart.
SnapshotAccounted(m) ==
    /\ m.next \in Nat
    /\ m.index \in [BlockKeys -> 0..m.next]
    /\ m.free \in Seq(1..m.next)
    /\ lost_slots \cup m.writing \subseteq 1..m.next
    /\ \A s \in 1..m.next :
           /\ s \in lost_slots \cup m.writing => Nobody(IndexAt(m.index, s), {}, FreeAt(m.free, s))
           /\ s \notin lost_slots \cup m.writing => OneHolder(IndexAt(m.index, s), {}, FreeAt(m.free, s))

SnapshotsAccounted ==
    /\ saver.taken => SnapshotAccounted(saver)
    /\ manifest.taken => SnapshotAccounted(manifest)

BlockInv == BlockTypeOK /\ WritesHaveSlots /\ SlotsHeldOnce /\ SnapshotsAccounted

\* The free list is a stack: what is given back is the last place, what is taken leaves it.
LEMMA FreeListPlaces ==
    ASSUME NEW n \in Nat, NEW slots \in Seq(1..n)
    PROVE  /\ \A t \in 1..n :
                  /\ Append(slots, t) \in Seq(1..n)
                  /\ FreeAt(Append(slots, t), t) = FreeAt(slots, t) \cup {Len(slots) + 1}
                  /\ \A s : s # t => FreeAt(Append(slots, t), s) = FreeAt(slots, s)
           /\ slots # <<>> =>
                  /\ Last(slots) \in 1..n
                  /\ Front(slots) \in Seq(1..n)
                  /\ Len(slots) \in FreeAt(slots, Last(slots))
                  /\ FreeAt(Front(slots), Last(slots)) = FreeAt(slots, Last(slots)) \ {Len(slots)}
                  /\ \A s : s # Last(slots) => FreeAt(Front(slots), s) = FreeAt(slots, s)
<1>1. ASSUME NEW t \in 1..n
      PROVE  /\ Append(slots, t) \in Seq(1..n)
             /\ FreeAt(Append(slots, t), t) = FreeAt(slots, t) \cup {Len(slots) + 1}
             /\ \A s : s # t => FreeAt(Append(slots, t), s) = FreeAt(slots, s)
  BY DEF FreeAt
<1>2. ASSUME slots # <<>>
      PROVE  /\ Last(slots) \in 1..n
             /\ Front(slots) \in Seq(1..n)
             /\ Len(slots) \in FreeAt(slots, Last(slots))
             /\ FreeAt(Front(slots), Last(slots)) = FreeAt(slots, Last(slots)) \ {Len(slots)}
             /\ \A s : s # Last(slots) => FreeAt(Front(slots), s) = FreeAt(slots, s)
  <2>1. Len(slots) \in Nat \ {0}
    BY <1>2
  <2>2. /\ Front(slots) \in Seq(1..n) /\ Len(Front(slots)) = Len(slots) - 1
        /\ \A i \in 1..(Len(slots) - 1) : Front(slots)[i] = slots[i]
    <3>1. Front(slots) = SubSeq(slots, 1, Len(slots) - 1)
      BY DEF Front
    <3> DEFINE m == Len(slots) - 1
    <3>2. \A i \in 1..m : slots[i] \in 1..n
      BY <2>1
    <3>3. m \in Int /\ 1 \in Int /\ m >= 0
      BY <2>1
    <3> HIDE DEF m
    <3>4. /\ SubSeq(slots, 1, m) \in Seq(1..n)
          /\ Len(SubSeq(slots, 1, m)) = IF 1 <= m THEN m - 1 + 1 ELSE 0
          /\ \A i \in 1..(m - 1 + 1) : SubSeq(slots, 1, m)[i] = slots[1 + i - 1]
      BY <3>2, <3>3, SubSeqProperties
    <3>5. Len(SubSeq(slots, 1, m)) = m /\ \A i \in 1..m : SubSeq(slots, 1, m)[i] = slots[i]
      BY <3>3, <3>4
    <3>6. QED BY <3>1, <3>4, <3>5 DEF m
  <2>3. Last(slots) = slots[Len(slots)] /\ slots[Len(slots)] \in 1..n
    BY <2>1 DEF Last
  <2>4. Len(slots) \in FreeAt(slots, Last(slots))
    BY <2>1, <2>3 DEF FreeAt
  <2> HIDE DEF Front, Last
  <2>5. FreeAt(Front(slots), Last(slots)) = FreeAt(slots, Last(slots)) \ {Len(slots)}
    <3>1. 1..Len(Front(slots)) = (1..Len(slots)) \ {Len(slots)}
      BY <2>1, <2>2
    <3>2. QED BY <2>2, <3>1 DEF FreeAt
  <2>6. ASSUME NEW s, s # Last(slots)
        PROVE  FreeAt(Front(slots), s) = FreeAt(slots, s)
    <3>1. 1..Len(Front(slots)) = (1..Len(slots)) \ {Len(slots)}
      BY <2>1, <2>2
    <3>2. QED BY <2>2, <2>3, <2>6, <3>1 DEF FreeAt
  <2>7. QED BY <2>2, <2>3, <2>4, <2>5, <2>6
<1>3. QED BY <1>1, <1>2

\* One holder is one owner.
LEMMA HoldersAreOwners ==
    ASSUME BlockInv
    PROVE  SlotsAccounted
<1> SUFFICES ASSUME NEW s \in 1..next_slot
             PROVE  Cardinality(Owners(s)) = IF s \in lost_slots THEN 0 ELSE 1
  BY DEF SlotsAccounted
<1>1. Owners(s) = {<<"index", k>> : k \in IndexAt(block_index, s)}
                    \cup {<<"write", k>> : k \in WriteAt(inflight, s)}
                    \cup {<<"free", i>> : i \in FreeAt(free_slots, s)}
  <2>1. DOMAIN free_slots = 1..Len(free_slots)
    BY DEF BlockInv, BlockTypeOK
  <2>2. QED BY <2>1 DEF Owners, IndexAt, WriteAt, FreeAt
<1>2. CASE s \in lost_slots
  <2>1. Owners(s) = {}
    BY <1>1, <1>2 DEF BlockInv, SlotsHeldOnce, Nobody
  <2>2. QED BY <1>2, <2>1, FS_EmptySet
<1>3. CASE s \notin lost_slots
  <2>1. \E x : Owners(s) = {x}
    <3>1. OneHolder(IndexAt(block_index, s), WriteAt(inflight, s), FreeAt(free_slots, s))
      BY <1>3 DEF BlockInv, SlotsHeldOnce
    <3>2. ASSUME NEW x, IndexAt(block_index, s) = {x}, WriteAt(inflight, s) = {}, FreeAt(free_slots, s) = {}
          PROVE  Owners(s) = {<<"index", x>>}
      BY <1>1, <3>2
    <3>3. ASSUME NEW x, IndexAt(block_index, s) = {}, WriteAt(inflight, s) = {x}, FreeAt(free_slots, s) = {}
          PROVE  Owners(s) = {<<"write", x>>}
      BY <1>1, <3>3
    <3>4. ASSUME NEW x, IndexAt(block_index, s) = {}, WriteAt(inflight, s) = {}, FreeAt(free_slots, s) = {x}
          PROVE  Owners(s) = {<<"free", x>>}
      BY <1>1, <3>4
    <3>5. QED BY <3>1, <3>2, <3>3, <3>4, Zenon DEF OneHolder, Single
  <2>2. QED BY <1>3, <2>1, FS_Singleton
<1>4. QED BY <1>2, <1>3

\* One key of the index, or one write, gets another slot.
LEMMA IndexMoves ==
    ASSUME NEW k \in BlockKeys,
           \A j \in BlockKeys \ {k} : block_index'[j] = block_index[j]
    PROVE  /\ \A s : s # block_index'[k] => IndexAt(block_index', s) = IndexAt(block_index, s) \ {k}
           /\ IndexAt(block_index', block_index'[k]) = IndexAt(block_index, block_index'[k]) \cup {k}
  BY DEF IndexAt

LEMMA WriteMoves ==
    ASSUME NEW k \in BlockKeys,
           \A j \in BlockKeys \ {k} : inflight'[j].slot = inflight[j].slot
    PROVE  /\ \A s : s # inflight'[k].slot => WriteAt(inflight', s) = WriteAt(inflight, s) \ {k}
           /\ WriteAt(inflight', inflight'[k].slot) = WriteAt(inflight, inflight'[k].slot) \cup {k}
  BY DEF WriteAt

\* Handing one slot from its holder to another leaves the others alone.
LEMMA HandOver ==
    ASSUME BlockInv, BlockTypeOK', WritesHaveSlots',
           UNCHANGED <<next_slot, saver, manifest, lost_slots>>,
           NEW t \in 1..next_slot, t \notin lost_slots,
           \A s \in 1..next_slot : s # t =>
               /\ IndexAt(block_index', s) = IndexAt(block_index, s)
               /\ WriteAt(inflight', s) = WriteAt(inflight, s)
               /\ FreeAt(free_slots', s) = FreeAt(free_slots, s),
           OneHolder(IndexAt(block_index', t), WriteAt(inflight', t), FreeAt(free_slots', t))
    PROVE  BlockInv'
<1>1. SlotsHeldOnce'
  <2>1. ASSUME NEW s \in 1..next_slot
        PROVE  /\ s \in lost_slots =>
                     Nobody(IndexAt(block_index', s), WriteAt(inflight', s), FreeAt(free_slots', s))
               /\ s \notin lost_slots =>
                     OneHolder(IndexAt(block_index', s), WriteAt(inflight', s), FreeAt(free_slots', s))
    <3>1. CASE s = t
      BY <3>1
    <3>2. CASE s # t
      BY <3>2 DEF BlockInv, SlotsHeldOnce
    <3>3. QED BY <3>1, <3>2
  <2>2. QED BY <2>1 DEF SlotsHeldOnce, Nobody, OneHolder
<1>2. SnapshotsAccounted'
  BY DEF BlockInv, SnapshotsAccounted, SnapshotAccounted
<1>3. QED BY <1>1, <1>2 DEF BlockInv

\* Whoever holds a slot is its only holder.
LEMMA OnlyHolder ==
    ASSUME BlockInv, NEW t \in 1..next_slot
    PROVE  /\ \A k \in IndexAt(block_index, t) :
                  /\ t \notin lost_slots /\ IndexAt(block_index, t) = {k}
                  /\ WriteAt(inflight, t) = {} /\ FreeAt(free_slots, t) = {}
           /\ \A k \in WriteAt(inflight, t) :
                  /\ t \notin lost_slots /\ IndexAt(block_index, t) = {}
                  /\ WriteAt(inflight, t) = {k} /\ FreeAt(free_slots, t) = {}
           /\ \A i \in FreeAt(free_slots, t) :
                  /\ t \notin lost_slots /\ IndexAt(block_index, t) = {}
                  /\ WriteAt(inflight, t) = {} /\ FreeAt(free_slots, t) = {i}
<1> DEFINE I == IndexAt(block_index, t)
           W == WriteAt(inflight, t)
           F == FreeAt(free_slots, t)
<1>1. (t \in lost_slots => Nobody(I, W, F)) /\ (t \notin lost_slots => OneHolder(I, W, F))
  BY DEF BlockInv, SlotsHeldOnce
<1> HIDE DEF I, W, F
<1>2. /\ \A k \in I : t \notin lost_slots /\ I = {k} /\ W = {} /\ F = {}
      /\ \A k \in W : t \notin lost_slots /\ I = {} /\ W = {k} /\ F = {}
      /\ \A i \in F : t \notin lost_slots /\ I = {} /\ W = {} /\ F = {i}
  BY <1>1 DEF Nobody, OneHolder, Single
<1>3. QED BY <1>2 DEF I, W, F

LEMMA PutReusesPreserves ==
    ASSUME BlockInv, NEW k \in BlockKeys, put_reuses(k)
    PROVE  BlockInv'
<1>0. PICK t : t = Last(free_slots)
  OBVIOUS
<1>1. next_slot \in Nat /\ free_slots \in Seq(1..next_slot) /\ free_slots # <<>>
  BY DEF BlockInv, BlockTypeOK, put_reuses
<1>2. /\ t \in 1..next_slot /\ free_slots' \in Seq(1..next_slot)
      /\ Len(free_slots) \in FreeAt(free_slots, t)
      /\ FreeAt(free_slots', t) = FreeAt(free_slots, t) \ {Len(free_slots)}
      /\ \A s : s # t => FreeAt(free_slots', s) = FreeAt(free_slots, s)
  BY <1>0, <1>1, FreeListPlaces DEF put_reuses
<1>3. /\ inflight[k].slot = 0 /\ block_index[k] = 0
      /\ inflight' = [inflight EXCEPT ![k] = [slot |-> t, canceled |-> FALSE, stage |-> "queued"]]
      /\ UNCHANGED <<block_index, next_slot, saver, manifest, lost_slots>>
  BY <1>0 DEF BlockInv, BlockTypeOK, WritesHaveSlots, put_reuses, Wanted, Indexed, StartWrite
<1>4. BlockTypeOK'
  BY <1>2, <1>3 DEF BlockInv, BlockTypeOK
<1>5. WritesHaveSlots'
  BY <1>2, <1>3 DEF BlockInv, BlockTypeOK, WritesHaveSlots
<1>6. /\ inflight'[k].slot = t
      /\ \A j \in BlockKeys \ {k} : inflight'[j].slot = inflight[j].slot
  BY <1>3 DEF BlockInv, BlockTypeOK
<1>7. /\ WriteAt(inflight', t) = WriteAt(inflight, t) \cup {k}
      /\ \A s \in 1..next_slot : s # t => WriteAt(inflight', s) = WriteAt(inflight, s)
  <2>1. \A s \in 1..next_slot : k \notin WriteAt(inflight, s)
    BY <1>3 DEF WriteAt
  <2>2. QED BY <1>6, <2>1, WriteMoves
<1>8. /\ t \notin lost_slots /\ IndexAt(block_index, t) = {}
      /\ WriteAt(inflight, t) = {} /\ FreeAt(free_slots, t) = {Len(free_slots)}
  BY <1>2, OnlyHolder
<1>9. OneHolder(IndexAt(block_index', t), WriteAt(inflight', t), FreeAt(free_slots', t))
  <2>1. IndexAt(block_index', t) = {} /\ WriteAt(inflight', t) = {k} /\ FreeAt(free_slots', t) = {}
    BY <1>2, <1>3, <1>7, <1>8
  <2>2. QED BY <2>1 DEF OneHolder, Single
<1>10. \A s \in 1..next_slot : s # t =>
           /\ IndexAt(block_index', s) = IndexAt(block_index, s)
           /\ WriteAt(inflight', s) = WriteAt(inflight, s)
           /\ FreeAt(free_slots', s) = FreeAt(free_slots, s)
  BY <1>2, <1>3, <1>7
<1>11. QED BY <1>2, <1>3, <1>4, <1>5, <1>8, <1>9, <1>10, HandOver

\* The first slot never handed out has no holder yet.
LEMMA PutExtendsPreserves ==
    ASSUME BlockInv, NEW k \in BlockKeys, put_extends(k)
    PROVE  BlockInv'
<1>0. PICK t : t = next_slot + 1
  OBVIOUS
<1>1. /\ next_slot \in Nat /\ t \in Nat \ {0} /\ next_slot' = t /\ t \notin 0..next_slot
      /\ inflight[k].slot = 0 /\ block_index[k] = 0
      /\ inflight' = [inflight EXCEPT ![k] = [slot |-> t, canceled |-> FALSE, stage |-> "queued"]]
      /\ UNCHANGED <<block_index, free_slots, saver, manifest, lost_slots>>
  BY <1>0 DEF BlockInv, BlockTypeOK, WritesHaveSlots, put_extends, Wanted, Indexed, StartWrite
<1>2. 0..next_slot' = (0..next_slot) \cup {t} /\ 1..next_slot' = (1..next_slot) \cup {t}
  BY <1>0, <1>1
<1>3. BlockTypeOK'
  <2>1. free_slots' \in Seq(1..next_slot')
    <3>1. 1..next_slot \subseteq 1..next_slot'
      BY <1>2
    <3>2. QED BY <1>1, <3>1, SeqMonotonic DEF BlockInv, BlockTypeOK
  <2>2. QED BY <1>1, <1>2, <2>1 DEF BlockInv, BlockTypeOK
<1>4. WritesHaveSlots'
  BY <1>1 DEF BlockInv, BlockTypeOK, WritesHaveSlots
<1>5. /\ inflight'[k].slot = t
      /\ \A j \in BlockKeys \ {k} : inflight'[j].slot = inflight[j].slot
  BY <1>1 DEF BlockInv, BlockTypeOK
<1>6. IndexAt(block_index, t) = {} /\ WriteAt(inflight, t) = {} /\ FreeAt(free_slots, t) = {}
  <2>1. \A i \in 1..Len(free_slots) : free_slots[i] # t
    BY <1>1, <1>2 DEF BlockInv, BlockTypeOK
  <2>2. QED BY <1>1, <2>1 DEF BlockInv, BlockTypeOK, IndexAt, WriteAt, FreeAt
<1>7. /\ WriteAt(inflight', t) = {k}
      /\ \A s \in 1..next_slot : WriteAt(inflight', s) = WriteAt(inflight, s)
  <2>1. \A s \in 1..next_slot : k \notin WriteAt(inflight, s) /\ s # t
    BY <1>1 DEF WriteAt
  <2>2. QED BY <1>5, <1>6, <2>1, WriteMoves
<1>8. OneHolder(IndexAt(block_index', t), WriteAt(inflight', t), FreeAt(free_slots', t))
  <2>1. IndexAt(block_index', t) = {} /\ WriteAt(inflight', t) = {k} /\ FreeAt(free_slots', t) = {}
    BY <1>1, <1>6, <1>7
  <2>2. QED BY <2>1 DEF OneHolder, Single
<1>9. SlotsHeldOnce'
  <2>1. ASSUME NEW s \in 1..next_slot'
        PROVE  /\ s \in lost_slots =>
                     Nobody(IndexAt(block_index', s), WriteAt(inflight', s), FreeAt(free_slots', s))
               /\ s \notin lost_slots =>
                     OneHolder(IndexAt(block_index', s), WriteAt(inflight', s), FreeAt(free_slots', s))
    <3>1. CASE s = t
      <4>1. t \notin lost_slots
        BY <1>1 DEF BlockInv, BlockTypeOK
      <4>2. QED BY <1>8, <3>1, <4>1
    <3>2. CASE s \in 1..next_slot
      BY <1>1, <1>7, <3>2 DEF BlockInv, SlotsHeldOnce
    <3>3. QED BY <1>2, <3>1, <3>2
  <2>2. QED BY <1>1, <2>1 DEF SlotsHeldOnce
<1>10. SnapshotsAccounted'
  BY <1>1 DEF BlockInv, SnapshotsAccounted, SnapshotAccounted
<1>11. QED BY <1>3, <1>4, <1>9, <1>10 DEF BlockInv

\* The victim leaves the index as its slot goes to the write.
LEMMA PutEvictsBlockPreserves ==
    ASSUME BlockInv, NEW k \in BlockKeys, put_evicts(k)
    PROVE  BlockInv'
<1>1. PICK i \in Victims :
          /\ StartWrite(k, block_index[block_lru[i]])
          /\ block_index' = [block_index EXCEPT ![block_lru[i]] = 0]
  BY DEF put_evicts
<1>2. PICK v \in BlockKeys : v = block_lru[i] /\ block_index[v] # 0 /\ inflight[v].slot = 0
  BY DEF Victims, Indexed, InFlight
<1>3. PICK t : t = block_index[v]
  OBVIOUS
<1>4. /\ next_slot \in Nat /\ t \in 1..next_slot
      /\ inflight[k].slot = 0 /\ block_index[k] = 0 /\ v # k
      /\ inflight' = [inflight EXCEPT ![k] = [slot |-> t, canceled |-> FALSE, stage |-> "queued"]]
      /\ block_index' = [block_index EXCEPT ![v] = 0]
      /\ UNCHANGED <<next_slot, free_slots, saver, manifest, lost_slots>>
  <2>1. t \in 0..next_slot /\ t # 0 /\ next_slot \in Nat
    BY <1>2, <1>3 DEF BlockInv, BlockTypeOK
  <2>2. inflight[k].slot = 0 /\ block_index[k] = 0
    BY DEF BlockInv, WritesHaveSlots, put_evicts, Wanted, Indexed
  <2>3. /\ inflight' = [inflight EXCEPT ![k] = [slot |-> t, canceled |-> FALSE, stage |-> "queued"]]
        /\ block_index' = [block_index EXCEPT ![v] = 0]
    BY <1>1, <1>2, <1>3 DEF StartWrite
  <2>4. UNCHANGED <<next_slot, free_slots, saver, manifest, lost_slots>>
    BY DEF put_evicts
  <2>5. t \in 1..next_slot /\ v # k
    BY <1>2, <2>1, <2>2
  <2>6. QED BY <2>1, <2>2, <2>3, <2>4, <2>5
<1>5. BlockTypeOK'
  BY <1>4 DEF BlockInv, BlockTypeOK
<1>6. WritesHaveSlots'
  BY <1>4 DEF BlockInv, BlockTypeOK, WritesHaveSlots
<1>7. /\ inflight'[k].slot = t
      /\ \A j \in BlockKeys \ {k} : inflight'[j].slot = inflight[j].slot
      /\ block_index'[v] = 0
      /\ \A j \in BlockKeys \ {v} : block_index'[j] = block_index[j]
  BY <1>4 DEF BlockInv, BlockTypeOK
<1>8. /\ WriteAt(inflight', t) = WriteAt(inflight, t) \cup {k}
      /\ \A s \in 1..next_slot : s # t => WriteAt(inflight', s) = WriteAt(inflight, s)
  <2>1. \A s \in 1..next_slot : k \notin WriteAt(inflight, s)
    BY <1>4 DEF WriteAt
  <2>2. QED BY <1>7, <2>1, WriteMoves
<1>9. /\ IndexAt(block_index', t) = IndexAt(block_index, t) \ {v}
      /\ \A s \in 1..next_slot : s # t => IndexAt(block_index', s) = IndexAt(block_index, s)
  <2>1. \A s \in 1..next_slot : s # 0 /\ (s # t => v \notin IndexAt(block_index, s))
    BY <1>3, <1>4 DEF IndexAt
  <2>2. \A s : s # 0 => IndexAt(block_index', s) = IndexAt(block_index, s) \ {v}
    BY <1>7, IndexMoves
  <2>3. QED BY <1>4, <2>1, <2>2
<1>10. /\ t \notin lost_slots /\ IndexAt(block_index, t) = {v}
       /\ WriteAt(inflight, t) = {} /\ FreeAt(free_slots, t) = {}
  <2>1. v \in IndexAt(block_index, t)
    BY <1>3 DEF IndexAt
  <2>2. QED BY <1>4, <2>1, OnlyHolder
<1>11. OneHolder(IndexAt(block_index', t), WriteAt(inflight', t), FreeAt(free_slots', t))
  <2>1. IndexAt(block_index', t) = {} /\ WriteAt(inflight', t) = {k} /\ FreeAt(free_slots', t) = {}
    BY <1>4, <1>8, <1>9, <1>10
  <2>2. QED BY <2>1 DEF OneHolder, Single
<1>12. \A s \in 1..next_slot : s # t =>
           /\ IndexAt(block_index', s) = IndexAt(block_index, s)
           /\ WriteAt(inflight', s) = WriteAt(inflight, s)
           /\ FreeAt(free_slots', s) = FreeAt(free_slots, s)
  BY <1>4, <1>8, <1>9
<1>13. QED BY <1>4, <1>5, <1>6, <1>10, <1>11, <1>12, HandOver

\* A step that moves no slot and takes no snapshot.
LEMMA NoSlotMoves ==
    ASSUME BlockInv, BlockTypeOK', WritesHaveSlots',
           \A k \in BlockKeys : inflight'[k].slot = inflight[k].slot,
           UNCHANGED <<block_index, next_slot, free_slots, saver, manifest, lost_slots>>
    PROVE  BlockInv'
<1>1. \A s : WriteAt(inflight', s) = WriteAt(inflight, s)
  BY DEF WriteAt
<1>2. SlotsHeldOnce'
  BY <1>1 DEF BlockInv, SlotsHeldOnce
<1>3. SnapshotsAccounted'
  BY DEF BlockInv, SnapshotsAccounted, SnapshotAccounted
<1>4. QED BY <1>2, <1>3 DEF BlockInv

LEMMA WriteAdvances ==
    ASSUME BlockInv, NEW k \in BlockKeys, write_begins(k) \/ write_ends(k)
    PROVE  BlockInv'
<1>1. UNCHANGED <<block_index, next_slot, free_slots, saver, manifest, lost_slots>>
  BY DEF write_begins, write_ends
<1>2. PICK stage \in {"writing", "written"} :
          inflight[k].stage # "none" /\ inflight' = [inflight EXCEPT ![k].stage = stage]
  BY DEF write_begins, write_ends
<1>3. /\ BlockTypeOK'
      /\ \A j \in BlockKeys : inflight'[j].slot = inflight[j].slot
  BY <1>1, <1>2 DEF BlockInv, BlockTypeOK
<1>4. WritesHaveSlots'
  BY <1>1, <1>2 DEF BlockInv, BlockTypeOK, WritesHaveSlots
<1>5. QED BY <1>1, <1>3, <1>4, NoSlotMoves

\* The slot of a write that failed or was canceled goes to the end of the free list.
LEMMA WriteGivesBack ==
    ASSUME BlockInv, NEW k \in BlockKeys, inflight[k].stage # "none",
           inflight' = [inflight EXCEPT ![k] = NoWrite],
           free_slots' = Append(free_slots, inflight[k].slot),
           UNCHANGED <<block_index, next_slot, saver, manifest, lost_slots>>
    PROVE  BlockInv'
<1>0. PICK t : t = inflight[k].slot
  OBVIOUS
<1>1. next_slot \in Nat /\ t \in 1..next_slot /\ free_slots \in Seq(1..next_slot)
  BY <1>0 DEF BlockInv, BlockTypeOK, WritesHaveSlots
<1>2. /\ free_slots' \in Seq(1..next_slot)
      /\ FreeAt(free_slots', t) = FreeAt(free_slots, t) \cup {Len(free_slots) + 1}
      /\ \A s : s # t => FreeAt(free_slots', s) = FreeAt(free_slots, s)
  BY <1>0, <1>1, FreeListPlaces
<1>3. NoWrite.slot = 0 /\ NoWrite.stage = "none"
      /\ NoWrite \in [slot : 0..next_slot, canceled : BOOLEAN,
                      stage : {"none", "queued", "writing", "written"}]
  BY <1>1 DEF NoWrite
<1>4. BlockTypeOK'
  BY <1>2, <1>3 DEF BlockInv, BlockTypeOK
<1>5. WritesHaveSlots'
  BY <1>3 DEF BlockInv, BlockTypeOK, WritesHaveSlots
<1>6. /\ inflight'[k].slot = 0
      /\ \A j \in BlockKeys \ {k} : inflight'[j].slot = inflight[j].slot
  BY <1>3 DEF BlockInv, BlockTypeOK
<1>7. /\ WriteAt(inflight', t) = WriteAt(inflight, t) \ {k}
      /\ \A s \in 1..next_slot : s # t => WriteAt(inflight', s) = WriteAt(inflight, s)
  <2>1. \A s \in 1..next_slot : s # 0 /\ (s # t => k \notin WriteAt(inflight, s))
    BY <1>0, <1>1 DEF WriteAt
  <2>2. \A s : s # 0 => WriteAt(inflight', s) = WriteAt(inflight, s) \ {k}
    BY <1>6, WriteMoves
  <2>3. QED BY <1>1, <2>1, <2>2
<1>8. /\ t \notin lost_slots /\ IndexAt(block_index, t) = {}
      /\ WriteAt(inflight, t) = {k} /\ FreeAt(free_slots, t) = {}
  <2>1. k \in WriteAt(inflight, t)
    BY <1>0 DEF WriteAt
  <2>2. QED BY <1>1, <2>1, OnlyHolder
<1>9. OneHolder(IndexAt(block_index', t), WriteAt(inflight', t), FreeAt(free_slots', t))
  <2>1. /\ IndexAt(block_index', t) = {} /\ WriteAt(inflight', t) = {}
        /\ FreeAt(free_slots', t) = {Len(free_slots) + 1}
    BY <1>2, <1>7, <1>8
  <2>2. QED BY <2>1 DEF OneHolder, Single
<1>10. \A s \in 1..next_slot : s # t =>
           /\ IndexAt(block_index', s) = IndexAt(block_index, s)
           /\ WriteAt(inflight', s) = WriteAt(inflight, s)
           /\ FreeAt(free_slots', s) = FreeAt(free_slots, s)
  BY <1>2, <1>7
<1>11. QED BY <1>1, <1>4, <1>5, <1>8, <1>9, <1>10, HandOver

\* The slot of a write that is over and was not canceled goes to the index.
LEMMA WriteEntersIndex ==
    ASSUME BlockInv, NEW k \in BlockKeys, inflight[k].stage # "none",
           inflight' = [inflight EXCEPT ![k] = NoWrite],
           block_index' = [block_index EXCEPT ![k] = inflight[k].slot],
           UNCHANGED <<next_slot, free_slots, saver, manifest, lost_slots>>
    PROVE  BlockInv'
<1>0. PICK t : t = inflight[k].slot
  OBVIOUS
<1>1. next_slot \in Nat /\ t \in 1..next_slot /\ block_index[k] = 0
  BY <1>0 DEF BlockInv, BlockTypeOK, WritesHaveSlots
<1>2. NoWrite.slot = 0 /\ NoWrite.stage = "none"
      /\ NoWrite \in [slot : 0..next_slot, canceled : BOOLEAN,
                      stage : {"none", "queued", "writing", "written"}]
  BY <1>1 DEF NoWrite
<1>3. BlockTypeOK'
  BY <1>0, <1>1, <1>2 DEF BlockInv, BlockTypeOK
<1>4. WritesHaveSlots'
  BY <1>2 DEF BlockInv, BlockTypeOK, WritesHaveSlots
<1>5. /\ inflight'[k].slot = 0
      /\ \A j \in BlockKeys \ {k} : inflight'[j].slot = inflight[j].slot
      /\ block_index'[k] = t
      /\ \A j \in BlockKeys \ {k} : block_index'[j] = block_index[j]
  BY <1>0, <1>2 DEF BlockInv, BlockTypeOK
<1>6. /\ WriteAt(inflight', t) = WriteAt(inflight, t) \ {k}
      /\ \A s \in 1..next_slot : s # t => WriteAt(inflight', s) = WriteAt(inflight, s)
  <2>1. \A s \in 1..next_slot : s # 0 /\ (s # t => k \notin WriteAt(inflight, s))
    BY <1>0, <1>1 DEF WriteAt
  <2>2. \A s : s # 0 => WriteAt(inflight', s) = WriteAt(inflight, s) \ {k}
    BY <1>5, WriteMoves
  <2>3. QED BY <1>1, <2>1, <2>2, ZenonT(60)
<1>7. /\ IndexAt(block_index', t) = IndexAt(block_index, t) \cup {k}
      /\ \A s \in 1..next_slot : s # t => IndexAt(block_index', s) = IndexAt(block_index, s)
  <2>1. \A s \in 1..next_slot : k \notin IndexAt(block_index, s)
    BY <1>1 DEF IndexAt
  <2>2. IndexAt(block_index', t) = IndexAt(block_index, t) \cup {k}
    BY <1>5, IndexMoves
  <2>3. \A s : s # t => IndexAt(block_index', s) = IndexAt(block_index, s) \ {k}
    BY <1>5, IndexMoves
  <2>4. \A s \in 1..next_slot : IndexAt(block_index, s) \ {k} = IndexAt(block_index, s)
    BY <2>1
  <2>5. QED BY <2>2, <2>3, <2>4
<1>8. /\ t \notin lost_slots /\ IndexAt(block_index, t) = {}
      /\ WriteAt(inflight, t) = {k} /\ FreeAt(free_slots, t) = {}
  <2>1. k \in WriteAt(inflight, t)
    BY <1>0 DEF WriteAt
  <2>2. QED BY <1>1, <2>1, OnlyHolder
<1>9. OneHolder(IndexAt(block_index', t), WriteAt(inflight', t), FreeAt(free_slots', t))
  <2>1. IndexAt(block_index', t) = {k} /\ WriteAt(inflight', t) = {} /\ FreeAt(free_slots', t) = {}
    BY <1>6, <1>7, <1>8
  <2>2. QED BY <2>1 DEF OneHolder, Single
<1>10. \A s \in 1..next_slot : s # t =>
           /\ IndexAt(block_index', s) = IndexAt(block_index, s)
           /\ WriteAt(inflight', s) = WriteAt(inflight, s)
           /\ FreeAt(free_slots', s) = FreeAt(free_slots, s)
  BY <1>6, <1>7
<1>11. QED BY <1>1, <1>3, <1>4, <1>8, <1>9, <1>10, HandOver

\* A removed key gives its slot back at once if it was stored, and at the end of its write
\* if it is being written.
LEMMA RemoveKeyPreserves ==
    ASSUME BlockInv, NEW k \in BlockKeys, remove_key(k)
    PROVE  BlockInv'
<1>1. /\ block_index' = [block_index EXCEPT ![k] = 0]
      /\ inflight' = [inflight EXCEPT ![k].canceled = (inflight[k].slot # 0)]
      /\ UNCHANGED <<next_slot, saver, manifest, lost_slots>>
  BY DEF remove_key
<1>2. /\ inflight' \in [BlockKeys -> [slot : 0..next_slot, canceled : BOOLEAN,
                                      stage : {"none", "queued", "writing", "written"}]]
      /\ \A j \in BlockKeys : /\ inflight'[j].slot = inflight[j].slot
                              /\ inflight'[j].stage = inflight[j].stage
  BY <1>1 DEF BlockInv, BlockTypeOK
<1>3. next_slot \in Nat /\ block_index' \in [BlockKeys -> 0..next_slot]
  BY <1>1 DEF BlockInv, BlockTypeOK
<1>4. WritesHaveSlots'
  BY <1>1, <1>2 DEF BlockInv, BlockTypeOK, WritesHaveSlots
<1>5. \A s : WriteAt(inflight', s) = WriteAt(inflight, s)
  BY <1>2 DEF WriteAt
<1>6. CASE k \notin Indexed
  <2>1. block_index' = block_index /\ free_slots' = free_slots
    BY <1>1, <1>6 DEF BlockInv, BlockTypeOK, remove_key, Indexed
  <2>2. BlockTypeOK'
    BY <1>1, <1>2, <2>1 DEF BlockInv, BlockTypeOK
  <2>3. QED BY <1>1, <1>2, <1>4, <2>1, <2>2, NoSlotMoves
<1>7. CASE k \in Indexed
  <2>0. PICK t : t = block_index[k]
    OBVIOUS
  <2>1. t \in 1..next_slot /\ free_slots \in Seq(1..next_slot) /\ free_slots' = Append(free_slots, t)
    BY <1>7, <2>0 DEF BlockInv, BlockTypeOK, remove_key, Indexed
  <2>2. /\ free_slots' \in Seq(1..next_slot)
        /\ FreeAt(free_slots', t) = FreeAt(free_slots, t) \cup {Len(free_slots) + 1}
        /\ \A s : s # t => FreeAt(free_slots', s) = FreeAt(free_slots, s)
    BY <1>3, <2>1, FreeListPlaces
  <2>3. BlockTypeOK'
    BY <1>1, <1>2, <1>3, <2>2 DEF BlockInv, BlockTypeOK
  <2>4. /\ block_index'[k] = 0
        /\ \A j \in BlockKeys \ {k} : block_index'[j] = block_index[j]
    BY <1>1 DEF BlockInv, BlockTypeOK
  <2>5. /\ IndexAt(block_index', t) = IndexAt(block_index, t) \ {k}
        /\ \A s \in 1..next_slot : s # t => IndexAt(block_index', s) = IndexAt(block_index, s)
    <3>1. \A s \in 1..next_slot : s # 0 /\ (s # t => k \notin IndexAt(block_index, s))
      BY <1>3, <2>0 DEF IndexAt
    <3>2. \A s : s # 0 => IndexAt(block_index', s) = IndexAt(block_index, s) \ {k}
      BY <2>4, IndexMoves
    <3>3. QED BY <2>1, <3>1, <3>2
  <2>6. /\ t \notin lost_slots /\ IndexAt(block_index, t) = {k}
        /\ WriteAt(inflight, t) = {} /\ FreeAt(free_slots, t) = {}
    <3>1. k \in IndexAt(block_index, t)
      BY <2>0 DEF IndexAt
    <3>2. QED BY <2>1, <3>1, OnlyHolder
  <2>7. OneHolder(IndexAt(block_index', t), WriteAt(inflight', t), FreeAt(free_slots', t))
    <3>1. /\ IndexAt(block_index', t) = {} /\ WriteAt(inflight', t) = {}
          /\ FreeAt(free_slots', t) = {Len(free_slots) + 1}
      BY <1>5, <2>2, <2>5, <2>6
    <3>2. QED BY <3>1 DEF OneHolder, Single
  <2>8. \A s \in 1..next_slot : s # t =>
             /\ IndexAt(block_index', s) = IndexAt(block_index, s)
             /\ WriteAt(inflight', s) = WriteAt(inflight, s)
             /\ FreeAt(free_slots', s) = FreeAt(free_slots, s)
    BY <1>5, <2>2, <2>5
  <2>9. QED BY <1>1, <1>4, <2>1, <2>3, <2>6, <2>7, <2>8, HandOver
<1>8. QED BY <1>6, <1>7

\* A snapshot accounts for the slots of the index it is taken from.
LEMMA SnapshotIsAccounted ==
    ASSUME BlockInv
    PROVE  SnapshotAccounted(Snapshot)
<1>1. /\ Snapshot.index = block_index /\ Snapshot.next = next_slot /\ Snapshot.free = free_slots
      /\ Snapshot.writing = {inflight[k].slot : k \in InFlight}
  BY DEF Snapshot
<1>2. \A s \in 1..next_slot : s \in Snapshot.writing <=> WriteAt(inflight, s) # {}
  BY <1>1 DEF InFlight, WriteAt
<1>3. Snapshot.writing \subseteq 1..next_slot
  BY <1>1 DEF BlockInv, BlockTypeOK, InFlight
<1>4. ASSUME NEW s \in 1..next_slot
      PROVE  /\ s \in lost_slots \cup Snapshot.writing =>
                   Nobody(IndexAt(block_index, s), {}, FreeAt(free_slots, s))
             /\ s \notin lost_slots \cup Snapshot.writing =>
                   OneHolder(IndexAt(block_index, s), {}, FreeAt(free_slots, s))
  <2>1. CASE s \in lost_slots
    BY <2>1 DEF BlockInv, SlotsHeldOnce, Nobody
  <2>2. CASE s \notin lost_slots /\ s \in Snapshot.writing
    <3>1. \E k : k \in WriteAt(inflight, s)
      BY <1>2, <2>2
    <3>2. QED BY <2>2, <3>1, OnlyHolder DEF Nobody
  <2>3. CASE s \notin lost_slots /\ s \notin Snapshot.writing
    <3>1. WriteAt(inflight, s) = {}
      BY <1>2, <2>3
    <3>2. OneHolder(IndexAt(block_index, s), WriteAt(inflight, s), FreeAt(free_slots, s))
      BY <2>3 DEF BlockInv, SlotsHeldOnce
    <3>3. QED BY <2>3, <3>1, <3>2
  <2>4. QED BY <2>1, <2>2, <2>3
<1>5. QED BY <1>1, <1>3, <1>4 DEF BlockInv, BlockTypeOK, SnapshotAccounted

LEMMA SavingPreserves ==
    ASSUME BlockInv,
           snapshot_taken \/ close \/ \E ok \in BOOLEAN : manifest_replaced(ok)
    PROVE  BlockInv'
<1>1. UNCHANGED <<block_index, inflight, next_slot, free_slots, lost_slots>>
  BY DEF snapshot_taken, close, manifest_replaced
<1>2. BlockTypeOK' /\ WritesHaveSlots' /\ SlotsHeldOnce'
  BY <1>1 DEF BlockInv, BlockTypeOK, WritesHaveSlots, SlotsHeldOnce
<1>3. SnapshotsAccounted'
  <2> USE DEF BlockInv, SnapshotsAccounted, SnapshotAccounted
  <2>1. CASE snapshot_taken
    <3>1. saver' = Snapshot /\ manifest' = manifest
      BY <2>1 DEF snapshot_taken
    <3>2. QED BY <1>1, <3>1, SnapshotIsAccounted
  <2>2. CASE close
    <3>1. manifest' = Snapshot /\ saver' = saver
      BY <2>2 DEF close
    <3>2. QED BY <1>1, <3>1, SnapshotIsAccounted
  <2>3. ASSUME NEW ok \in BOOLEAN, manifest_replaced(ok)
        PROVE  SnapshotsAccounted'
    <3>1. /\ ~saver'.taken
          /\ manifest' = manifest \/ (saver.taken /\ manifest' = saver)
      BY <2>3 DEF manifest_replaced, NoSnapshot
    <3>2. QED BY <1>1, <3>1
  <2>4. QED BY <2>1, <2>2, <2>3
<1>4. QED BY <1>2, <1>3 DEF BlockInv

\* A restart takes over a manifest that accounts for the slots, or starts with none.
LEMMA LoadManifestPreserves ==
    ASSUME BlockInv, load_manifest
    PROVE  BlockInv'
<1>1. /\ inflight' = [k \in BlockKeys |-> NoWrite] /\ ~saver'.taken /\ manifest' = manifest
  BY DEF load_manifest, NoSnapshot
<1>2. \A k \in BlockKeys : inflight'[k].slot = 0 /\ inflight'[k].stage = "none"
  BY <1>1 DEF NoWrite
<1>3. \A s : s # 0 => WriteAt(inflight', s) = {}
  BY <1>2 DEF WriteAt
<1>4. WritesHaveSlots'
  BY <1>2 DEF WritesHaveSlots
<1>5. CASE manifest.taken
  <2>1. /\ block_index' = manifest.index /\ next_slot' = manifest.next /\ free_slots' = manifest.free
        /\ lost_slots' = lost_slots \cup manifest.writing
    BY <1>5 DEF load_manifest
  <2>2. SnapshotAccounted(manifest)
    BY <1>5 DEF BlockInv, SnapshotsAccounted
  <2>3. BlockTypeOK'
    <3>1. next_slot' \in Nat
      BY <2>1, <2>2 DEF SnapshotAccounted
    <3>2. NoWrite \in [slot : 0..next_slot', canceled : BOOLEAN,
                       stage : {"none", "queued", "writing", "written"}]
      BY <3>1 DEF NoWrite
    <3>3. QED BY <1>1, <2>1, <2>2, <3>1, <3>2 DEF BlockTypeOK, SnapshotAccounted
  <2>4. SlotsHeldOnce'
    <3>1. ASSUME NEW s \in 1..next_slot'
          PROVE  /\ s \in lost_slots' =>
                       Nobody(IndexAt(block_index', s), WriteAt(inflight', s), FreeAt(free_slots', s))
                 /\ s \notin lost_slots' =>
                       OneHolder(IndexAt(block_index', s), WriteAt(inflight', s), FreeAt(free_slots', s))
      <4>1. s # 0
        BY <2>3 DEF BlockTypeOK
      <4>2. QED BY <1>3, <2>1, <2>2, <4>1 DEF SnapshotAccounted
    <3>2. QED BY <3>1 DEF SlotsHeldOnce
  <2>5. SnapshotsAccounted'
    <3>1. lost_slots' \cup manifest.writing = lost_slots \cup manifest.writing
      BY <2>1
    <3>2. QED BY <1>1, <2>2, <3>1 DEF SnapshotsAccounted, SnapshotAccounted
  <2>6. QED BY <1>4, <2>3, <2>4, <2>5 DEF BlockInv
<1>6. CASE ~manifest.taken
  <2>1. /\ block_index' = [k \in BlockKeys |-> 0] /\ next_slot' = 0 /\ free_slots' = <<>>
        /\ lost_slots' = {}
    BY <1>6 DEF load_manifest
  <2>2. NoWrite \in [slot : 0..0, canceled : BOOLEAN, stage : {"none", "queued", "writing", "written"}]
    BY DEF NoWrite
  <2>3. BlockTypeOK'
    BY <1>1, <2>1, <2>2 DEF BlockTypeOK
  <2>4. SlotsHeldOnce'
    BY <2>1 DEF SlotsHeldOnce
  <2>5. SnapshotsAccounted'
    BY <1>1, <1>6 DEF SnapshotsAccounted
  <2>6. QED BY <1>4, <2>3, <2>4, <2>5 DEF BlockInv
<1>7. QED BY <1>5, <1>6

LEMMA BlockNextPreserves == BlockInv /\ [BlockNext]_block_vars => BlockInv'
<1> SUFFICES ASSUME BlockInv, [BlockNext]_block_vars PROVE BlockInv'
  OBVIOUS
<1>1. ASSUME NEW k \in BlockKeys,
             put_reuses(k) \/ put_extends(k) \/ put_evicts(k) \/ remove_key(k)
                 \/ write_begins(k) \/ write_ends(k)
      PROVE  BlockInv'
  BY <1>1, PutReusesPreserves, PutExtendsPreserves, PutEvictsBlockPreserves, RemoveKeyPreserves,
     WriteAdvances
<1>2. ASSUME NEW k \in BlockKeys, write_enters(k)
      PROVE  BlockInv'
  <2>1. inflight[k].stage # "none"
    BY <1>2 DEF write_enters
  <2>2. CASE inflight[k].canceled
    BY <1>2, <2>1, <2>2, WriteGivesBack DEF write_enters
  <2>3. CASE ~inflight[k].canceled
    BY <1>2, <2>1, <2>3, WriteEntersIndex DEF write_enters
  <2>4. QED BY <2>2, <2>3
<1>3. ASSUME NEW k \in BlockKeys, write_fails(k)
      PROVE  BlockInv'
  <2>1. inflight[k].stage # "none"
    BY <1>3 DEF write_fails
  <2>2. QED BY <1>3, <2>1, WriteGivesBack DEF write_fails
<1>4. ASSUME UNCHANGED <<block_index, inflight, next_slot, free_slots, saver, manifest, lost_slots>>
      PROVE  BlockInv'
  BY <1>4, NoSlotMoves DEF BlockInv, BlockTypeOK, WritesHaveSlots
<1>5. ASSUME NEW k \in BlockKeys,
             put_starved(k) \/ block_pin(k) \/ block_unpin(k) \/ read_begins(k)
      PROVE  BlockInv'
  BY <1>4, <1>5 DEF put_starved, block_pin, block_unpin, read_begins
<1>6. CASE read_ends \/ UNCHANGED block_vars
  BY <1>4, <1>6 DEF read_ends, block_vars
<1>7. CASE snapshot_taken \/ close \/ \E ok \in BOOLEAN : manifest_replaced(ok)
  BY <1>7, SavingPreserves
<1>8. CASE load_manifest
  BY <1>8, LoadManifestPreserves
<1>9. QED BY <1>1, <1>2, <1>3, <1>5, <1>6, <1>7, <1>8 DEF BlockNext

\* Through any order of writes, failures, removals, evictions, saves and restarts, with any
\* number of slots, every slot handed out has exactly one owner or was being written when
\* the manifest now in use was taken.
THEOREM SlotsStayAccounted == BlockSpec => []SlotsAccounted
<1>1. BlockInit => BlockInv
  <2> SUFFICES ASSUME BlockInit PROVE BlockInv
    OBVIOUS
  <2>1. NoWrite \in [slot : 0..0, canceled : BOOLEAN, stage : {"none", "queued", "writing", "written"}]
        /\ NoWrite.slot = 0 /\ NoWrite.stage = "none"
    BY DEF NoWrite
  <2>2. BlockTypeOK /\ WritesHaveSlots
    BY <2>1 DEF BlockInit, BlockTypeOK, WritesHaveSlots
  <2>3. SlotsHeldOnce /\ SnapshotsAccounted
    BY DEF BlockInit, SlotsHeldOnce, SnapshotsAccounted, NoSnapshot
  <2>4. QED BY <2>2, <2>3 DEF BlockInv
<1>2. BlockInv => SlotsAccounted
  BY HoldersAreOwners
<1>3. QED BY <1>1, <1>2, BlockNextPreserves, PTL DEF BlockSpec
=============================================================================
