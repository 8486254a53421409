------------------------ MODULE StorageManagerProofs ------------------------
(* The storage manager: its types, the protocol between its threads, and    *)
(* the locks it holds at the L2 adapters.                                   *)
(*                                                                          *)
(* The inductive invariant is L2Inv.  Beside the property, it says which    *)
(* phase of a prefetch each task belongs to (TasksOK): a lock is held for a *)
(* lookup until the plan is made, and for a load until it has come back, so *)
(* the count of the locks is inductive only with the phases fixed; and that *)
(* no request waits twice in the queue (QueueOK), or the second start would *)
(* overwrite the tasks of the first and lose their locks.  That a lock held *)
(* keeps its key stored (L2KeysStored) is what eviction in an adapter must  *)
(* respect, and what makes the loads find their data.                       *)
EXTENDS StorageManager, L1Proofs, FiniteSetTheorems, NaturalsInduction,
        SequenceTheorems, WellFoundedInduction

----------------------------------------------------------------------------
(* Sums over a finite set.  MapThenSumSet takes the elements out one by one *)
(* in an order that CHOOSE fixes.                                           *)

\* A family of subsets of a finite set has a minimal member.
LEMMA MinimalSubset ==
    ASSUME NEW S, IsFiniteSet(S), NEW X \in SUBSET (SUBSET S), NEW u \in X
    PROVE  \E m \in X : \A t \in X : t \subseteq m => t = m
<1>1. IsWellFoundedOn(StrictSubsetOrdering(S), SUBSET S)
  BY FS_StrictSubsetOrderingWellFounded, FS_FiniteSubsetsOfFinite
<1>2. PICK m \in X : \A t \in X : ~(<<t, m>> \in StrictSubsetOrdering(S))
  BY <1>1, WFMin
<1>3. QED BY <1>2 DEF StrictSubsetOrdering

\* The same for a set of natural numbers.
LEMMA LeastNat ==
    ASSUME NEW X \in SUBSET Nat, NEW u \in X
    PROVE  \E m \in X : \A n \in X : m <= n
<1>1. PICK m \in X : \A n \in X : ~(<<n, m>> \in OpToRel(<, Nat))
  BY NatLessThanWellFounded, WFMin
<1>2. \A n \in X : ~(n < m)
  BY <1>1 DEF OpToRel
<1>3. \A n \in X : n \in Nat
  OBVIOUS
<1>4. QED BY <1>2, <1>3

\* The element MapThenSumSet takes out first.
Eldest(s) == CHOOSE x \in s : TRUE

\* The sum of h over S, as the model writes its sums.
SumOver(h, S) == MapThenSumSet(LAMBDA c : h[c], S)

\* What the recursive function inside MapThenSumSet satisfies.
SumEquation(f, h, S) ==
    f = [s \in SUBSET S |-> IF s = {} THEN 0 ELSE h[Eldest(s)] + f[s \ {Eldest(s)}]]

\* The subsets of S with at most n elements.
Upto(S, n) == {s \in SUBSET S : Cardinality(s) <= n}

\* How the families Upto(S, n) sit in one another.
LEMMA UptoMembers ==
    ASSUME NEW S, IsFiniteSet(S), NEW n \in Nat
    PROVE  /\ \A s \in Upto(S, n + 1) : \A x \in s : s \ {x} \in Upto(S, n)
           /\ \A s \in Upto(S, 0) : s = {}
           /\ Upto(S, n) \subseteq Upto(S, n + 1)
           /\ S \in Upto(S, Cardinality(S))
           /\ Upto(S, Cardinality(S)) = SUBSET S
<1>1. \A s \in SUBSET S : IsFiniteSet(s) /\ Cardinality(s) \in Nat /\ Cardinality(s) <= Cardinality(S)
  BY FS_Subset, FS_CardinalityType
<1>2. ASSUME NEW s \in Upto(S, n + 1), NEW x \in s PROVE s \ {x} \in Upto(S, n)
  <2>1. IsFiniteSet(s) /\ Cardinality(s) \in Nat /\ Cardinality(s) <= n + 1
    BY <1>1 DEF Upto
  <2>2. Cardinality(s \ {x}) = Cardinality(s) - 1
    BY <2>1, FS_RemoveElement
  <2>3. QED BY <2>1, <2>2 DEF Upto
<1>3. ASSUME NEW s \in Upto(S, 0) PROVE s = {}
  <2>1. IsFiniteSet(s) /\ Cardinality(s) = 0
    BY <1>1 DEF Upto
  <2>2. QED BY <2>1, FS_EmptySet
<1>4. QED BY <1>1, <1>2, <1>3, FS_CardinalityType DEF Upto

\* The equation has a solution: it is built up by the size of the subsets.
LEMMA SumExists ==
    ASSUME NEW S, IsFiniteSet(S), NEW h
    PROVE  \E f : SumEquation(f, h, S)
<1> DEFINE Partial(f, n) ==
             f = [s \in Upto(S, n) |-> IF s = {} THEN 0 ELSE h[Eldest(s)] + f[s \ {Eldest(s)}]]
           Missing == {n \in Nat : ~\E f : Partial(f, n)}
<1>1. \E f : Partial(f, 0)
  <2>1. Partial([s \in Upto(S, 0) |-> 0], 0)
    BY UptoMembers
  <2>2. QED BY <2>1
<1>2. ASSUME NEW n \in Nat, NEW f, Partial(f, n) PROVE \E g : Partial(g, n + 1)
  <2> DEFINE g == [s \in Upto(S, n + 1) |->
                    IF s = {} THEN 0 ELSE h[Eldest(s)] + f[s \ {Eldest(s)}]]
  <2>1. \A s \in Upto(S, n) : g[s] = f[s]
    <3>1. Upto(S, n) \subseteq Upto(S, n + 1)
      BY UptoMembers
    <3>2. QED BY <1>2, <3>1
  <2>2. \A s \in Upto(S, n + 1) : s # {} => s \ {Eldest(s)} \in Upto(S, n)
    <3>1. \A s \in Upto(S, n + 1) : \A x \in s : s \ {x} \in Upto(S, n)
      BY UptoMembers
    <3>2. \A s : s # {} => Eldest(s) \in s
      BY DEF Eldest
    <3>3. QED BY <3>1, <3>2
  <2>3. \A s \in Upto(S, n + 1) : s # {} => g[s \ {Eldest(s)}] = f[s \ {Eldest(s)}]
    BY <2>1, <2>2
  <2>4. Partial(g, n + 1)
    BY <2>3
  <2>5. QED BY <2>4
<1>3. Missing = {}
  <2>1. SUFFICES ASSUME NEW u \in Missing PROVE FALSE
    OBVIOUS
  <2>2. Missing \in SUBSET Nat
    OBVIOUS
  <2>3. PICK m \in Missing : \A n \in Missing : m <= n
    <3> HIDE DEF Missing
    <3>1. QED BY <2>1, <2>2, LeastNat
  <2>4. m \in Nat /\ m # 0
    BY <1>1
  <2>5. m - 1 \in Nat /\ m - 1 \notin Missing
    <3>1. m - 1 \in Nat /\ ~(m <= m - 1)
      BY <2>4
    <3> HIDE DEF Missing
    <3>2. QED BY <2>3, <3>1
  <2>6. PICK f : Partial(f, m - 1)
    BY <2>5
  <2>7. \E g : Partial(g, (m - 1) + 1)
    BY <2>5, <2>6, <1>2
  <2>8. QED BY <2>4, <2>7
<1>4. PICK f : Partial(f, Cardinality(S))
  BY <1>3, FS_CardinalityType
<1>5. SumEquation(f, h, S)
  BY <1>4, UptoMembers, FS_CardinalityType DEF SumEquation
<1>6. QED BY <1>5

\* The partial sums are those of a function that satisfies the equation.
LEMMA SumIsFold ==
    ASSUME NEW S, IsFiniteSet(S), NEW h
    PROVE  \E f : SumEquation(f, h, S) /\ SumOver(h, S) = f[S]
<1>1. SumOver(h, S) = (CHOOSE f : SumEquation(f, h, S))[S]
  BY DEF SumOver, SumEquation, Eldest, MapThenSumSet, MapThenFoldSet
<1>2. SumEquation(CHOOSE f : SumEquation(f, h, S), h, S)
  BY SumExists
<1>3. QED BY <1>1, <1>2

\* A sum of naturals is one, and is at least each of its summands.
LEMMA SumNat ==
    ASSUME NEW S, IsFiniteSet(S), NEW h \in [S -> Nat]
    PROVE  SumOver(h, S) \in Nat /\ \A c \in S : h[c] <= SumOver(h, S)
<1>1. PICK f : SumEquation(f, h, S) /\ SumOver(h, S) = f[S]
  BY SumIsFold
<1> DEFINE Good(s) == f[s] \in Nat /\ \A c \in s : h[c] <= f[s]
           Bad == {s \in SUBSET S : ~Good(s)}
<1>2. Bad = {}
  <2>1. SUFFICES ASSUME NEW u \in Bad PROVE FALSE
    OBVIOUS
  <2>2. PICK m \in Bad : \A t \in Bad : t \subseteq m => t = m
    <3>1. Bad \in SUBSET (SUBSET S)
      OBVIOUS
    <3> HIDE DEF Bad
    <3>2. QED BY <2>1, <3>1, MinimalSubset
  <2>3. m \in SUBSET S /\ m # {}
    BY <1>1 DEF SumEquation
  <2>4. Eldest(m) \in m
    BY <2>3 DEF Eldest
  <2>5. f[m] = h[Eldest(m)] + f[m \ {Eldest(m)}]
    BY <1>1, <2>3 DEF SumEquation
  <2>6. Good(m \ {Eldest(m)})
    BY <2>2, <2>3, <2>4
  <2>7. h[Eldest(m)] \in Nat /\ \A c \in m : h[c] \in Nat
    BY <2>3, <2>4
  <2>8. f[m] \in Nat /\ h[Eldest(m)] <= f[m]
    BY <2>5, <2>6, <2>7
  <2>9. ASSUME NEW c \in m PROVE h[c] <= f[m]
    <3>1. c = Eldest(m) \/ (c \in m \ {Eldest(m)} /\ h[c] <= f[m \ {Eldest(m)}])
      BY <2>6
    <3>2. h[c] \in Nat
      BY <2>7
    <3>3. QED BY <2>5, <2>6, <2>7, <2>8, <3>1, <3>2
  <2>10. QED BY <2>8, <2>9
<1>3. QED BY <1>1, <1>2

\* Changing one summand changes the sum by as much.
LEMMA SumChange ==
    ASSUME NEW S, IsFiniteSet(S), NEW h \in [S -> Nat], NEW g \in [S -> Nat], NEW c \in S,
           \A x \in S \ {c} : g[x] = h[x]
    PROVE  SumOver(g, S) + h[c] = SumOver(h, S) + g[c]
<1>1. PICK f : SumEquation(f, h, S) /\ SumOver(h, S) = f[S]
  BY SumIsFold
<1>2. PICK e : SumEquation(e, g, S) /\ SumOver(g, S) = e[S]
  BY SumIsFold
<1> DEFINE Good(s) == /\ f[s] \in Nat /\ e[s] \in Nat
                      /\ IF c \in s THEN e[s] + h[c] = f[s] + g[c] ELSE e[s] = f[s]
           Bad == {s \in SUBSET S : ~Good(s)}
<1>3. Bad = {}
  <2>1. SUFFICES ASSUME NEW u \in Bad PROVE FALSE
    OBVIOUS
  <2>2. PICK m \in Bad : \A t \in Bad : t \subseteq m => t = m
    <3>1. Bad \in SUBSET (SUBSET S)
      OBVIOUS
    <3> HIDE DEF Bad
    <3>2. QED BY <2>1, <3>1, MinimalSubset
  <2>3. m \in SUBSET S /\ m # {}
    BY <1>1, <1>2 DEF SumEquation
  <2>4. Eldest(m) \in m
    BY <2>3 DEF Eldest
  <2>5. /\ f[m] = h[Eldest(m)] + f[m \ {Eldest(m)}]
        /\ e[m] = g[Eldest(m)] + e[m \ {Eldest(m)}]
    BY <1>1, <1>2, <2>3 DEF SumEquation
  <2>6. Good(m \ {Eldest(m)})
    BY <2>2, <2>3, <2>4
  <2>7. Good(m)
    <3>1. h[Eldest(m)] \in Nat /\ g[Eldest(m)] \in Nat /\ h[c] \in Nat /\ g[c] \in Nat
      BY <2>3, <2>4
    <3>2. CASE Eldest(m) = c
      BY <2>4, <2>5, <2>6, <3>1, <3>2
    <3>3. CASE Eldest(m) # c
      BY <2>3, <2>4, <2>5, <2>6, <3>1, <3>3
    <3>4. QED BY <3>2, <3>3
  <2>8. QED BY <2>7
<1>4. QED BY <1>1, <1>2, <1>3

\* A sum of zeros.
LEMMA SumZero ==
    ASSUME NEW S, IsFiniteSet(S)
    PROVE  SumOver([c \in S |-> 0], S) = 0
<1> DEFINE h == [c \in S |-> 0]
<1>1. PICK f : SumEquation(f, h, S) /\ SumOver(h, S) = f[S]
  BY SumIsFold
<1> DEFINE Bad == {s \in SUBSET S : f[s] # 0}
<1>3. Bad = {}
  <2>1. SUFFICES ASSUME NEW u \in Bad PROVE FALSE
    OBVIOUS
  <2>2. PICK m \in Bad : \A t \in Bad : t \subseteq m => t = m
    <3>1. Bad \in SUBSET (SUBSET S)
      OBVIOUS
    <3> HIDE DEF Bad
    <3>2. QED BY <2>1, <3>1, MinimalSubset
  <2>3. m \in SUBSET S /\ m # {}
    BY <1>1 DEF SumEquation
  <2>4. Eldest(m) \in m
    BY <2>3 DEF Eldest
  <2>5. f[m] = h[Eldest(m)] + f[m \ {Eldest(m)}]
    BY <1>1, <2>3 DEF SumEquation
  <2>6. f[m \ {Eldest(m)}] = 0
    BY <2>2, <2>3, <2>4
  <2>7. QED BY <2>3, <2>4, <2>5, <2>6
<1>4. QED BY <1>1, <1>3

----------------------------------------------------------------------------
(* Storing a batch at an adapter: the fold of ExecuteStore.                 *)

\* A finite set of naturals that is not empty has a greatest element.
LEMMA MaxIn ==
    ASSUME NEW S, IsFiniteSet(S), \A x \in S : x \in Nat, S # {}
    PROVE  Max(S) \in S
<1> DEFINE Bad == {s \in SUBSET S : s # {} /\ ~\E x \in s : \A y \in s : x >= y}
<1>1. Bad = {}
  <2>1. SUFFICES ASSUME NEW u \in Bad PROVE FALSE
    OBVIOUS
  <2>2. PICK m \in Bad : \A t \in Bad : t \subseteq m => t = m
    <3>1. Bad \in SUBSET (SUBSET S)
      OBVIOUS
    <3> HIDE DEF Bad
    <3>2. QED BY <2>1, <3>1, MinimalSubset
  <2>3. PICK x \in m : x \in Nat
    OBVIOUS
  <2>4. CASE m \ {x} = {}
    <3>1. \A y \in m : x >= y
      BY <2>3, <2>4
    <3>2. QED BY <2>3, <3>1
  <2>5. CASE m \ {x} # {}
    <3>1. m \ {x} \notin Bad
      BY <2>2, <2>3
    <3>2. PICK z \in m \ {x} : \A y \in m \ {x} : z >= y
      BY <2>5, <3>1
    <3>3. z \in Nat /\ z \in m
      OBVIOUS
    <3>4. CASE z >= x
      <4>1. \A y \in m : z >= y
        BY <3>2, <3>4
      <4>2. QED BY <3>3, <4>1
    <3>5. CASE ~(z >= x)
      <4>1. \A y \in m \ {x} : y \in Nat /\ x >= y
        BY <2>3, <3>2, <3>3, <3>5
      <4>2. \A y \in m : x >= y
        BY <2>3, <4>1
      <4>3. QED BY <2>3, <4>2
    <3>6. QED BY <3>4, <3>5
  <2>6. QED BY <2>4, <2>5
<1>2. S \notin Bad
  BY <1>1
<1>3. \E x \in S : \A y \in S : x >= y
  BY <1>2
<1>4. QED BY <1>3 DEF Max

\* What the recursive function inside StoreAll satisfies.
StoreEquation(f, a, objs, keys, st0) ==
    f = [s \in SUBSET keys |-> IF s = {} THEN st0
                              ELSE StoreOne(a, objs, f[s \ {Max(s)}], Max(s))]

\* The equation has a solution, built up by the size of the sets of keys.
LEMMA StoreExists ==
    ASSUME NEW a, NEW objs, NEW st0, NEW keys, IsFiniteSet(keys), \A k \in keys : k \in Nat
    PROVE  \E f : StoreEquation(f, a, objs, keys, st0)
<1> DEFINE Partial(f, n) ==
             f = [s \in Upto(keys, n) |-> IF s = {} THEN st0
                                         ELSE StoreOne(a, objs, f[s \ {Max(s)}], Max(s))]
           Missing == {n \in Nat : ~\E f : Partial(f, n)}
<1>1. \E f : Partial(f, 0)
  <2>1. Partial([s \in Upto(keys, 0) |-> st0], 0)
    BY UptoMembers
  <2>2. QED BY <2>1
<1>2. ASSUME NEW n \in Nat, NEW f, Partial(f, n) PROVE \E g : Partial(g, n + 1)
  <2> DEFINE g == [s \in Upto(keys, n + 1) |->
                    IF s = {} THEN st0 ELSE StoreOne(a, objs, f[s \ {Max(s)}], Max(s))]
  <2>1. \A s \in Upto(keys, n) : g[s] = f[s]
    <3>1. SUFFICES ASSUME NEW s \in Upto(keys, n) PROVE g[s] = f[s]
      OBVIOUS
    <3>2. s \in Upto(keys, n + 1)
      BY UptoMembers
    <3>3. g[s] = IF s = {} THEN st0 ELSE StoreOne(a, objs, f[s \ {Max(s)}], Max(s))
      BY <3>2
    <3>4. f[s] = IF s = {} THEN st0 ELSE StoreOne(a, objs, f[s \ {Max(s)}], Max(s))
      BY <1>2
    <3>5. QED BY <3>3, <3>4, Zenon
  <2>2. \A s \in Upto(keys, n + 1) : s # {} => s \ {Max(s)} \in Upto(keys, n)
    <3>1. \A s \in Upto(keys, n + 1) : (\A x \in s : x \in Nat) /\ IsFiniteSet(s)
      BY FS_Subset DEF Upto
    <3>2. \A s \in Upto(keys, n + 1) : s # {} => Max(s) \in s
      BY <3>1, MaxIn
    <3>3. QED BY <3>2, UptoMembers
  <2>3. \A s \in Upto(keys, n + 1) : s # {} => g[s \ {Max(s)}] = f[s \ {Max(s)}]
    BY <2>1, <2>2
  <2>4. Partial(g, n + 1)
    BY <2>3
  <2>5. QED BY <2>4
<1>3. Missing = {}
  <2>1. SUFFICES ASSUME NEW u \in Missing PROVE FALSE
    OBVIOUS
  <2>2. Missing \in SUBSET Nat
    OBVIOUS
  <2>3. PICK m \in Missing : \A n \in Missing : m <= n
    <3> HIDE DEF Missing
    <3>1. QED BY <2>1, <2>2, LeastNat
  <2>4. m \in Nat /\ m # 0
    BY <1>1
  <2>5. m - 1 \in Nat /\ m - 1 \notin Missing
    <3>1. m - 1 \in Nat /\ ~(m <= m - 1)
      BY <2>4
    <3> HIDE DEF Missing
    <3>2. QED BY <2>3, <3>1
  <2>6. PICK f : Partial(f, m - 1)
    BY <2>5
  <2>7. \E g : Partial(g, (m - 1) + 1)
    <3> HIDE DEF Partial
    <3>1. QED BY <2>5, <2>6, <1>2
  <2>8. QED BY <2>4, <2>7
<1>4. PICK f : Partial(f, Cardinality(keys))
  BY <1>3, FS_CardinalityType
<1>5. StoreEquation(f, a, objs, keys, st0)
  BY <1>4, UptoMembers, FS_CardinalityType DEF StoreEquation
<1>6. QED BY <1>5

\* What the first state of an adapter satisfies and every single store keeps,
\* holds after the batch.
LEMMA StoreAllKeeps ==
    ASSUME NEW a, NEW objs, NEW keys, IsFiniteSet(keys), \A k \in keys : k \in Nat,
           NEW T, NEW st0 \in T,
           \A st \in T, k \in keys : StoreOne(a, objs, st, k) \in T
    PROVE  StoreAll(a, objs, keys, st0) \in T
<1> DEFINE f == CHOOSE g : StoreEquation(g, a, objs, keys, st0)
<1>1. StoreAll(a, objs, keys, st0) = f[keys]
  BY DEF StoreAll, StoreEquation, MapThenFoldSet
<1>2. StoreEquation(f, a, objs, keys, st0)
  BY StoreExists
<1> HIDE DEF f
<1> DEFINE Bad == {s \in SUBSET keys : f[s] \notin T}
<1>3. Bad = {}
  <2>1. SUFFICES ASSUME NEW u \in Bad PROVE FALSE
    OBVIOUS
  <2>2. PICK m \in Bad : \A t \in Bad : t \subseteq m => t = m
    <3>1. Bad \in SUBSET (SUBSET keys)
      OBVIOUS
    <3> HIDE DEF Bad
    <3>2. QED BY <2>1, <3>1, MinimalSubset
  <2>3. m \in SUBSET keys /\ m # {}
    BY <1>2 DEF StoreEquation
  <2>4. Max(m) \in m
    BY <2>3, MaxIn, FS_Subset
  <2>5. f[m] = StoreOne(a, objs, f[m \ {Max(m)}], Max(m))
    BY <1>2, <2>3 DEF StoreEquation
  <2>6. f[m \ {Max(m)}] \in T
    BY <2>2, <2>3, <2>4
  <2>7. QED BY <2>3, <2>4, <2>5, <2>6
<1>4. QED BY <1>1, <1>3

----------------------------------------------------------------------------
(* The types of the tasks, the requests and the clients.                    *)

\* The records of the four components, as sets.
Buffers == UNION {[S -> MemObjs] : S \in SUBSET Keys}
Statuses == {"none", "submitted", "done"}
Tasks == [status : Statuses, keys : SUBSET Keys, objs : Buffers, ok : SUBSET Keys]
StoreTaskSet == [status : Statuses, adapter : Adapters \cup {Absent}, keys : SUBSET Keys,
                 objs : Buffers, ok : BOOLEAN]
Prefetches == [phase : Phases, keys : SUBSET Keys, plan : [Adapters -> SUBSET Keys],
               reserved : SUBSET Keys, loaded : SUBSET Keys]
ClientOps == {"idle", "storing", "looking", "waiting", "ready"}
Clients == [op : ClientOps, keys : SUBSET Keys, held : SUBSET Keys, skipped : SUBSET Keys,
            objs : Buffers, left : Nat, reading : Nat]

\* The parts of the type invariant, one per component.
AdapterTypeOK ==
    /\ content \in [MemObjs -> Data]
    /\ l2_objects \in [Adapters -> [Keys -> Data \cup {Absent}]]
    /\ l2_queue \in [Adapters -> Seq(Keys)]
    /\ l2_locked \in [Adapters -> [Keys -> Nat]]
    /\ l2_unlocks \in [Adapters -> [Keys -> Nat]]

TaskTypeOK ==
    /\ store_task \in [StoreTasks -> StoreTaskSet]
    /\ lookup_task \in [Requests -> [Adapters -> Tasks]]
    /\ load_task \in [Requests -> [Adapters -> Tasks]]

RequestTypeOK == request \in [Requests -> Prefetches] /\ queue \in Seq(Requests)

ManagerTypeOK ==
    /\ AdapterTypeOK /\ TaskTypeOK /\ RequestTypeOK
    /\ client \in [Requests -> Clients]
    /\ targets \subseteq Adapters

\* The task that holds no buffer is one.
LEMMA EmptyBuffers == <<>> \in Buffers
<1>1. <<>> \in [{} -> MemObjs]
  OBVIOUS
<1>2. QED BY <1>1 DEF Buffers

\* Any choice of a buffer for each key of a set.
LEMMA BuffersOf ==
    ASSUME NEW S \in SUBSET Keys, NEW f \in [S -> MemObjs]
    PROVE  f \in Buffers
  BY DEF Buffers

\* The records every task, request and client starts from.
LEMMA FirstRecords ==
    /\ NoTask \in Tasks /\ NoStoreTask \in StoreTaskSet /\ NoRequest \in Prefetches
    /\ Idle \in Clients
  BY EmptyBuffers DEF NoTask, NoStoreTask, NoRequest, Idle, Tasks, StoreTaskSet, Prefetches,
                      Clients, Statuses, Phases, ClientOps, NoPlan

\* The initial state has the types.
LEMMA ManagerTypeInit == Init => ManagerTypeOK
<1> SUFFICES ASSUME Init PROVE ManagerTypeOK
  OBVIOUS
<1> USE DEF Init, L2Init, PrefetchInit, StoreInit
<1>1. AdapterTypeOK
  BY DEF AdapterTypeOK, Data, Garbage, Absent
<1>2. TaskTypeOK
  BY FirstRecords DEF TaskTypeOK
<1>3. RequestTypeOK
  BY FirstRecords DEF RequestTypeOK
<1>4. QED BY <1>1, <1>2, <1>3, FirstRecords DEF ManagerTypeOK

----------------------------------------------------------------------------
\* Every step of the storage manager makes at most one call into L1Manager.
LEMMA CacheKept == L1Inv /\ ManagerTypeOK /\ [Next]_vars => L1Inv'
<1> SUFFICES ASSUME L1Inv, ManagerTypeOK, [Next]_vars PROVE L1Inv'
  OBVIOUS
<1>1. CASE UNCHANGED l1vars
  BY <1>1 DEF l1vars, L1Inv, L1TypeOK, ReadersExcludeWriters, NoBufferShared, NoBufferLeaked,
              LocksOnResidentKeys, Locked, WriteLocked, ReadLocked, Resident
<1>2. ASSUME NEW keys, finish_write(keys) \/ delete(keys) PROVE L1Inv'
  <2>1. CASE finish_write(keys)
    BY <2>1, FinishWritePreserves
  <2>2. CASE delete(keys)
    BY <2>2, DeletePreserves
  <2>3. QED BY <1>2, <2>1, <2>2
<1>3. ASSUME NEW keys, NEW n \in Int,
             reserve_read(keys, n) \/ finish_read(keys, n) \/ finish_write_and_reserve_read(keys, n)
      PROVE  L1Inv'
  <2>1. CASE reserve_read(keys, n)
    BY <2>1, ReserveReadPreserves
  <2>2. CASE finish_read(keys, n)
    BY <2>2, FinishReadPreserves
  <2>3. CASE finish_write_and_reserve_read(keys, n)
    BY <2>3, FinishWritePreserves
  <2>4. QED BY <1>3, <2>1, <2>2, <2>3
<1>4. ASSUME NEW keys \in SUBSET Keys, NEW temporary \in SUBSET keys,
             reserve_write(keys, temporary, "new")
      PROVE  L1Inv'
  BY <1>4, ReserveWritePreserves DEF Modes
<1>5. 0 \in Int /\ NumWorkers - 1 \in Int
  BY PrefetchAssumption
<1>6. CASE ClientStep
  <2>1. ASSUME NEW c \in Requests, NEW keys \in KeyLists, StoreBegin(c, keys) PROVE L1Inv'
    <3>1. keys \in SUBSET Keys /\ {} \in SUBSET keys
      BY ManagerAssumption
    <3>2. QED BY <1>4, <2>1, <3>1 DEF StoreBegin, l1_reserve_write
  <2>2. ASSUME NEW c \in Requests, NEW keys \in KeyLists, LookupBegin(c, keys) PROVE L1Inv'
    BY <1>3, <1>5, <2>2 DEF LookupBegin, l1_reserve_read
  <2>3. ASSUME NEW c \in Requests, StoreEnd(c) PROVE L1Inv'
    BY <1>2, <2>3 DEF StoreEnd, l1_finish_write
  <2>4. ASSUME NEW c \in Requests, LookupSubmit(c) PROVE L1Inv'
    BY <1>3, <1>5, <2>4 DEF LookupSubmit, l1_finish_read
  <2>5. ASSUME NEW c \in Requests, Poll(c) PROVE L1Inv'
    BY <1>1, <2>5 DEF Poll, cache_vars
  <2>6. ASSUME NEW c \in Requests, Retrieve(c) PROVE L1Inv'
    BY <1>1, <1>3, <1>5, <2>6 DEF Retrieve, l1_finish_read
  <2>7. ASSUME NEW c \in Requests, RetrieveDone(c) PROVE L1Inv'
    BY <1>3, <1>5, <2>7 DEF RetrieveDone, l1_finish_read
  <2>8. ASSUME NEW c \in Requests, FreeLookupLocks(c) PROVE L1Inv'
    BY <1>3, <1>5, <2>8 DEF FreeLookupLocks, l1_finish_read
  <2>9. QED BY <1>6, <2>1, <2>2, <2>3, <2>4, <2>5, <2>6, <2>7, <2>8 DEF ClientStep
<1>7. CASE Clear
  BY <1>7, ClearPreserves, ManagerAssumption DEF Clear, l1_clear
<1>8. CASE EvictionStep
  <2>1. CASE EvictionCheck \/ EvictionChoose
    BY <1>1, <2>1 DEF EvictionCheck, EvictionChoose
  <2>2. CASE EvictionExecute
    BY <1>2, <2>2 DEF EvictionExecute, l1_delete
  <2>3. CASE Expire
    BY <2>3, ExpirePreserves DEF Expire
  <2>4. QED BY <1>8, <2>1, <2>2, <2>3 DEF EvictionStep, EvictionLoop
<1>9. CASE StoreThread
  <2>1. CASE StorePopKeys
    BY <1>1, <2>1 DEF StorePopKeys, pop_pending_keys
  <2>2. CASE StoreSubmit
    BY <1>3, <1>5, <2>2 DEF StoreSubmit, l1_reserve_read
  <2>3. ASSUME NEW s \in StoreTasks, StoreComplete(s) PROVE L1Inv'
    BY <1>3, <1>5, <2>3 DEF StoreComplete, l1_finish_read
  <2>4. CASE StoreDelete
    BY <1>2, <2>4 DEF StoreDelete, l1_delete
  <2>5. QED BY <1>9, <2>1, <2>2, <2>3, <2>4 DEF StoreThread, StoreStep
<1>10. CASE PrefetchThread
  <2>1. CASE PrefetchStart
    BY <1>1, <2>1 DEF PrefetchStart, cache_vars
  <2>2. ASSUME NEW r \in Requests, PrefetchNothingFound(r) PROVE L1Inv'
    BY <1>1, <2>2 DEF PrefetchNothingFound, cache_vars
  <2>3. ASSUME NEW r \in Requests, PrefetchPlan(r) PROVE L1Inv'
    <3>1. PICK wanted : /\ wanted = Prefix(request[r].keys, Merged(select_load_plan(lookup_results(r))))
                        /\ reserve_write(wanted, wanted, "new")
      BY <2>3 DEF PrefetchPlan, l1_reserve_write
    <3>2. request[r].keys \in SUBSET Keys
      BY DEF ManagerTypeOK, RequestTypeOK, Prefetches
    <3>3. wanted \in SUBSET Keys /\ wanted \in SUBSET wanted
      BY <3>1, <3>2 DEF Prefix
    <3>4. QED BY <1>4, <3>1, <3>3
  <2>4. ASSUME NEW r \in Requests, PrefetchLoaded(r) PROVE L1Inv'
    BY <1>3, <1>5, <2>4 DEF PrefetchLoaded, l1_finish_write_and_reserve_read
  <2>5. ASSUME NEW r \in Requests, PrefetchFinishFailed(r) PROVE L1Inv'
    BY <1>2, <2>5 DEF PrefetchFinishFailed, l1_finish_write
  <2>6. ASSUME NEW r \in Requests, PrefetchDeleteFailed(r) PROVE L1Inv'
    BY <1>2, <2>6 DEF PrefetchDeleteFailed, l1_delete
  <2>7. ASSUME NEW r \in Requests, PrefetchRelease(r) PROVE L1Inv'
    BY <1>3, <1>5, <2>7 DEF PrefetchRelease, l1_finish_read
  <2>8. QED BY <1>10, <2>1, <2>2, <2>3, <2>4, <2>5, <2>6, <2>7 DEF PrefetchThread, PrefetchStep
<1>11. CASE AdapterThread
  BY <1>1, <1>11 DEF AdapterThread, AdapterStep, cache_vars
<1>12. CASE UNCHANGED vars
  BY <1>1, <1>12 DEF vars, cache_vars
<1>13. QED BY <1>6, <1>7, <1>8, <1>9, <1>10, <1>11, <1>12 DEF Next

----------------------------------------------------------------------------
(* Type correctness, thread by thread.                                      *)

\* The keys a reservation of absent keys has got a buffer for.
Got(keys) == {k \in keys \ Resident : memory_obj'[k] # NoObj}

\* A reservation of absent keys ("new") hands each of them a free buffer or
\* does nothing; no other key is touched.
LEMMA ReserveNew ==
    ASSUME L1Inv, NEW keys \in SUBSET Keys, NEW temporary,
           reserve_write(keys, temporary, "new")
    PROVE  /\ Got(keys) \in SUBSET Keys
           /\ \A k \in Got(keys) : /\ k \notin Resident /\ ~Locked(k)
                                  /\ memory_obj'[k] \in MemObjs \ allocated
                                  /\ write_lock'[k] = 1
           /\ \A k \in Keys \ Got(keys) : /\ memory_obj'[k] = memory_obj[k]
                                         /\ write_lock'[k] = write_lock[k]
           /\ read_lock' = read_lock
           /\ [k \in Got(keys) |-> memory_obj'[k]] \in Buffers
<1>0. PICK reserved : reserved = Got(keys)
  OBVIOUS
<1>1. reserve_write_existing(keys, "new") = {} /\ reserve_write_absent(keys, "new") = keys \ Resident
  BY DEF reserve_write_existing, reserve_write_absent
<1>2. \A k \in keys \ Resident : memory_obj[k] = NoObj /\ ~Locked(k) /\ write_lock[k] = 0
  BY DEF L1Inv, LocksOnResidentKeys, Resident, Locked, WriteLocked, ReadLocked, L1TypeOK
<1>3. CASE reserve_write_allocated(keys, temporary, "new")
  <2>1. PICK buf \in Injection(keys \ Resident, MemObjs \ allocated) :
            /\ memory_obj' = [k \in Keys |-> IF k \in keys \ Resident THEN buf[k] ELSE memory_obj[k]]
            /\ write_lock' = [k \in Keys |-> IF k \in {} \cup (keys \ Resident)
                                               THEN write_lock[k] + 1 ELSE write_lock[k]]
            /\ read_lock' = read_lock
    <3>1. PICK absent, existing : /\ absent = reserve_write_absent(keys, "new")
                                  /\ existing = reserve_write_existing(keys, "new")
      OBVIOUS
    <3>2. absent = keys \ Resident /\ existing = {}
      BY <1>1, <3>1
    <3>3. \E buf \in Injection(absent, MemObjs \ allocated) :
            /\ memory_obj' = [k \in Keys |-> IF k \in absent THEN buf[k] ELSE memory_obj[k]]
            /\ write_lock' = [k \in Keys |-> IF k \in existing \cup absent
                                               THEN write_lock[k] + 1 ELSE write_lock[k]]
            /\ read_lock' = read_lock
      BY <1>3, <3>1, Zenon DEF reserve_write_allocated
    <3>4. QED BY <3>2, <3>3
  <2>2. buf \in [keys \ Resident -> MemObjs \ allocated]
    BY DEF Injection
  <2>3. \A k \in keys \ Resident : memory_obj'[k] = buf[k] /\ buf[k] # NoObj /\ write_lock'[k] = 1
    BY <1>2, <2>1, <2>2, L1Assumption
  <2>4. reserved = keys \ Resident
    BY <1>0, <2>3 DEF Got
  <2>5. [k \in reserved |-> memory_obj'[k]] \in [reserved -> MemObjs]
    BY <2>2, <2>3, <2>4
  <2>6. QED BY <1>0, <1>2, <2>1, <2>2, <2>3, <2>4, <2>5, BuffersOf
<1>4. CASE reserve_write_oom(keys, "new")
  <2>1. /\ UNCHANGED <<memory_obj, read_lock>>
        /\ \A k \in Keys : write_lock'[k] = write_lock[k]
    BY <1>1, <1>4 DEF reserve_write_oom
  <2>2. reserved = {}
    BY <1>0, <1>2, <2>1 DEF Got
  <2>3. [k \in reserved |-> memory_obj'[k]] \in [{} -> MemObjs]
    BY <2>2
  <2>4. QED BY <1>0, <2>1, <2>2, <2>3, BuffersOf
<1>5. QED BY <1>3, <1>4 DEF reserve_write

\* A buffer just handed out holds garbage, the others what they held.
LEMMA FreshContentType ==
    ASSUME AdapterTypeOK, FreshBuffersUnwritten
    PROVE  content' \in [MemObjs -> Data]
  BY DEF AdapterTypeOK, FreshBuffersUnwritten, Data, Garbage

\* Nothing of the adapters or of the tasks changes.
AdaptersIdle == UNCHANGED <<l2_vars, targets>>

\* A step that leaves the adapters and their tasks alone keeps their types.
LEMMA IdleTypes ==
    ASSUME ManagerTypeOK, AdaptersIdle
    PROVE  AdapterTypeOK' /\ TaskTypeOK' /\ (targets \subseteq Adapters)'
  BY DEF ManagerTypeOK, AdapterTypeOK, TaskTypeOK, AdaptersIdle, l2_vars

\* The calls of the request handlers keep the types.
LEMMA ClientTypes ==
    ASSUME L1Inv, ManagerTypeOK, ClientStep
    PROVE  ManagerTypeOK'
<1> USE FirstRecords
<1>1. ASSUME NEW c \in Requests, NEW keys \in KeyLists, StoreBegin(c, keys)
      PROVE  ManagerTypeOK'
  <2>1. keys \in SUBSET Keys /\ reserve_write(keys, {}, "new")
    BY <1>1, ManagerAssumption DEF StoreBegin, l1_reserve_write
  <2>2. PICK reserved : reserved = {k \in keys \ Resident : memory_obj'[k] # NoObj}
    OBVIOUS
  <2>3. PICK objs : objs = [k \in reserved |-> memory_obj'[k]]
    OBVIOUS
  <2>4. reserved \in SUBSET Keys /\ objs \in Buffers
    <3>1. reserved = Got(keys)
      BY <2>2 DEF Got
    <3>2. QED BY <2>1, <2>3, <3>1, ReserveNew
  <2>5. client' = [client EXCEPT ![c] = [Idle EXCEPT !.op = "storing", !.held = reserved, !.objs = objs]]
    BY <1>1, <2>2, <2>3 DEF StoreBegin, Becomes
  <2>6. [Idle EXCEPT !.op = "storing", !.held = reserved, !.objs = objs] \in Clients
    BY <2>4 DEF Clients, ClientOps
  <2>7. (client \in [Requests -> Clients])'
    BY <2>5, <2>6 DEF ManagerTypeOK
  <2>8. AdapterTypeOK'
    BY <1>1, FreshContentType DEF StoreBegin, l2_store_vars, ManagerTypeOK, AdapterTypeOK
  <2>9. TaskTypeOK' /\ RequestTypeOK' /\ (targets \subseteq Adapters)'
    BY <1>1 DEF StoreBegin, l2_store_vars, prefetch_vars, store_vars, ManagerTypeOK, TaskTypeOK, RequestTypeOK
  <2>10. QED BY <2>7, <2>8, <2>9 DEF ManagerTypeOK
<1>2. ASSUME NEW c \in Requests, NEW keys \in KeyLists, LookupBegin(c, keys)
      PROVE  ManagerTypeOK'
  <2>1. keys \in SUBSET Keys
    BY ManagerAssumption
  <2>2. PICK found : found = reserve_read_done(keys)
    OBVIOUS
  <2>3. PICK hits : hits = Prefix(keys, found)
    OBVIOUS
  <2>4. client' = [client EXCEPT ![c] = [Idle EXCEPT !.op = "looking", !.keys = keys,
                                            !.held = hits, !.skipped = found \ hits]]
    BY <1>2, <2>2, <2>3 DEF LookupBegin, Becomes
  <2>5. hits \subseteq keys /\ found \subseteq keys
    BY <2>2, <2>3 DEF Prefix, reserve_read_done
  <2>6. [Idle EXCEPT !.op = "looking", !.keys = keys, !.held = hits, !.skipped = found \ hits] \in Clients
    BY <2>1, <2>5 DEF Clients, ClientOps
  <2>7. (client \in [Requests -> Clients])'
    BY <2>4, <2>6 DEF ManagerTypeOK
  <2>8. AdaptersIdle /\ UNCHANGED prefetch_vars
    BY <1>2 DEF LookupBegin, AdaptersIdle, store_vars
  <2>9. QED BY <2>7, <2>8, IdleTypes DEF ManagerTypeOK, RequestTypeOK, prefetch_vars
<1>3. ASSUME NEW c \in Requests, StoreEnd(c) PROVE ManagerTypeOK'
  <2>1. client[c] \in Clients
    BY DEF ManagerTypeOK
  <2>2. content' \in [MemObjs -> Data]
    <3>0. PICK held, objs : held = client[c].held /\ objs = client[c].objs
      OBVIOUS
    <3>1. content' = [b \in MemObjs |-> IF \E k \in held : objs[k] = b
                                        THEN CHOOSE k \in held : objs[k] = b ELSE content[b]]
      BY <1>3, <3>0, Zenon DEF StoreEnd
    <3>2. held \subseteq Keys
      BY <2>1, <3>0 DEF Clients
    <3>3. \A b \in MemObjs : (\E k \in held : objs[k] = b) => (CHOOSE k \in held : objs[k] = b) \in held
      OBVIOUS
    <3>4. \A b \in MemObjs : content[b] \in Data
      BY DEF ManagerTypeOK, AdapterTypeOK
    <3>5. \A b \in MemObjs : (IF \E k \in held : objs[k] = b
                                THEN CHOOSE k \in held : objs[k] = b ELSE content[b]) \in Data
      BY <3>2, <3>3, <3>4 DEF Data
    <3>6. QED BY <3>1, <3>5
  <2>3. AdapterTypeOK' /\ TaskTypeOK' /\ RequestTypeOK' /\ (targets \subseteq Adapters)'
    BY <1>3, <2>2 DEF StoreEnd, l2_store_vars, prefetch_vars, store_vars, ManagerTypeOK, AdapterTypeOK,
                      TaskTypeOK, RequestTypeOK
  <2>4. (client \in [Requests -> Clients])'
    BY <1>3 DEF StoreEnd, Becomes, ManagerTypeOK
  <2>5. QED BY <2>3, <2>4 DEF ManagerTypeOK
<1>4. ASSUME NEW c \in Requests, LookupSubmit(c) PROVE ManagerTypeOK'
  <2>1. client[c] \in Clients
    BY DEF ManagerTypeOK
  <2>2. (client \in [Requests -> Clients])'
    <3>1. client' = [client EXCEPT ![c] = [client[c] EXCEPT !.op = "waiting", !.skipped = {}]]
      BY <1>4 DEF LookupSubmit, Becomes
    <3>2. [client[c] EXCEPT !.op = "waiting", !.skipped = {}] \in Clients
      BY <2>1 DEF Clients, ClientOps
    <3>3. QED BY <3>1, <3>2 DEF ManagerTypeOK
  <2>3. RequestTypeOK'
    <3>1. CASE UNCHANGED prefetch_vars
      BY <3>1 DEF ManagerTypeOK, RequestTypeOK, prefetch_vars
    <3>2. CASE submit_prefetch_request(c, client[c].keys \ client[c].held)
      <4>1. client[c].keys \ client[c].held \in SUBSET Keys
        BY <2>1 DEF Clients
      <4>2. [NoRequest EXCEPT !.phase = "queued", !.keys = client[c].keys \ client[c].held] \in Prefetches
        BY <4>1 DEF Prefetches, Phases
      <4>3. QED BY <3>2, <4>2 DEF submit_prefetch_request, ManagerTypeOK, RequestTypeOK
    <3>3. QED BY <1>4, <3>1, <3>2 DEF LookupSubmit
  <2>4. AdaptersIdle
    BY <1>4 DEF LookupSubmit, AdaptersIdle, store_vars
  <2>5. QED BY <2>2, <2>3, <2>4, IdleTypes DEF ManagerTypeOK
<1>5. ASSUME NEW c \in Requests, Poll(c) PROVE ManagerTypeOK'
  <2>1. client[c] \in Clients /\ request[c] \in Prefetches
    BY DEF ManagerTypeOK, RequestTypeOK
  <2>2. (client \in [Requests -> Clients])'
    <3>1. PICK hits : /\ hits = client[c].held \cup prefix_hits(c)
                      /\ client' = [client EXCEPT ![c] = IF hits = {} THEN Idle
                            ELSE [Idle EXCEPT !.op = "ready", !.held = hits, !.left = NumWorkers]]
      BY <1>5 DEF Poll, Becomes
    <3>2. hits \subseteq Keys
      BY <2>1, <3>1 DEF prefix_hits, Prefix, Clients, Prefetches
    <3>3. [Idle EXCEPT !.op = "ready", !.held = hits, !.left = NumWorkers] \in Clients
      BY <3>2, PrefetchAssumption DEF Clients, ClientOps
    <3>4. QED BY <3>1, <3>3 DEF ManagerTypeOK
  <2>3. RequestTypeOK'
    BY <1>5 DEF Poll, ManagerTypeOK, RequestTypeOK
  <2>4. AdaptersIdle
    BY <1>5 DEF Poll, AdaptersIdle, store_vars
  <2>5. QED BY <2>2, <2>3, <2>4, IdleTypes DEF ManagerTypeOK
<1>6. ASSUME NEW c \in Requests, Retrieve(c) \/ RetrieveDone(c) \/ FreeLookupLocks(c)
      PROVE  ManagerTypeOK'
  <2>1. client[c] \in Clients
    BY DEF ManagerTypeOK
  <2>2. AdaptersIdle /\ UNCHANGED prefetch_vars
    BY <1>6 DEF Retrieve, RetrieveDone, FreeLookupLocks, AdaptersIdle, store_vars
  <2>3. \E state \in Clients : client' = [client EXCEPT ![c] = state]
    <3>1. CASE Retrieve(c)
      <4>1. client[c].left > 0
        BY <3>1 DEF Retrieve
      <4>2. /\ [client[c] EXCEPT !.left = @ - 1, !.reading = @ + 1] \in Clients
            /\ [client[c] EXCEPT !.left = @ - 1] \in Clients
        <5>1. client[c].left - 1 \in Nat /\ client[c].reading + 1 \in Nat
          BY <2>1, <4>1 DEF Clients
        <5>2. QED BY <2>1, <5>1 DEF Clients
      <4>3. Settled([client[c] EXCEPT !.left = @ - 1]) \in Clients
        BY <4>2 DEF Settled
      <4>4. QED BY <3>1, <4>2, <4>3 DEF Retrieve, Becomes
    <3>2. CASE RetrieveDone(c)
      <4>1. [client[c] EXCEPT !.reading = @ - 1] \in Clients
        BY <2>1, <3>2 DEF Clients, RetrieveDone
      <4>2. Settled([client[c] EXCEPT !.reading = @ - 1]) \in Clients
        BY <4>1 DEF Settled
      <4>3. QED BY <3>2, <4>2 DEF RetrieveDone, Becomes
    <3>3. CASE FreeLookupLocks(c)
      <4>1. \A keys : [client[c] EXCEPT !.held = @ \ keys] \in Clients
        BY <2>1 DEF Clients
      <4>2. QED BY <3>3, <4>1 DEF FreeLookupLocks, Becomes
    <3>4. QED BY <1>6, <3>1, <3>2, <3>3
  <2>4. (client \in [Requests -> Clients])'
    BY <2>3 DEF ManagerTypeOK
  <2>5. QED BY <2>2, <2>4, IdleTypes DEF ManagerTypeOK, RequestTypeOK, prefetch_vars
<1>7. QED BY <1>1, <1>2, <1>3, <1>4, <1>5, <1>6 DEF ClientStep

\* The least element of a set of natural numbers.
LEMMA MinIn ==
    ASSUME NEW S, \A x \in S : x \in Nat, S # {}
    PROVE  Min(S) \in S /\ \A x \in S : Min(S) <= x
<1>1. PICK m \in S : \A n \in S : m <= n
  BY LeastNat
<1>2. QED BY <1>1 DEF Min

\* The store controller's thread keeps the types.
LEMMA StoreTypes ==
    ASSUME L1Inv, ManagerTypeOK, StoreThread
    PROVE  ManagerTypeOK'
<1>1. RequestTypeOK' /\ (client \in [Requests -> Clients])'
  BY DEF StoreThread, prefetch_vars, ManagerTypeOK, RequestTypeOK
<1>2. CASE StorePopKeys
  BY <1>1, <1>2 DEF StorePopKeys, l2_vars, ManagerTypeOK, AdapterTypeOK, TaskTypeOK
<1>3. CASE StoreSubmit
  <2>1. PICK a, keys : a = Min(targets) /\ keys = reserve_read_done(batch)
    OBVIOUS
  <2>2. a \in Adapters
    BY <1>3, <2>1, MinIn, L2Assumption DEF StoreSubmit, ManagerTypeOK
  <2>3. keys \in SUBSET Keys /\ [k \in keys |-> memory_obj[k]] \in Buffers
    <3>1. keys \subseteq Resident
      BY <2>1 DEF reserve_read_done
    <3>2. [k \in keys |-> memory_obj[k]] \in [keys -> MemObjs] /\ keys \in SUBSET Keys
      BY <3>1 DEF Resident, L1Inv, L1TypeOK
    <3>3. QED BY <3>2, BuffersOf
  <2>4. /\ UNCHANGED <<content, l2_objects, l2_queue, l2_locked, l2_unlocks, lookup_task, load_task>>
        /\ targets' \subseteq targets
        /\ \/ UNCHANGED store_task
           \/ \E s \in StoreTasks : store_task' = [store_task EXCEPT ![s] =
                  [status |-> "submitted", adapter |-> a, keys |-> keys,
                   objs |-> [k \in keys |-> memory_obj[k]], ok |-> FALSE]]
    BY <1>3, <2>1 DEF StoreSubmit, submit_store_task
  <2>5. [status |-> "submitted", adapter |-> a, keys |-> keys,
         objs |-> [k \in keys |-> memory_obj[k]], ok |-> FALSE] \in StoreTaskSet
    BY <2>2, <2>3 DEF StoreTaskSet, Statuses
  <2>6. store_task' \in [StoreTasks -> StoreTaskSet]
    BY <2>4, <2>5 DEF ManagerTypeOK, TaskTypeOK
  <2>7. QED BY <1>1, <2>4, <2>6 DEF ManagerTypeOK, AdapterTypeOK, TaskTypeOK
<1>4. ASSUME NEW s \in StoreTasks, StoreComplete(s) PROVE ManagerTypeOK'
  BY <1>1, <1>4, FirstRecords DEF StoreComplete, ManagerTypeOK, AdapterTypeOK, TaskTypeOK
<1>5. CASE StoreDelete
  BY <1>1, <1>5 DEF StoreDelete, l2_vars, ManagerTypeOK, AdapterTypeOK, TaskTypeOK
<1>6. QED BY <1>2, <1>3, <1>4, <1>5 DEF StoreThread, StoreStep

\* The phase that follows is one of the phases, and nothing else changes.
LEMMA AfterLoadFields ==
    ASSUME NEW req \in Prefetches
    PROVE  /\ AfterLoad(req) \in Prefetches
           /\ AfterLoad(req).phase =
                IF req.reserved \ req.loaded # {} /\ req.phase = "load" THEN "finish_failed"
                ELSE IF req.loaded \ Prefix(req.keys, req.loaded) # {} THEN "release"
                ELSE "done"
           /\ AfterLoad(req).phase \in {"finish_failed", "release", "done"}
           /\ AfterLoad(req).keys = req.keys /\ AfterLoad(req).plan = req.plan
           /\ AfterLoad(req).reserved = req.reserved /\ AfterLoad(req).loaded = req.loaded
<1>1. PICK phase : phase = IF req.reserved \ req.loaded # {} /\ req.phase = "load" THEN "finish_failed"
                             ELSE IF req.loaded \ Prefix(req.keys, req.loaded) # {} THEN "release"
                             ELSE "done"
  OBVIOUS
<1>2. AfterLoad(req) = [req EXCEPT !.phase = phase]
  BY <1>1 DEF AfterLoad
<1>3. phase \in {"finish_failed", "release", "done"}
  BY <1>1
<1>4. QED BY <1>1, <1>2, <1>3 DEF Prefetches, Phases

\* Unlocks wait in counters.
LEMMA UnlockType ==
    ASSUME AdapterTypeOK, NEW keys, submit_unlock(keys)
    PROVE  l2_unlocks' \in [Adapters -> [Keys -> Nat]]
  BY DEF AdapterTypeOK, submit_unlock

\* A plan takes from an adapter what it reported, and what could be reserved.
LEMMA PlanSubset ==
    ASSUME ManagerTypeOK, NEW r \in Requests, NEW plan, NEW trimmed, NEW reserved, NEW keys,
           plan = select_load_plan(lookup_results(r)),
           trimmed = trim_load_plan(plan, keys, reserved)
    PROVE  /\ trimmed \in [Adapters -> SUBSET Keys]
           /\ \A a \in Adapters : /\ trimmed[a] \subseteq lookup_task[r][a].ok
                                  /\ trimmed[a] \subseteq reserved
           /\ Merged(trimmed) \subseteq reserved
<1>1. \A a \in Adapters : lookup_task[r][a].ok \in SUBSET Keys
  BY DEF ManagerTypeOK, TaskTypeOK, Tasks
<1>2. \A a \in Adapters : plan[a] \subseteq lookup_task[r][a].ok
  BY DEF select_load_plan, lookup_results
<1>3. \A a \in Adapters : trimmed[a] = plan[a] \cap Prefix(keys, reserved)
  BY DEF trim_load_plan
<1>4. \A a \in Adapters : plan[a] \subseteq Keys
  BY <1>1, <1>2
<1>5. \A a \in Adapters : \A k \in trimmed[a] : k \in Keys /\ k \in Nat /\ k \in reserved
  <2>1. SUFFICES ASSUME NEW a \in Adapters, NEW k \in trimmed[a]
                 PROVE  k \in Keys /\ k \in Nat /\ k \in reserved
    OBVIOUS
  <2>2. k \in Keys /\ k \in Prefix(keys, reserved)
    BY <1>3, <1>4
  <2>3. k \in Nat
    BY <2>2, CacheAssumption
  <2>4. k <= k
    BY <2>3
  <2>5. QED BY <2>2, <2>3, <2>4 DEF Prefix
<1>6. trimmed \in [Adapters -> SUBSET Keys]
  BY <1>5 DEF trim_load_plan
<1>7. QED BY <1>2, <1>3, <1>5, <1>6 DEF Merged

\* The prefetch controller's thread keeps the types.
LEMMA PrefetchTypes ==
    ASSUME L1Inv, ManagerTypeOK, PrefetchThread
    PROVE  ManagerTypeOK'
<1>1. (client \in [Requests -> Clients])' /\ (targets \subseteq Adapters)'
  BY DEF PrefetchThread, store_vars, ManagerTypeOK
<1>2. CASE PrefetchStart
  <2>1. PICK r : r = Head(queue)
    OBVIOUS
  <2>2. r \in Requests /\ Tail(queue) \in Seq(Requests)
    BY <1>2, <2>1 DEF PrefetchStart, ManagerTypeOK, RequestTypeOK
  <2>3. request[r] \in Prefetches
    BY <2>2 DEF ManagerTypeOK, RequestTypeOK
  <2>4. /\ request' = [request EXCEPT ![r] = [request[r] EXCEPT !.phase = "lookup"]]
        /\ lookup_task' = [lookup_task EXCEPT ![r] = [a \in Adapters |-> Submitted(request[r].keys, <<>>)]]
        /\ queue' = Tail(queue)
        /\ UNCHANGED <<content, l2_objects, l2_queue, store_task, l2_locked, l2_unlocks, load_task>>
    BY <1>2, <2>1 DEF PrefetchStart, submit_lookup_and_lock_task, l2_store_vars
  <2>5. [request[r] EXCEPT !.phase = "lookup"] \in Prefetches
    BY <2>3 DEF Prefetches, Phases
  <2>6. Submitted(request[r].keys, <<>>) \in Tasks
    BY <2>3, EmptyBuffers DEF Prefetches, Submitted, Tasks, Statuses
  <2>7. lookup_task' \in [Requests -> [Adapters -> Tasks]]
    BY <2>2, <2>4, <2>6 DEF ManagerTypeOK, TaskTypeOK
  <2>8. RequestTypeOK'
    BY <2>2, <2>4, <2>5 DEF ManagerTypeOK, RequestTypeOK
  <2>9. QED BY <1>1, <2>4, <2>7, <2>8 DEF ManagerTypeOK, AdapterTypeOK, TaskTypeOK
<1>3. ASSUME NEW r \in Requests, PrefetchNothingFound(r) PROVE ManagerTypeOK'
  <2>1. l2_unlocks' \in [Adapters -> [Keys -> Nat]]
    BY <1>3, UnlockType DEF PrefetchNothingFound, ManagerTypeOK
  <2>2. lookup_task' \in [Requests -> [Adapters -> Tasks]]
    BY <1>3, FirstRecords DEF PrefetchNothingFound, LookupsCollected, ManagerTypeOK, TaskTypeOK
  <2>3. RequestTypeOK'
    <3>1. request' = [request EXCEPT ![r] = [request[r] EXCEPT !.phase = "done"]] /\ queue' = queue
      BY <1>3 DEF PrefetchNothingFound
    <3>2. [request[r] EXCEPT !.phase = "done"] \in Prefetches
      BY DEF ManagerTypeOK, RequestTypeOK, Prefetches, Phases
    <3>3. QED BY <3>1, <3>2 DEF ManagerTypeOK, RequestTypeOK
  <2>4. QED BY <1>1, <1>3, <2>1, <2>2, <2>3 DEF PrefetchNothingFound, ManagerTypeOK, AdapterTypeOK,
                                                TaskTypeOK, l2_store_vars
<1>4. ASSUME NEW r \in Requests, PrefetchPlan(r) PROVE ManagerTypeOK'
  <2>1. PICK plan, keys : plan = select_load_plan(lookup_results(r)) /\ keys = request[r].keys
    OBVIOUS
  <2>2. PICK wanted : wanted = Prefix(keys, Merged(plan))
    OBVIOUS
  <2>3. PICK reserved : reserved = {k \in wanted \ Resident : memory_obj'[k] # NoObj}
    OBVIOUS
  <2>4. PICK trimmed : trimmed = trim_load_plan(plan, keys, reserved)
    OBVIOUS
  <2>5. PICK req : req = [request[r] EXCEPT !.phase = "load", !.plan = trimmed, !.reserved = reserved]
    OBVIOUS
  <2>6. /\ reserve_write(wanted, wanted, "new") /\ FreshBuffersUnwritten
        /\ submit_unlock([a \in Adapters |-> lookup_results(r)[a] \ trimmed[a]])
        /\ submit_load_tasks(r, trimmed)
        /\ request' = [request EXCEPT ![r] = IF Merged(trimmed) = {} THEN AfterLoad(req) ELSE req]
        /\ LookupsCollected(r)
        /\ UNCHANGED <<l2_objects, l2_queue, store_task, l2_locked, queue>>
    BY <1>4, <2>1, <2>2, <2>3, <2>4, <2>5 DEF PrefetchPlan, l1_reserve_write, l2_store_vars
  <2>7. request[r] \in Prefetches
    BY DEF ManagerTypeOK, RequestTypeOK
  <2>8. wanted \in SUBSET Keys
    BY <2>1, <2>2, <2>7 DEF Prefix, Prefetches
  <2>9. reserved \in SUBSET Keys /\ \A k \in reserved : memory_obj'[k] \in MemObjs
    <3>1. reserved = Got(wanted)
      BY <2>3 DEF Got
    <3>2. QED BY <2>6, <2>8, <3>1, ReserveNew
  <2>10. trimmed \in [Adapters -> SUBSET Keys] /\ \A a \in Adapters : trimmed[a] \subseteq reserved
    BY <2>1, <2>4, PlanSubset
  <2>11. req \in Prefetches
    BY <2>5, <2>7, <2>9, <2>10 DEF Prefetches, Phases
  <2>12. RequestTypeOK'
    <3>1. (IF Merged(trimmed) = {} THEN AfterLoad(req) ELSE req) \in Prefetches
      BY <2>11, AfterLoadFields
    <3>2. QED BY <2>6, <3>1 DEF ManagerTypeOK, RequestTypeOK
  <2>13. l2_unlocks' \in [Adapters -> [Keys -> Nat]]
    BY <2>6, UnlockType DEF ManagerTypeOK
  <2>14. lookup_task' \in [Requests -> [Adapters -> Tasks]]
    BY <2>6, FirstRecords DEF LookupsCollected, ManagerTypeOK, TaskTypeOK
  <2>15. load_task' \in [Requests -> [Adapters -> Tasks]]
    <3>1. \A a \in Adapters : [k \in trimmed[a] |-> memory_obj'[k]] \in Buffers /\ trimmed[a] \in SUBSET Keys
      <4>1. SUFFICES ASSUME NEW a \in Adapters
                     PROVE  [k \in trimmed[a] |-> memory_obj'[k]] \in Buffers /\ trimmed[a] \in SUBSET Keys
        OBVIOUS
      <4>2. [k \in trimmed[a] |-> memory_obj'[k]] \in [trimmed[a] -> MemObjs] /\ trimmed[a] \in SUBSET Keys
        BY <2>9, <2>10
      <4>3. QED BY <4>2, BuffersOf
    <3>2. \A a \in Adapters : Submitted(trimmed[a], [k \in trimmed[a] |-> memory_obj'[k]]) \in Tasks
      BY <3>1 DEF Submitted, Tasks, Statuses
    <3>3. QED BY <2>6, <3>2, FirstRecords DEF submit_load_tasks, ManagerTypeOK, TaskTypeOK
  <2>16. content' \in [MemObjs -> Data]
    BY <2>6, FreshContentType DEF ManagerTypeOK
  <2>17. QED BY <1>1, <2>6, <2>12, <2>13, <2>14, <2>15, <2>16 DEF ManagerTypeOK, AdapterTypeOK, TaskTypeOK
<1>5. ASSUME NEW r \in Requests, PrefetchLoaded(r) PROVE ManagerTypeOK'
  <2>1. PICK loaded : loaded = UNION {load_task[r][a].ok : a \in Adapters}
    OBVIOUS
  <2>2. loaded \in SUBSET Keys
    <3>1. \A a \in Adapters : load_task[r][a].ok \in SUBSET Keys
      BY DEF ManagerTypeOK, TaskTypeOK, Tasks
    <3>2. QED BY <2>1, <3>1
  <2>3. [request[r] EXCEPT !.loaded = loaded] \in Prefetches
    BY <2>2 DEF ManagerTypeOK, RequestTypeOK, Prefetches
  <2>4. RequestTypeOK'
    <3>1. request' = [request EXCEPT ![r] = AfterLoad([request[r] EXCEPT !.loaded = loaded])] /\ queue' = queue
      BY <1>5, <2>1 DEF PrefetchLoaded
    <3>2. AfterLoad([request[r] EXCEPT !.loaded = loaded]) \in Prefetches
      BY <2>3, AfterLoadFields
    <3>3. QED BY <3>1, <3>2 DEF ManagerTypeOK, RequestTypeOK
  <2>5. l2_unlocks' \in [Adapters -> [Keys -> Nat]]
    BY <1>5, UnlockType DEF PrefetchLoaded, ManagerTypeOK
  <2>6. load_task' \in [Requests -> [Adapters -> Tasks]]
    BY <1>5, FirstRecords DEF PrefetchLoaded, ManagerTypeOK, TaskTypeOK
  <2>7. QED BY <1>1, <1>5, <2>4, <2>5, <2>6 DEF PrefetchLoaded, ManagerTypeOK, AdapterTypeOK, TaskTypeOK,
                                                l2_store_vars
<1>6. ASSUME NEW r \in Requests,
             PrefetchFinishFailed(r) \/ PrefetchDeleteFailed(r) \/ PrefetchRelease(r)
      PROVE  ManagerTypeOK'
  <2>1. UNCHANGED l2_vars /\ queue' = queue
    BY <1>6 DEF PrefetchFinishFailed, PrefetchDeleteFailed, PrefetchRelease
  <2>2. request[r] \in Prefetches
    BY DEF ManagerTypeOK, RequestTypeOK
  <2>3. /\ [request[r] EXCEPT !.phase = "delete_failed"] \in Prefetches
        /\ [request[r] EXCEPT !.phase = "done"] \in Prefetches
        /\ AfterLoad(request[r]) \in Prefetches
    BY <2>2, AfterLoadFields DEF Prefetches, Phases
  <2>4. \E req \in Prefetches : request' = [request EXCEPT ![r] = req]
    BY <1>6, <2>3 DEF PrefetchFinishFailed, PrefetchDeleteFailed, PrefetchRelease
  <2>5. RequestTypeOK'
    BY <2>1, <2>4 DEF ManagerTypeOK, RequestTypeOK
  <2>6. QED BY <1>1, <2>1, <2>5 DEF l2_vars, ManagerTypeOK, AdapterTypeOK, TaskTypeOK
<1>7. QED BY <1>2, <1>3, <1>4, <1>5, <1>6 DEF PrefetchThread, PrefetchStep

\* What the loop of the store task works on: the objects and the queue of the
\* adapter; the keys that a lookup has locked stay where they are.
Shelves(a) ==
    {st \in [objects : [Keys -> Data \cup {Absent}], queue : Seq(Keys), ok : BOOLEAN] :
        \A k \in Keys : l2_locked[a][k] # 0 /\ l2_objects[a][k] # Absent => st.objects[k] # Absent}

\* Every store keeps the shelves in order.
LEMMA StoreOneShelves ==
    ASSUME ManagerTypeOK, NEW a \in Adapters, NEW keys \in SUBSET Keys, NEW objs \in [keys -> MemObjs],
           NEW st \in Shelves(a), NEW k \in keys
    PROVE  StoreOne(a, objs, st, k) \in Shelves(a)
<1>1. PICK data : data = content[objs[k]]
  OBVIOUS
<1>2. data \in Data /\ data # Absent /\ k \in Keys
  <2>1. data \in Data
    BY <1>1 DEF ManagerTypeOK, AdapterTypeOK
  <2>2. QED BY <2>1, CacheAssumption DEF Data, Garbage, Absent
<1>3. PICK I, victim : /\ I = {i \in 1..Len(st.queue) : l2_locked[a][st.queue[i]] = 0}
                       /\ victim = IF I # {} THEN Min(I) ELSE 0
  OBVIOUS
<1>4. st.queue \in Seq(Keys) /\ st.objects \in [Keys -> Data \cup {Absent}] /\ st.ok \in BOOLEAN
  BY DEF Shelves
<1>5. victim \in Nat /\ (victim # 0 => victim \in 1..Len(st.queue) /\ l2_locked[a][st.queue[victim]] = 0)
  <2>1. \A i \in I : i \in Nat /\ i \in 1..Len(st.queue) /\ l2_locked[a][st.queue[i]] = 0
    BY <1>3, <1>4, LenProperties
  <2>2. I # {} => Min(I) \in I
    BY <2>1, MinIn
  <2>3. QED BY <1>3, <2>1, <2>2
<1>6. CASE ~st.ok \/ st.objects[k] # Absent
  <2>1. StoreOne(a, objs, st, k) = st
    BY <1>6 DEF StoreOne, SelectInSeq
  <2>2. QED BY <2>1
<1>7. ASSUME ~(~st.ok \/ st.objects[k] # Absent), Len(st.queue) < L2Capacity
      PROVE  StoreOne(a, objs, st, k) \in Shelves(a)
  <2>1. StoreOne(a, objs, st, k) = [objects |-> [st.objects EXCEPT ![k] = data],
                                    queue |-> Append(st.queue, k), ok |-> TRUE]
    BY <1>1, <1>7 DEF StoreOne, SelectInSeq
  <2>2. QED BY <1>2, <1>4, <2>1 DEF Shelves
<1>8. ASSUME ~(~st.ok \/ st.objects[k] # Absent), ~(Len(st.queue) < L2Capacity), victim = 0
      PROVE  StoreOne(a, objs, st, k) \in Shelves(a)
  <2>1. StoreOne(a, objs, st, k) = [st EXCEPT !.ok = FALSE]
    BY <1>3, <1>8 DEF StoreOne, SelectInSeq
  <2>2. QED BY <1>4, <2>1 DEF Shelves
<1>9. ASSUME ~(~st.ok \/ st.objects[k] # Absent), ~(Len(st.queue) < L2Capacity), victim # 0
      PROVE  StoreOne(a, objs, st, k) \in Shelves(a)
  <2>1. PICK rest, without :
           /\ rest = SubSeq(st.queue, victim + 1, Len(st.queue)) \o SubSeq(st.queue, 1, victim - 1)
           /\ without = [st.objects EXCEPT ![st.queue[victim]] = Absent]
    OBVIOUS
  <2>2. StoreOne(a, objs, st, k) = [objects |-> [without EXCEPT ![k] = data],
                                    queue |-> Append(rest, k), ok |-> TRUE]
    BY <1>1, <1>3, <1>9, <2>1 DEF StoreOne, SelectInSeq
  <2>3. rest \in Seq(Keys)
    BY <1>4, <1>5, <1>9, <2>1, SubSeqProperties, ConcatProperties
  <2>4. without \in [Keys -> Data \cup {Absent}]
    BY <1>4, <2>1
  <2>5. \A j \in Keys : l2_locked[a][j] # 0 /\ l2_objects[a][j] # Absent => without[j] # Absent
    BY <1>4, <1>5, <1>9, <2>1 DEF Shelves
  <2>6. QED BY <1>2, <2>2, <2>3, <2>4, <2>5 DEF Shelves
<1>10. QED BY <1>6, <1>7, <1>8, <1>9

\* The outcome of a store task: the other adapters are left alone, and so are
\* the objects of this one that a lookup has locked.
LEMMA StoreOutcome ==
    ASSUME ManagerTypeOK, NEW s \in StoreTasks, ExecuteStore(s),
           store_task[s].adapter \in Adapters, DOMAIN store_task[s].objs = store_task[s].keys
    PROVE  /\ l2_objects' \in [Adapters -> [Keys -> Data \cup {Absent}]]
           /\ l2_queue' \in [Adapters -> Seq(Keys)]
           /\ store_task' \in [StoreTasks -> StoreTaskSet]
           /\ \A b \in Adapters, k \in Keys :
                 l2_locked[b][k] # 0 /\ l2_objects[b][k] # Absent => l2_objects'[b][k] # Absent
<1> USE DEF ManagerTypeOK
<1>1. PICK a, keys, objs : a = store_task[s].adapter /\ keys = store_task[s].keys /\ objs = store_task[s].objs
  OBVIOUS
<1>2. store_task[s] \in StoreTaskSet /\ a \in Adapters /\ keys \in SUBSET Keys /\ objs \in Buffers
  BY <1>1 DEF TaskTypeOK, StoreTaskSet
<1>3. objs \in [keys -> MemObjs]
  BY <1>1, <1>2 DEF Buffers
<1>4. PICK st0 : st0 = [objects |-> l2_objects[a], queue |-> l2_queue[a], ok |-> TRUE]
  OBVIOUS
<1>5. PICK result : result = StoreAll(a, objs, keys, st0)
  OBVIOUS
<1>6. result \in Shelves(a)
  <2>1. st0 \in Shelves(a)
    BY <1>2, <1>4 DEF Shelves, AdapterTypeOK
  <2>2. \A st \in Shelves(a), k \in keys : StoreOne(a, objs, st, k) \in Shelves(a)
    BY <1>2, <1>3, StoreOneShelves
  <2>3. IsFiniteSet(keys) /\ \A k \in keys : k \in Nat
    BY <1>2, CacheAssumption, FS_Subset
  <2>4. QED BY <1>5, <2>1, <2>2, <2>3, StoreAllKeeps
<1>7. CASE /\ l2_objects' = [l2_objects EXCEPT ![a] = result.objects]
           /\ l2_queue' = [l2_queue EXCEPT ![a] = result.queue]
           /\ store_task' = [store_task EXCEPT ![s] = [store_task[s] EXCEPT !.status = "done", !.ok = result.ok]]
  <2>1. result.objects \in [Keys -> Data \cup {Absent}] /\ result.queue \in Seq(Keys) /\ result.ok \in BOOLEAN
    BY <1>6 DEF Shelves
  <2>2. [store_task[s] EXCEPT !.status = "done", !.ok = result.ok] \in StoreTaskSet
    BY <1>2, <2>1 DEF StoreTaskSet, Statuses
  <2>3. \A b \in Adapters, k \in Keys :
                 l2_locked[b][k] # 0 /\ l2_objects[b][k] # Absent => l2_objects'[b][k] # Absent
    BY <1>2, <1>6, <1>7 DEF Shelves, AdapterTypeOK
  <2>4. QED BY <1>2, <1>7, <2>1, <2>2, <2>3 DEF AdapterTypeOK, TaskTypeOK
<1>8. CASE /\ store_task' = [store_task EXCEPT ![s] = [store_task[s] EXCEPT !.status = "done"]]
           /\ UNCHANGED <<l2_objects, l2_queue>>
  <2>1. [store_task[s] EXCEPT !.status = "done"] \in StoreTaskSet
    BY <1>2 DEF StoreTaskSet, Statuses
  <2>2. QED BY <1>8, <2>1 DEF AdapterTypeOK, TaskTypeOK
<1>9. QED
  <2>1. \/ /\ l2_objects' = [l2_objects EXCEPT ![a] = result.objects]
           /\ l2_queue' = [l2_queue EXCEPT ![a] = result.queue]
           /\ store_task' = [store_task EXCEPT ![s].status = "done", ![s].ok = result.ok]
        \/ /\ store_task' = [store_task EXCEPT ![s].status = "done"]
           /\ UNCHANGED <<l2_objects, l2_queue>>
    BY <1>1, <1>4, <1>5 DEF ExecuteStore
  <2>2. QED BY <1>2, <1>7, <1>8, <2>1 DEF TaskTypeOK

----------------------------------------------------------------------------
(* The protocol between the threads: what the phases of the requests, the   *)
(* tasks and the clients say about each other.                              *)

\* A store task carries an adapter from its submission on, and a buffer for every
\* key it holds.
StoreTasksOK ==
    \A s \in StoreTasks :
        IF store_task[s].status = "none" THEN store_task[s].keys = {}
        ELSE store_task[s].adapter \in Adapters /\ DOMAIN store_task[s].objs = store_task[s].keys

\* Lookups and loads run only in the phase that waits for them, and answer with keys
\* they were asked for.
TasksOK ==
    /\ StoreTasksOK
    /\ \A r \in Requests, a \in Adapters :
        /\ lookup_task[r][a].status # "none" => request[r].phase = "lookup"
        /\ lookup_task[r][a].status # "done" => lookup_task[r][a].ok = {}
        /\ load_task[r][a].status # "none" => /\ request[r].phase = "load"
                                              /\ load_task[r][a].keys = request[r].plan[a]
                                              /\ DOMAIN load_task[r][a].objs = load_task[r][a].keys
        /\ load_task[r][a].status # "done" => load_task[r][a].ok = {}
        /\ load_task[r][a].ok \subseteq load_task[r][a].keys

\* A prefetch is alive exactly while its client may wait for it; it loads and plans
\* no key it did not reserve.
RequestsOK ==
    \A r \in Requests :
        /\ request[r].phase # "none" => client[r].op = "waiting"
        /\ request[r].phase = "none" => request[r] = NoRequest
        /\ request[r].phase \in {"queued", "lookup", "load"} => request[r].loaded = {}
        /\ request[r].loaded \subseteq request[r].reserved
        /\ request[r].reserved \subseteq request[r].keys
        /\ \A a \in Adapters : request[r].plan[a] \subseteq request[r].reserved
        /\ request[r].keys \cap client[r].held = {}

\* The queue holds requests that are queued, each once.
QueueOK ==
    /\ \A i \in 1..Len(queue) : request[queue[i]].phase = "queued"
    /\ \A i, j \in 1..Len(queue) : queue[i] = queue[j] => i = j

\* What a client holds, whatever it is doing.
StateOK(state) ==
    /\ IF state.op = "ready" THEN state.left + state.reading \in 1..NumWorkers
                             ELSE state.left = 0 /\ state.reading = 0
    /\ state.op # "looking" => state.skipped = {}
    /\ state.held \cap state.skipped = {}

\* Every client is in such a state.
ClientsOK == \A c \in Requests : StateOK(client[c])

\* The protocol the four threads follow among themselves, before any lock is
\* counted.
Protocol == TasksOK /\ RequestsOK /\ QueueOK /\ ClientsOK

\* The threads of the adapters keep the types.
LEMMA AdapterTypes ==
    ASSUME ManagerTypeOK, TasksOK, AdapterThread
    PROVE  ManagerTypeOK'
<1>1. RequestTypeOK' /\ (client \in [Requests -> Clients])' /\ (targets \subseteq Adapters)'
  BY DEF AdapterThread, prefetch_vars, store_vars, ManagerTypeOK, RequestTypeOK
<1>2. ASSUME NEW s \in StoreTasks, ExecuteStore(s) PROVE ManagerTypeOK'
  <2>1. store_task[s].adapter \in Adapters /\ DOMAIN store_task[s].objs = store_task[s].keys
    BY <1>2 DEF ExecuteStore, TasksOK, StoreTasksOK
  <2>2. /\ l2_objects' \in [Adapters -> [Keys -> Data \cup {Absent}]]
        /\ l2_queue' \in [Adapters -> Seq(Keys)]
        /\ store_task' \in [StoreTasks -> StoreTaskSet]
    BY <1>2, <2>1, StoreOutcome
  <2>3. UNCHANGED <<content, l2_locked, l2_unlocks, lookup_task, load_task>>
    BY <1>2 DEF ExecuteStore
  <2>4. QED BY <1>1, <2>2, <2>3 DEF ManagerTypeOK, AdapterTypeOK, TaskTypeOK
<1>3. ASSUME NEW r \in Requests, NEW a \in Adapters, ExecuteLookup(r, a) PROVE ManagerTypeOK'
  <2>1. PICK t, found : t = lookup_task[r][a] /\ found = t.keys \cap Stored(a)
    OBVIOUS
  <2>2. /\ lookup_task' = [lookup_task EXCEPT ![r][a] = Completed(t, found)]
        /\ l2_locked' = [l2_locked EXCEPT ![a] = [k \in Keys |->
               IF k \in found THEN l2_locked[a][k] + 1 ELSE l2_locked[a][k]]]
        /\ UNCHANGED <<content, l2_objects, l2_queue, store_task, l2_unlocks, load_task>>
    BY <1>3, <2>1 DEF ExecuteLookup, l2_store_vars
  <2>3. t \in Tasks
    BY <2>1 DEF ManagerTypeOK, TaskTypeOK
  <2>4. Completed(t, found) \in Tasks
    BY <2>1, <2>3 DEF Tasks, Statuses, Completed
  <2>5. lookup_task' \in [Requests -> [Adapters -> Tasks]]
    BY <2>2, <2>4 DEF ManagerTypeOK, TaskTypeOK
  <2>6. l2_locked' \in [Adapters -> [Keys -> Nat]]
    BY <2>2 DEF ManagerTypeOK, AdapterTypeOK
  <2>7. QED BY <1>1, <2>2, <2>5, <2>6 DEF ManagerTypeOK, AdapterTypeOK, TaskTypeOK
<1>4. ASSUME NEW r \in Requests, NEW a \in Adapters, ExecuteLoad(r, a) PROVE ManagerTypeOK'
  <2> DEFINE t == load_task[r][a]
  <2>2. PICK loaded \in SUBSET (t.keys \cap Stored(a)) :
          /\ content' = [b \in MemObjs |->
               IF \E k \in loaded : t.objs[k] = b
                 THEN l2_objects[a][CHOOSE k \in loaded : t.objs[k] = b] ELSE content[b]]
          /\ load_task' = [load_task EXCEPT ![r][a] = Completed(t, loaded)]
    BY <1>4, Zenon DEF ExecuteLoad
  <2>3. UNCHANGED <<l2_objects, l2_queue, store_task, l2_locked, l2_unlocks, lookup_task>>
    BY <1>4 DEF ExecuteLoad, l2_store_vars
  <2>4. t \in Tasks
    BY DEF ManagerTypeOK, TaskTypeOK
  <2> HIDE DEF t
  <2>5. loaded \in SUBSET Keys
    BY DEF Stored
  <2>6. Completed(t, loaded) \in Tasks
    BY <2>4, <2>5 DEF Tasks, Statuses, Completed
  <2>7. load_task' \in [Requests -> [Adapters -> Tasks]]
    BY <2>2, <2>6 DEF ManagerTypeOK, TaskTypeOK
  <2>8. content' \in [MemObjs -> Data]
    <3>1. \A b \in MemObjs : (\E k \in loaded : t.objs[k] = b) => (CHOOSE k \in loaded : t.objs[k] = b) \in loaded
      OBVIOUS
    <3>2. \A k \in loaded : l2_objects[a][k] \in Data
      BY DEF ManagerTypeOK, AdapterTypeOK, Stored
    <3>3. \A b \in MemObjs : content[b] \in Data
      BY DEF ManagerTypeOK, AdapterTypeOK
    <3>4. \A b \in MemObjs : (IF \E k \in loaded : t.objs[k] = b
                 THEN l2_objects[a][CHOOSE k \in loaded : t.objs[k] = b] ELSE content[b]) \in Data
      BY <3>1, <3>2, <3>3
    <3>5. QED BY <2>2, <3>4
  <2>9. QED BY <1>1, <2>3, <2>7, <2>8 DEF ManagerTypeOK, AdapterTypeOK, TaskTypeOK
<1>5. ASSUME NEW a \in Adapters, NEW k \in Keys, ExecuteUnlock(a, k) PROVE ManagerTypeOK'
  <2>1. l2_unlocks[a][k] - 1 \in Nat
    BY <1>5 DEF ExecuteUnlock, ManagerTypeOK, AdapterTypeOK
  <2>2. l2_unlocks' \in [Adapters -> [Keys -> Nat]]
    BY <1>5, <2>1 DEF ExecuteUnlock, ManagerTypeOK, AdapterTypeOK
  <2>3. (IF l2_locked[a][k] <= 1 THEN 0 ELSE l2_locked[a][k] - 1) \in Nat
    BY DEF ManagerTypeOK, AdapterTypeOK
  <2>4. l2_locked' \in [Adapters -> [Keys -> Nat]]
    BY <1>5, <2>3 DEF ExecuteUnlock, ManagerTypeOK, AdapterTypeOK
  <2>5. QED BY <1>1, <1>5, <2>2, <2>4 DEF ExecuteUnlock, l2_store_vars, ManagerTypeOK, AdapterTypeOK,
                                          TaskTypeOK
<1>6. QED BY <1>2, <1>3, <1>4, <1>5 DEF AdapterThread, AdapterStep

\* Every step keeps the types.
LEMMA TypesKept ==
    ASSUME L1Inv, ManagerTypeOK, TasksOK, [Next]_vars
    PROVE  ManagerTypeOK'
<1>1. CASE Clear \/ EvictionStep \/ UNCHANGED vars
  <2>1. AdaptersIdle /\ UNCHANGED <<prefetch_vars, client>>
    BY <1>1 DEF Clear, EvictionStep, vars, AdaptersIdle, store_vars
  <2>2. QED BY <2>1, IdleTypes DEF ManagerTypeOK, RequestTypeOK, prefetch_vars
<1>2. QED BY <1>1, ClientTypes, StoreTypes, PrefetchTypes, AdapterTypes DEF Next

----------------------------------------------------------------------------
(* What the steps of the prefetch thread do to the request they work on.    *)

\* The leading good keys of a list are keys of the list and good; all of them
\* are leading when there is no gap.
LEMMA PrefixFacts ==
    ASSUME NEW keys \in SUBSET Keys, NEW good
    PROVE  Prefix(keys, good) \subseteq keys /\ Prefix(keys, good) \subseteq good
<1>1. ASSUME NEW k \in Prefix(keys, good) PROVE k \in keys /\ k \in good
  <2>1. k \in keys /\ \A j \in keys : j <= k => j \in good
    BY DEF Prefix
  <2>2. k \in Nat
    BY <2>1, CacheAssumption
  <2>3. k <= k
    BY <2>2
  <2>4. QED BY <2>1, <2>3
<1>2. QED BY <1>1

\* A step of request r that ends in the phase, plan and sets given.
Moves(r, phase, plan, reserved, loaded) ==
    request' = [request EXCEPT ![r] =
        [phase |-> phase, keys |-> request[r].keys, plan |-> plan, reserved |-> reserved,
         loaded |-> loaded]]

\* What such a step does, field by field.
LEMMA MovesFields ==
    ASSUME RequestTypeOK, NEW r \in Requests, NEW phase, NEW plan, NEW reserved, NEW loaded,
           Moves(r, phase, plan, reserved, loaded)
    PROVE  /\ request'[r].phase = phase /\ request'[r].keys = request[r].keys
           /\ request'[r].plan = plan /\ request'[r].reserved = reserved
           /\ request'[r].loaded = loaded
           /\ \A x \in Requests \ {r} : request'[x] = request[x]
  BY DEF RequestTypeOK, Moves

\* PrefetchStart takes the head of the queue and looks its keys up in every adapter.
LEMMA StartEffect ==
    ASSUME ManagerTypeOK, QueueOK, PrefetchStart
    PROVE  \E r \in Requests :
              /\ r = Head(queue) /\ queue # <<>> /\ queue' = Tail(queue)
              /\ request[r].phase = "queued"
              /\ Moves(r, "lookup", request[r].plan, request[r].reserved, request[r].loaded)
              /\ lookup_task' = [lookup_task EXCEPT ![r] =
                                    [a \in Adapters |-> Submitted(request[r].keys, <<>>)]]
              /\ UNCHANGED <<cache_vars, content, l2_store_vars, l2_locked, l2_unlocks, load_task>>
<1>1. PICK r : r = Head(queue)
  OBVIOUS
<1>2. r \in Requests /\ queue # <<>> /\ queue[1] = r /\ 1 \in 1..Len(queue)
  BY <1>1 DEF PrefetchStart, ManagerTypeOK, RequestTypeOK
<1>3. request[r] \in Prefetches /\ request[r].phase = "queued"
  BY <1>2 DEF ManagerTypeOK, RequestTypeOK, QueueOK
<1>4. request' = [request EXCEPT ![r] = [request[r] EXCEPT !.phase = "lookup"]]
  BY <1>1 DEF PrefetchStart
<1>5. [request[r] EXCEPT !.phase = "lookup"] =
        [phase |-> "lookup", keys |-> request[r].keys, plan |-> request[r].plan,
         reserved |-> request[r].reserved, loaded |-> request[r].loaded]
  BY <1>3 DEF Prefetches
<1>6. Moves(r, "lookup", request[r].plan, request[r].reserved, request[r].loaded)
  BY <1>4, <1>5 DEF Moves
<1>7. QED BY <1>1, <1>2, <1>3, <1>6 DEF PrefetchStart, submit_lookup_and_lock_task

\* A prefetch that finds nothing asks for the unlock of whatever was locked for it.
LEMMA NothingFoundEffect ==
    ASSUME ManagerTypeOK, NEW r \in Requests, PrefetchNothingFound(r)
    PROVE  /\ request[r].phase = "lookup" /\ \A a \in Adapters : lookup_task[r][a].status = "done"
           /\ Moves(r, "done", request[r].plan, request[r].reserved, request[r].loaded)
           /\ lookup_task' = [lookup_task EXCEPT ![r] = [a \in Adapters |-> NoTask]]
           /\ l2_unlocks' = [a \in Adapters |-> [k \in Keys |->
                 IF k \in lookup_task[r][a].ok THEN l2_unlocks[a][k] + 1 ELSE l2_unlocks[a][k]]]
           /\ UNCHANGED <<cache_vars, content, l2_store_vars, l2_locked, load_task, queue>>
<1>1. request[r] \in Prefetches
  BY DEF ManagerTypeOK, RequestTypeOK
<1>2. request' = [request EXCEPT ![r] = [request[r] EXCEPT !.phase = "done"]]
  BY DEF PrefetchNothingFound
<1>3. [request[r] EXCEPT !.phase = "done"] =
        [phase |-> "done", keys |-> request[r].keys, plan |-> request[r].plan,
         reserved |-> request[r].reserved, loaded |-> request[r].loaded]
  BY <1>1 DEF Prefetches
<1>4. Moves(r, "done", request[r].plan, request[r].reserved, request[r].loaded)
  BY <1>2, <1>3 DEF Moves
<1>5. QED BY <1>4 DEF PrefetchNothingFound, LookupsDone, LookupsCollected, submit_unlock, lookup_results

\* What planning does: the keys reserved, what is left of the plan, and where
\* the request goes.  Afterwards the request is being loaded, or there is nothing
\* to load: then only the reserved keys, if any, are left to clean up.
Planned(r, reserved, trimmed, phase) ==
    /\ request[r].phase = "lookup" /\ \A a \in Adapters : lookup_task[r][a].status = "done"
    /\ \A a \in Adapters : /\ trimmed[a] \subseteq lookup_task[r][a].ok
                           /\ trimmed[a] \subseteq reserved
    /\ \/ phase = "load"
       \/ /\ phase = IF reserved = {} THEN "done" ELSE "finish_failed"
          /\ \A a \in Adapters : trimmed[a] = {}
    /\ Moves(r, phase, trimmed, reserved, {})
    /\ lookup_task' = [lookup_task EXCEPT ![r] = [a \in Adapters |-> NoTask]]
    /\ load_task' = [load_task EXCEPT ![r] = [a \in Adapters |->
          IF trimmed[a] = {} THEN NoTask
          ELSE Submitted(trimmed[a], [k \in trimmed[a] |-> memory_obj'[k]])]]
    /\ l2_unlocks' = [a \in Adapters |-> [k \in Keys |->
          IF k \in lookup_task[r][a].ok \ trimmed[a] THEN l2_unlocks[a][k] + 1
                                                     ELSE l2_unlocks[a][k]]]
    /\ \A k \in reserved : /\ k \notin Resident /\ ~Locked(k)
                           /\ memory_obj'[k] \in MemObjs \ allocated
                           /\ write_lock'[k] = 1
    /\ \A k \in Keys \ reserved : /\ memory_obj'[k] = memory_obj[k]
                                  /\ write_lock'[k] = write_lock[k]
    /\ read_lock' = read_lock
    /\ FreshBuffersUnwritten
    /\ UNCHANGED <<l2_objects, store_task, l2_locked, queue>>

\* PrefetchPlan reserves what L1 grants, loads that, and unlocks every other key
\* found.
LEMMA PlanEffect ==
    ASSUME L1Inv, ManagerTypeOK, RequestsOK, NEW r \in Requests, PrefetchPlan(r)
    PROVE  \E reserved \in SUBSET request[r].keys, trimmed \in [Adapters -> SUBSET Keys], phase \in Phases :
              Planned(r, reserved, trimmed, phase)
<1>1. PICK plan, keys : plan = select_load_plan(lookup_results(r)) /\ keys = request[r].keys
  OBVIOUS
<1>2. PICK wanted : wanted = Prefix(keys, Merged(plan))
  OBVIOUS
<1>3. PICK reserved : reserved = {k \in wanted \ Resident : memory_obj'[k] # NoObj}
  OBVIOUS
<1>4. PICK trimmed : trimmed = trim_load_plan(plan, keys, reserved)
  OBVIOUS
<1>5. PICK req : req = [request[r] EXCEPT !.phase = "load", !.plan = trimmed, !.reserved = reserved]
  OBVIOUS
<1>6. /\ reserve_write(wanted, wanted, "new") /\ FreshBuffersUnwritten
      /\ submit_unlock([a \in Adapters |-> lookup_results(r)[a] \ trimmed[a]])
      /\ submit_load_tasks(r, trimmed)
      /\ request' = [request EXCEPT ![r] = IF Merged(trimmed) = {} THEN AfterLoad(req) ELSE req]
      /\ LookupsCollected(r) /\ LookupsDone(r)
      /\ UNCHANGED <<l2_objects, store_task, l2_locked, queue>>
  BY <1>1, <1>2, <1>3, <1>4, <1>5 DEF PrefetchPlan, l1_reserve_write, l2_store_vars
<1>7. request[r] \in Prefetches /\ request[r].phase = "lookup"
  BY <1>6 DEF ManagerTypeOK, RequestTypeOK, LookupsDone
<1>8. wanted \in SUBSET Keys /\ wanted \subseteq keys
  BY <1>1, <1>2, <1>7 DEF Prefix, Prefetches
<1>9. /\ reserved \in SUBSET Keys /\ reserved \subseteq keys
      /\ \A k \in reserved : /\ k \notin Resident /\ ~Locked(k)
                             /\ memory_obj'[k] \in MemObjs \ allocated
                             /\ write_lock'[k] = 1
      /\ \A k \in Keys \ reserved : /\ memory_obj'[k] = memory_obj[k]
                                    /\ write_lock'[k] = write_lock[k]
      /\ read_lock' = read_lock
  <2>1. reserve_write(wanted, wanted, "new") /\ wanted \in SUBSET Keys
    BY <1>6, <1>8
  <2>2. reserved \subseteq keys
    BY <1>3, <1>8
  <2>3. reserved = Got(wanted)
    BY <1>3 DEF Got
  <2>4. QED BY <2>1, <2>2, <2>3, ReserveNew
<1>10. /\ trimmed \in [Adapters -> SUBSET Keys]
       /\ \A a \in Adapters : /\ trimmed[a] \subseteq lookup_task[r][a].ok
                              /\ trimmed[a] \subseteq reserved
  BY <1>1, <1>4, PlanSubset
<1>11. req \in Prefetches /\ request[r].loaded = {}
  BY <1>5, <1>7, <1>9, <1>10 DEF Prefetches, Phases, RequestsOK
<1>12. PICK next : next = IF Merged(trimmed) = {} THEN AfterLoad(req) ELSE req
  OBVIOUS
<1>13. PICK phase : phase = next.phase
  OBVIOUS
<1>14. next \in Prefetches /\ next.keys = keys /\ next.plan = trimmed /\ next.reserved = reserved
       /\ next.loaded = {}
  <2>1. /\ AfterLoad(req) \in Prefetches /\ AfterLoad(req).keys = req.keys
        /\ AfterLoad(req).plan = req.plan /\ AfterLoad(req).reserved = req.reserved
        /\ AfterLoad(req).loaded = req.loaded
    BY <1>11, AfterLoadFields
  <2>2. /\ req.keys = keys /\ req.plan = trimmed /\ req.reserved = reserved /\ req.loaded = {}
    BY <1>1, <1>5, <1>7, <1>11 DEF Prefetches
  <2>3. QED BY <1>11, <1>12, <2>1, <2>2
<1>15. \/ phase = "load"
       \/ /\ phase = IF reserved = {} THEN "done" ELSE "finish_failed"
          /\ \A a \in Adapters : trimmed[a] = {}
  <2>1. CASE Merged(trimmed) = {}
    <3>1. \A a \in Adapters : trimmed[a] = {}
      BY <2>1 DEF Merged
    <3>2. /\ req.phase = "load" /\ req.reserved = reserved /\ req.loaded = {}
      BY <1>5, <1>7, <1>11 DEF Prefetches
    <3>3. req.reserved \ req.loaded = reserved /\ req.loaded \ Prefix(req.keys, req.loaded) = {}
      BY <3>2
    <3>4. phase = IF reserved # {} THEN "finish_failed" ELSE "done"
      BY <1>11, <1>12, <1>13, <2>1, <3>2, <3>3, AfterLoadFields
    <3>5. QED BY <3>1, <3>4
  <2>2. CASE Merged(trimmed) # {}
    BY <1>5, <1>7, <1>12, <1>13, <2>2 DEF Prefetches
  <2>3. QED BY <2>1, <2>2
<1>16. Moves(r, phase, trimmed, reserved, {}) /\ phase \in Phases
  <2>1. next = [phase |-> phase, keys |-> request[r].keys, plan |-> trimmed, reserved |-> reserved,
                loaded |-> {}]
    BY <1>1, <1>13, <1>14 DEF Prefetches
  <2>2. QED BY <1>6, <1>12, <1>13, <1>14, <2>1 DEF Moves, Prefetches
<1>17. l2_unlocks' = [a \in Adapters |-> [k \in Keys |->
          IF k \in lookup_task[r][a].ok \ trimmed[a] THEN l2_unlocks[a][k] + 1
                                                     ELSE l2_unlocks[a][k]]]
  BY <1>6 DEF submit_unlock, lookup_results
<1>18. /\ lookup_task' = [lookup_task EXCEPT ![r] = [a \in Adapters |-> NoTask]]
       /\ load_task' = [load_task EXCEPT ![r] = [a \in Adapters |->
            IF trimmed[a] = {} THEN NoTask
            ELSE Submitted(trimmed[a], [k \in trimmed[a] |-> memory_obj'[k]])]]
       /\ \A a \in Adapters : lookup_task[r][a].status = "done"
  BY <1>6 DEF LookupsCollected, submit_load_tasks, LookupsDone
<1>19. reserved \in SUBSET request[r].keys
  BY <1>1, <1>9
<1>20. Planned(r, reserved, trimmed, phase)
  BY <1>6, <1>7, <1>9, <1>10, <1>15, <1>16, <1>17, <1>18, Zenon DEF Planned
<1>21. QED BY <1>10, <1>16, <1>19, <1>20

\* PrefetchLoaded turns the write locks of the loaded keys into read locks and
\* unlocks the plan.
LEMMA LoadedEffect ==
    ASSUME ManagerTypeOK, TasksOK, RequestsOK, NEW r \in Requests, PrefetchLoaded(r)
    PROVE  \E loaded \in SUBSET request[r].reserved, phase \in {"finish_failed", "release", "done"} :
              /\ request[r].phase = "load" /\ \A a \in Adapters : load_task[r][a].status # "submitted"
              /\ \A a \in Adapters : load_task[r][a].ok \subseteq loaded
              /\ \A k \in loaded : \E a \in Adapters : k \in load_task[r][a].ok
              /\ phase = IF request[r].reserved \ loaded # {} THEN "finish_failed"
                         ELSE IF loaded \ Prefix(request[r].keys, loaded) # {} THEN "release" ELSE "done"
              /\ Moves(r, phase, request[r].plan, request[r].reserved, loaded)
              /\ load_task' = [load_task EXCEPT ![r] = [a \in Adapters |-> NoTask]]
              /\ l2_unlocks' = [a \in Adapters |-> [k \in Keys |->
                    IF k \in request[r].plan[a] THEN l2_unlocks[a][k] + 1 ELSE l2_unlocks[a][k]]]
              /\ finish_write_and_reserve_read(loaded, NumWorkers - 1)
              /\ UNCHANGED <<content, l2_store_vars, l2_locked, lookup_task, queue>>
<1>1. PICK loaded : loaded = UNION {load_task[r][a].ok : a \in Adapters}
  OBVIOUS
<1>2. request[r] \in Prefetches /\ request[r].phase = "load"
  BY DEF ManagerTypeOK, RequestTypeOK, PrefetchLoaded
<1>3. loaded \subseteq request[r].reserved
  <2>1. ASSUME NEW a \in Adapters, NEW k \in load_task[r][a].ok PROVE k \in request[r].reserved
    <3>1. load_task[r][a].status = "done" /\ k \in load_task[r][a].keys
      BY <2>1 DEF TasksOK
    <3>2. k \in request[r].plan[a]
      BY <3>1 DEF TasksOK
    <3>3. QED BY <3>2 DEF RequestsOK
  <2>2. QED BY <1>1, <2>1
<1>4. PICK req : req = [request[r] EXCEPT !.loaded = loaded]
  OBVIOUS
<1>5. /\ req \in Prefetches /\ req.phase = "load" /\ req.keys = request[r].keys
      /\ req.plan = request[r].plan /\ req.reserved = request[r].reserved /\ req.loaded = loaded
  BY <1>2, <1>3, <1>4 DEF Prefetches
<1>6. PICK phase : phase = AfterLoad(req).phase
  OBVIOUS
<1>7. /\ AfterLoad(req) \in Prefetches /\ AfterLoad(req).keys = req.keys
      /\ AfterLoad(req).plan = req.plan /\ AfterLoad(req).reserved = req.reserved
      /\ AfterLoad(req).loaded = req.loaded
      /\ phase = IF req.reserved \ req.loaded # {} /\ req.phase = "load" THEN "finish_failed"
                 ELSE IF req.loaded \ Prefix(req.keys, req.loaded) # {} THEN "release"
                 ELSE "done"
  BY <1>5, <1>6, AfterLoadFields
<1>8. AfterLoad(req) = [phase |-> phase, keys |-> request[r].keys, plan |-> request[r].plan,
                        reserved |-> request[r].reserved, loaded |-> loaded]
  BY <1>5, <1>6, <1>7 DEF Prefetches
<1>9. Moves(r, phase, request[r].plan, request[r].reserved, loaded)
  BY <1>1, <1>4, <1>8 DEF PrefetchLoaded, Moves
<1>10. phase = IF request[r].reserved \ loaded # {} THEN "finish_failed"
                 ELSE IF loaded \ Prefix(request[r].keys, loaded) # {} THEN "release"
                 ELSE "done"
  BY <1>5, <1>7
<1>11. phase \in {"finish_failed", "release", "done"}
  BY <1>10
<1>12. /\ load_task' = [load_task EXCEPT ![r] = [a \in Adapters |-> NoTask]]
       /\ l2_unlocks' = [a \in Adapters |-> [k \in Keys |->
             IF k \in request[r].plan[a] THEN l2_unlocks[a][k] + 1 ELSE l2_unlocks[a][k]]]
       /\ finish_write_and_reserve_read(loaded, NumWorkers - 1)
       /\ UNCHANGED <<content, l2_store_vars, l2_locked, lookup_task, queue>>
       /\ \A a \in Adapters : load_task[r][a].status # "submitted"
  BY <1>1 DEF PrefetchLoaded, submit_unlock, l1_finish_write_and_reserve_read
<1>13. /\ \A a \in Adapters : load_task[r][a].ok \subseteq loaded
       /\ \A k \in loaded : \E a \in Adapters : k \in load_task[r][a].ok
  BY <1>1
<1>14. loaded \in SUBSET request[r].reserved
  BY <1>3
<1>15. QED BY <1>2, <1>9, <1>10, <1>11, <1>12, <1>13, <1>14, Zenon

\* The first of the two calls that undo a failed load: the write locks go.
LEMMA FinishFailedEffect ==
    ASSUME ManagerTypeOK, NEW r \in Requests, PrefetchFinishFailed(r)
    PROVE  /\ request[r].phase = "finish_failed"
           /\ Moves(r, "delete_failed", request[r].plan, request[r].reserved, request[r].loaded)
           /\ finish_write(request[r].reserved \ request[r].loaded)
           /\ UNCHANGED <<l2_vars, queue>>
<1>1. request[r] \in Prefetches
  BY DEF ManagerTypeOK, RequestTypeOK
<1>2. [request[r] EXCEPT !.phase = "delete_failed"] =
        [phase |-> "delete_failed", keys |-> request[r].keys, plan |-> request[r].plan,
         reserved |-> request[r].reserved, loaded |-> request[r].loaded]
  BY <1>1 DEF Prefetches
<1>3. request' = [request EXCEPT ![r] = [request[r] EXCEPT !.phase = "delete_failed"]]
  BY DEF PrefetchFinishFailed
<1>4. Moves(r, "delete_failed", request[r].plan, request[r].reserved, request[r].loaded)
  BY <1>2, <1>3 DEF Moves
<1>5. QED BY <1>4 DEF PrefetchFinishFailed, l1_finish_write

\* The second: the keys that failed are deleted.
LEMMA DeleteFailedEffect ==
    ASSUME ManagerTypeOK, NEW r \in Requests, PrefetchDeleteFailed(r)
    PROVE  \E phase \in {"release", "done"} :
           /\ request[r].phase = "delete_failed"
           /\ phase = "done" => request[r].loaded \subseteq Prefix(request[r].keys, request[r].loaded)
           /\ Moves(r, phase, request[r].plan, request[r].reserved, request[r].loaded)
           /\ delete(request[r].reserved \ request[r].loaded)
           /\ UNCHANGED <<l2_vars, queue>>
<1>1. request[r] \in Prefetches /\ request[r].phase = "delete_failed"
  BY DEF ManagerTypeOK, RequestTypeOK, PrefetchDeleteFailed
<1>2. PICK phase : phase = AfterLoad(request[r]).phase
  OBVIOUS
<1>3. /\ AfterLoad(request[r]) \in Prefetches
      /\ AfterLoad(request[r]).keys = request[r].keys /\ AfterLoad(request[r]).plan = request[r].plan
      /\ AfterLoad(request[r]).reserved = request[r].reserved
      /\ AfterLoad(request[r]).loaded = request[r].loaded
      /\ phase = IF request[r].loaded \ Prefix(request[r].keys, request[r].loaded) # {} THEN "release"
                 ELSE "done"
  BY <1>1, <1>2, AfterLoadFields
<1>4. AfterLoad(request[r]) =
        [phase |-> phase, keys |-> request[r].keys, plan |-> request[r].plan,
         reserved |-> request[r].reserved, loaded |-> request[r].loaded]
  BY <1>2, <1>3 DEF Prefetches
<1>5. Moves(r, phase, request[r].plan, request[r].reserved, request[r].loaded)
  BY <1>4 DEF PrefetchDeleteFailed, Moves
<1>6. phase = "done" => request[r].loaded \subseteq Prefix(request[r].keys, request[r].loaded)
  BY <1>3
<1>7. phase \in {"release", "done"}
  BY <1>3
<1>8. QED BY <1>1, <1>5, <1>6, <1>7 DEF PrefetchDeleteFailed, l1_delete

\* What was loaded past the first hole gives its read locks back.
LEMMA ReleaseEffect ==
    ASSUME ManagerTypeOK, NEW r \in Requests, PrefetchRelease(r)
    PROVE  /\ request[r].phase = "release"
           /\ Moves(r, "done", request[r].plan, request[r].reserved, request[r].loaded)
           /\ finish_read(request[r].loaded \ Prefix(request[r].keys, request[r].loaded), NumWorkers - 1)
           /\ UNCHANGED <<l2_vars, queue>>
<1>1. request[r] \in Prefetches
  BY DEF ManagerTypeOK, RequestTypeOK
<1>2. [request[r] EXCEPT !.phase = "done"] =
        [phase |-> "done", keys |-> request[r].keys, plan |-> request[r].plan,
         reserved |-> request[r].reserved, loaded |-> request[r].loaded]
  BY <1>1 DEF Prefetches
<1>3. request' = [request EXCEPT ![r] = [request[r] EXCEPT !.phase = "done"]]
  BY DEF PrefetchRelease
<1>4. Moves(r, "done", request[r].plan, request[r].reserved, request[r].loaded)
  BY <1>2, <1>3 DEF Moves
<1>5. QED BY <1>4 DEF PrefetchRelease, l1_finish_read

----------------------------------------------------------------------------
(* What the steps of a client do to it and to its prefetch request.         *)

\* The client and its request move; nobody else's do.
LEMMA LookupSubmitEffect ==
    ASSUME ManagerTypeOK, RequestsOK, NEW c \in Requests, LookupSubmit(c)
    PROVE  /\ client[c].op = "looking" /\ request[c].phase = "none"
           /\ client' = [client EXCEPT ![c] = [client[c] EXCEPT !.op = "waiting", !.skipped = {}]]
           /\ finish_read(client[c].skipped, NumWorkers - 1)
           /\ UNCHANGED l2_vars
           /\ \/ UNCHANGED prefetch_vars
              \/ /\ queue' = Append(queue, c)
                 /\ request' = [request EXCEPT ![c] =
                       [phase |-> "queued", keys |-> client[c].keys \ client[c].held, plan |-> NoPlan,
                        reserved |-> {}, loaded |-> {}]]
<1>1. client[c].op = "looking" /\ request[c].phase = "none"
  BY DEF LookupSubmit, RequestsOK
<1>2. UNCHANGED prefetch_vars \/ submit_prefetch_request(c, client[c].keys \ client[c].held)
  BY DEF LookupSubmit
<1>3. submit_prefetch_request(c, client[c].keys \ client[c].held) =>
          /\ queue' = Append(queue, c)
          /\ request' = [request EXCEPT ![c] =
                [phase |-> "queued", keys |-> client[c].keys \ client[c].held, plan |-> NoPlan,
                 reserved |-> {}, loaded |-> {}]]
  BY DEF submit_prefetch_request, NoRequest
<1>4. QED BY <1>1, <1>2, <1>3 DEF LookupSubmit, Becomes, l1_finish_read

\* Poll turns a finished prefetch into keys its client holds, and forgets the
\* prefetch.
LEMMA PollEffect ==
    ASSUME ManagerTypeOK, RequestsOK, NEW c \in Requests, Poll(c)
    PROVE  /\ client[c].op = "waiting" /\ request[c].phase \in {"none", "done"}
           /\ client' = [client EXCEPT ![c] =
                 IF client[c].held \cup prefix_hits(c) = {} THEN Idle
                 ELSE [Idle EXCEPT !.op = "ready", !.held = client[c].held \cup prefix_hits(c),
                                   !.left = NumWorkers]]
           /\ request' = [request EXCEPT ![c] = NoRequest]
           /\ prefix_hits(c) \subseteq request[c].loaded /\ prefix_hits(c) \subseteq request[c].keys
           /\ UNCHANGED <<cache_vars, l2_vars, queue>>
<1>1. request[c].keys \in SUBSET Keys
  BY DEF ManagerTypeOK, RequestTypeOK, Prefetches
<1>2. prefix_hits(c) \subseteq request[c].loaded /\ prefix_hits(c) \subseteq request[c].keys
  BY <1>1, PrefixFacts DEF prefix_hits
<1>3. QED BY <1>2 DEF Poll, Becomes, ResultReady

----------------------------------------------------------------------------
(* The protocol is kept.                                                    *)

\* A step of one request keeps RequestsOK when its own record stays sound.
LEMMA MovesKeepRequests ==
    ASSUME ManagerTypeOK, RequestsOK, NEW r \in Requests, NEW phase, NEW plan, NEW reserved, NEW loaded,
           Moves(r, phase, plan, reserved, loaded), UNCHANGED client,
           phase # "none", request[r].phase # "none",
           phase \in {"queued", "lookup", "load"} => loaded = {},
           loaded \subseteq reserved, reserved \subseteq request[r].keys,
           \A a \in Adapters : plan[a] \subseteq reserved
    PROVE  RequestsOK'
<1>1. /\ request'[r].phase = phase /\ request'[r].keys = request[r].keys
      /\ request'[r].plan = plan /\ request'[r].reserved = reserved
      /\ request'[r].loaded = loaded
      /\ \A x \in Requests \ {r} : request'[x] = request[x]
  BY MovesFields DEF ManagerTypeOK
<1>2. SUFFICES ASSUME NEW x \in Requests
               PROVE  (/\ request[x].phase # "none" => client[x].op = "waiting"
                       /\ request[x].phase = "none" => request[x] = NoRequest
                       /\ request[x].phase \in {"queued", "lookup", "load"} => request[x].loaded = {}
                       /\ request[x].loaded \subseteq request[x].reserved
                       /\ request[x].reserved \subseteq request[x].keys
                       /\ \A a \in Adapters : request[x].plan[a] \subseteq request[x].reserved
                       /\ request[x].keys \cap client[x].held = {})'
  BY DEF RequestsOK
<1>3. CASE x = r
  BY <1>1, <1>3 DEF RequestsOK
<1>4. CASE x # r
  <2>1. request'[x] = request[x] /\ client' = client
    BY <1>1, <1>4
  <2>2. QED BY <2>1 DEF RequestsOK
<1>5. QED BY <1>3, <1>4

\* A step of a request that is not queued keeps the queue.
LEMMA MovesKeepQueue ==
    ASSUME ManagerTypeOK, QueueOK, NEW r \in Requests, NEW phase, NEW plan, NEW reserved, NEW loaded,
           Moves(r, phase, plan, reserved, loaded), UNCHANGED queue, request[r].phase # "queued"
    PROVE  QueueOK'
<1>1. \A x \in Requests \ {r} : request'[x] = request[x]
  BY MovesFields DEF ManagerTypeOK
<1>2. \A i \in 1..Len(queue) : queue[i] \in Requests /\ queue[i] # r
  BY DEF QueueOK, ManagerTypeOK, RequestTypeOK
<1>3. QED BY <1>1, <1>2 DEF QueueOK

\* Only the tasks of one request change, to what its phase allows.
LEMMA MovesKeepTasks ==
    ASSUME ManagerTypeOK, TasksOK, NEW r \in Requests, NEW phase, NEW plan, NEW reserved, NEW loaded,
           Moves(r, phase, plan, reserved, loaded), UNCHANGED store_task,
           \A x \in Requests \ {r} : lookup_task'[x] = lookup_task[x] /\ load_task'[x] = load_task[x],
           \A a \in Adapters :
                /\ lookup_task'[r][a].status # "none" => phase = "lookup"
                /\ lookup_task'[r][a].status # "done" => lookup_task'[r][a].ok = {}
                /\ load_task'[r][a].status # "none" => /\ phase = "load"
                                                       /\ load_task'[r][a].keys = plan[a]
                                                       /\ DOMAIN load_task'[r][a].objs = load_task'[r][a].keys
                /\ load_task'[r][a].status # "done" => load_task'[r][a].ok = {}
                /\ load_task'[r][a].ok \subseteq load_task'[r][a].keys
    PROVE  TasksOK'
<1>1. /\ request'[r].phase = phase /\ request'[r].plan = plan
      /\ \A x \in Requests \ {r} : request'[x] = request[x]
  BY MovesFields DEF ManagerTypeOK
<1>2. ASSUME NEW x \in Requests, NEW a \in Adapters
      PROVE  (/\ lookup_task[x][a].status # "none" => request[x].phase = "lookup"
              /\ lookup_task[x][a].status # "done" => lookup_task[x][a].ok = {}
              /\ load_task[x][a].status # "none" => /\ request[x].phase = "load"
                                                    /\ load_task[x][a].keys = request[x].plan[a]
                                                    /\ DOMAIN load_task[x][a].objs = load_task[x][a].keys
              /\ load_task[x][a].status # "done" => load_task[x][a].ok = {}
              /\ load_task[x][a].ok \subseteq load_task[x][a].keys)'
  <2>1. CASE x = r
    BY <1>1, <2>1
  <2>2. CASE x # r
    <3>1. request'[x] = request[x] /\ lookup_task'[x] = lookup_task[x] /\ load_task'[x] = load_task[x]
      BY <1>1, <2>2
    <3>2. QED BY <3>1 DEF TasksOK
  <2>3. QED BY <2>1, <2>2
<1>3. QED BY <1>2 DEF TasksOK, StoreTasksOK

\* The prefetch controller's thread keeps the protocol.
LEMMA PrefetchProtocol ==
    ASSUME L1Inv, ManagerTypeOK, Protocol, PrefetchThread
    PROVE  Protocol'
<1> USE DEF Protocol
<1>0. UNCHANGED client /\ ClientsOK'
  BY DEF PrefetchThread, ClientsOK
<1>a. \A r \in Requests : \A a \in Adapters :
          /\ NoTask.status = "none" /\ NoTask.ok = {} /\ NoTask.keys = {}
          /\ lookup_task[r] \in [Adapters -> Tasks] /\ load_task[r] \in [Adapters -> Tasks]
  BY DEF NoTask, ManagerTypeOK, TaskTypeOK
<1>b. lookup_task \in [Requests -> [Adapters -> Tasks]] /\ load_task \in [Requests -> [Adapters -> Tasks]]
  BY DEF ManagerTypeOK, TaskTypeOK
<1>1. CASE PrefetchStart
  <2>1. PICK r \in Requests :
              /\ r = Head(queue) /\ queue # <<>> /\ queue' = Tail(queue)
              /\ request[r].phase = "queued"
              /\ Moves(r, "lookup", request[r].plan, request[r].reserved, request[r].loaded)
              /\ lookup_task' = [lookup_task EXCEPT ![r] =
                                    [a \in Adapters |-> Submitted(request[r].keys, <<>>)]]
              /\ UNCHANGED <<cache_vars, content, l2_store_vars, l2_locked, l2_unlocks, load_task>>
    BY <1>1, StartEffect
  <2>2. /\ request[r].loaded = {} /\ request[r].reserved \subseteq request[r].keys
        /\ request[r].loaded \subseteq request[r].reserved
        /\ \A a \in Adapters : request[r].plan[a] \subseteq request[r].reserved
    BY <2>1 DEF RequestsOK
  <2>3. RequestsOK'
    BY <1>0, <2>1, <2>2, MovesKeepRequests
  <2>4. \A a \in Adapters : lookup_task[r][a].status = "none" /\ load_task[r][a].status = "none"
                            /\ load_task[r][a].ok = {}
    BY <2>1 DEF TasksOK
  <2>5. \A a \in Adapters : lookup_task'[r][a].ok = {} /\ lookup_task'[r][a].status = "submitted"
    BY <1>b, <2>1 DEF Submitted
  <2>6. UNCHANGED <<load_task, store_task>> /\ \A x \in Requests \ {r} : lookup_task'[x] = lookup_task[x]
    BY <1>b, <2>1 DEF l2_store_vars
  <2>7. \A a \in Adapters :
                /\ lookup_task'[r][a].status # "none" => "lookup" = "lookup"
                /\ lookup_task'[r][a].status # "done" => lookup_task'[r][a].ok = {}
                /\ load_task'[r][a].status # "none" => /\ "lookup" = "load"
                                                       /\ load_task'[r][a].keys = request[r].plan[a]
                                                       /\ DOMAIN load_task'[r][a].objs = load_task'[r][a].keys
                /\ load_task'[r][a].status # "done" => load_task'[r][a].ok = {}
                /\ load_task'[r][a].ok \subseteq load_task'[r][a].keys
    BY <2>4, <2>5, <2>6
  <2>8. TasksOK'
    BY <2>1, <2>6, <2>7, MovesKeepTasks
  <2>9. QueueOK'
    <3>1. \A x \in Requests \ {r} : request'[x] = request[x]
      BY <2>1, MovesFields DEF ManagerTypeOK
    <3>2. queue \in Seq(Requests)
      BY DEF ManagerTypeOK, RequestTypeOK
    <3>3. /\ Len(queue') = Len(queue) - 1 /\ r = queue[1] /\ Len(queue) \in Nat
          /\ \A i \in 1..Len(queue') : queue'[i] = queue[i + 1] /\ i + 1 \in 1..Len(queue) /\ i + 1 # 1
      BY <2>1, <3>2
    <3>4. \A i \in 1..Len(queue') : queue'[i] \in Requests \ {r} /\ request[queue'[i]].phase = "queued"
      <4>1. SUFFICES ASSUME NEW i \in 1..Len(queue')
                     PROVE  queue'[i] \in Requests \ {r} /\ request[queue'[i]].phase = "queued"
        OBVIOUS
      <4>2. queue'[i] = queue[i + 1] /\ i + 1 \in 1..Len(queue) /\ i + 1 # 1 /\ 1 \in 1..Len(queue)
        BY <3>3
      <4>3. QED BY <3>2, <3>3, <4>2 DEF QueueOK
    <3>5. \A i, j \in 1..Len(queue') : queue'[i] = queue'[j] => i = j
      <4>1. SUFFICES ASSUME NEW i \in 1..Len(queue'), NEW j \in 1..Len(queue'), queue'[i] = queue'[j]
                     PROVE  i = j
        OBVIOUS
      <4>2. queue[i + 1] = queue[j + 1] /\ i + 1 \in 1..Len(queue) /\ j + 1 \in 1..Len(queue)
        BY <3>3, <4>1
      <4>3. i + 1 = j + 1
        BY <4>2 DEF QueueOK
      <4>4. QED BY <3>3, <4>3
    <3>6. QED BY <3>1, <3>4, <3>5 DEF QueueOK
  <2>10. QED BY <1>0, <2>3, <2>8, <2>9
<1>2. ASSUME NEW r \in Requests, PrefetchNothingFound(r) PROVE Protocol'
  <2>1. /\ request[r].phase = "lookup" /\ \A a \in Adapters : lookup_task[r][a].status = "done"
        /\ Moves(r, "done", request[r].plan, request[r].reserved, request[r].loaded)
        /\ lookup_task' = [lookup_task EXCEPT ![r] = [a \in Adapters |-> NoTask]]
        /\ UNCHANGED <<cache_vars, content, l2_store_vars, l2_locked, load_task, queue>>
    BY <1>2, NothingFoundEffect
  <2>2. /\ request[r].reserved \subseteq request[r].keys
        /\ request[r].loaded \subseteq request[r].reserved
        /\ \A a \in Adapters : request[r].plan[a] \subseteq request[r].reserved
    BY DEF RequestsOK
  <2>3. RequestsOK'
    BY <1>0, <2>1, <2>2, MovesKeepRequests
  <2>4. \A a \in Adapters : load_task[r][a].status = "none" /\ load_task[r][a].ok = {}
    BY <2>1 DEF TasksOK
  <2>5. \A a \in Adapters : lookup_task'[r][a].ok = {} /\ lookup_task'[r][a].status = "none"
    BY <1>a, <1>b, <2>1
  <2>6. UNCHANGED <<load_task, store_task>> /\ \A x \in Requests \ {r} : lookup_task'[x] = lookup_task[x]
    BY <1>b, <2>1 DEF l2_store_vars
  <2>7. TasksOK'
    <3>1. \A a \in Adapters : load_task'[r][a].status = "none" /\ load_task'[r][a].ok = {}
      BY <2>4, <2>6
    <3>2. QED BY <2>1, <2>5, <2>6, <3>1, MovesKeepTasks
  <2>8. QueueOK'
    BY <2>1, MovesKeepQueue
  <2>9. QED BY <1>0, <2>3, <2>7, <2>8
<1>3. ASSUME NEW r \in Requests, PrefetchPlan(r) PROVE Protocol'
  <2>0. PICK reserved \in SUBSET request[r].keys, trimmed \in [Adapters -> SUBSET Keys], phase \in Phases :
              Planned(r, reserved, trimmed, phase)
    BY <1>3, PlanEffect
  <2>1. /\ request[r].phase = "lookup"
        /\ \A a \in Adapters : trimmed[a] \subseteq reserved
        /\ \/ phase = "load"
           \/ /\ phase = IF reserved = {} THEN "done" ELSE "finish_failed"
              /\ \A a \in Adapters : trimmed[a] = {}
        /\ Moves(r, phase, trimmed, reserved, {})
        /\ lookup_task' = [lookup_task EXCEPT ![r] = [a \in Adapters |-> NoTask]]
        /\ load_task' = [load_task EXCEPT ![r] = [a \in Adapters |->
              IF trimmed[a] = {} THEN NoTask
              ELSE Submitted(trimmed[a], [k \in trimmed[a] |-> memory_obj'[k]])]]
        /\ UNCHANGED <<store_task, queue>>
    BY <2>0 DEF Planned
  <2>2. phase # "none"
    BY <2>1
  <2>3. RequestsOK'
    BY <1>0, <2>1, <2>2, MovesKeepRequests
  <2>4. \A a \in Adapters : lookup_task'[r][a].ok = {} /\ lookup_task'[r][a].status = "none"
    BY <1>a, <1>b, <2>1
  <2>5. \A x \in Requests \ {r} : lookup_task'[x] = lookup_task[x] /\ load_task'[x] = load_task[x]
    BY <1>b, <2>1
  <2>6. \A a \in Adapters :
          load_task'[r][a] = IF trimmed[a] = {} THEN NoTask
                             ELSE Submitted(trimmed[a], [k \in trimmed[a] |-> memory_obj'[k]])
    BY <1>b, <2>1
  <2>7. \A a \in Adapters :
          /\ load_task'[r][a].status # "none" =>
                /\ phase = "load" /\ load_task'[r][a].keys = trimmed[a]
                /\ DOMAIN load_task'[r][a].objs = load_task'[r][a].keys
          /\ load_task'[r][a].ok = {} /\ load_task'[r][a].status # "done"
    <3>1. SUFFICES ASSUME NEW a \in Adapters
                   PROVE  /\ load_task'[r][a].status # "none" =>
                                /\ phase = "load" /\ load_task'[r][a].keys = trimmed[a]
                                /\ DOMAIN load_task'[r][a].objs = load_task'[r][a].keys
                          /\ load_task'[r][a].ok = {} /\ load_task'[r][a].status # "done"
      OBVIOUS
    <3>2. CASE trimmed[a] = {}
      <4>1. load_task'[r][a] = NoTask
        BY <2>6, <3>2
      <4>2. QED BY <4>1 DEF NoTask
    <3>3. CASE trimmed[a] # {}
      <4>1. load_task'[r][a] = Submitted(trimmed[a], [k \in trimmed[a] |-> memory_obj'[k]])
        BY <2>6, <3>3
      <4>2. phase = "load"
        BY <2>1, <3>3
      <4>3. QED BY <4>1, <4>2 DEF Submitted
    <3>4. QED BY <3>2, <3>3
  <2>8. TasksOK'
    <3>1. UNCHANGED store_task
      BY <2>1
    <3>2. \A a \in Adapters :
                /\ lookup_task'[r][a].status # "none" => phase = "lookup"
                /\ lookup_task'[r][a].status # "done" => lookup_task'[r][a].ok = {}
                /\ load_task'[r][a].status # "none" => /\ phase = "load"
                                                       /\ load_task'[r][a].keys = trimmed[a]
                                                       /\ DOMAIN load_task'[r][a].objs = load_task'[r][a].keys
                /\ load_task'[r][a].status # "done" => load_task'[r][a].ok = {}
                /\ load_task'[r][a].ok \subseteq load_task'[r][a].keys
      BY <2>4, <2>7
    <3>3. Moves(r, phase, trimmed, reserved, {})
      BY <2>1
    <3>4. QED BY <2>5, <3>1, <3>2, <3>3, MovesKeepTasks
  <2>9. QueueOK'
    BY <2>1, MovesKeepQueue
  <2>10. QED BY <1>0, <2>3, <2>8, <2>9
<1>4. ASSUME NEW r \in Requests, PrefetchLoaded(r) PROVE Protocol'
  <2>1. PICK loaded \in SUBSET request[r].reserved, phase \in {"finish_failed", "release", "done"} :
              /\ request[r].phase = "load"
              /\ Moves(r, phase, request[r].plan, request[r].reserved, loaded)
              /\ load_task' = [load_task EXCEPT ![r] = [a \in Adapters |-> NoTask]]
              /\ UNCHANGED <<content, l2_store_vars, l2_locked, lookup_task, queue>>
    BY <1>4, LoadedEffect
  <2>2. /\ request[r].reserved \subseteq request[r].keys
        /\ \A a \in Adapters : request[r].plan[a] \subseteq request[r].reserved
    BY DEF RequestsOK
  <2>3. RequestsOK'
    BY <1>0, <2>1, <2>2, MovesKeepRequests
  <2>4. \A a \in Adapters : lookup_task[r][a].status = "none" /\ lookup_task[r][a].ok = {}
    BY <2>1 DEF TasksOK
  <2>5. \A a \in Adapters : /\ load_task'[r][a].ok = {} /\ load_task'[r][a].status = "none"
                            /\ lookup_task'[r][a].status = "none" /\ lookup_task'[r][a].ok = {}
    BY <1>a, <1>b, <2>1, <2>4
  <2>6. /\ UNCHANGED store_task
        /\ \A x \in Requests \ {r} : lookup_task'[x] = lookup_task[x] /\ load_task'[x] = load_task[x]
    BY <1>b, <2>1 DEF l2_store_vars
  <2>7. TasksOK'
    BY <2>1, <2>5, <2>6, MovesKeepTasks
  <2>8. QueueOK'
    BY <2>1, MovesKeepQueue
  <2>9. QED BY <1>0, <2>3, <2>7, <2>8
<1>5. ASSUME NEW r \in Requests,
             PrefetchFinishFailed(r) \/ PrefetchDeleteFailed(r) \/ PrefetchRelease(r)
      PROVE  Protocol'
  <2>1. PICK phase \in {"delete_failed", "release", "done"} :
            /\ request[r].phase \in {"finish_failed", "delete_failed", "release"}
            /\ Moves(r, phase, request[r].plan, request[r].reserved, request[r].loaded)
            /\ UNCHANGED <<l2_vars, queue>>
    <3>1. CASE PrefetchFinishFailed(r)
      BY <3>1, FinishFailedEffect
    <3>2. CASE PrefetchDeleteFailed(r)
      BY <3>2, DeleteFailedEffect
    <3>3. CASE PrefetchRelease(r)
      BY <3>3, ReleaseEffect
    <3>4. QED BY <1>5, <3>1, <3>2, <3>3
  <2>2. /\ request[r].reserved \subseteq request[r].keys
        /\ request[r].loaded \subseteq request[r].reserved
        /\ \A a \in Adapters : request[r].plan[a] \subseteq request[r].reserved
    BY DEF RequestsOK
  <2>3. RequestsOK'
    BY <1>0, <2>1, <2>2, MovesKeepRequests
  <2>4. UNCHANGED <<load_task, store_task, lookup_task>>
    BY <2>1 DEF l2_vars
  <2>5. \A a \in Adapters : /\ load_task[r][a].ok = {} /\ load_task[r][a].status = "none"
                            /\ lookup_task[r][a].status = "none" /\ lookup_task[r][a].ok = {}
    BY <2>1 DEF TasksOK
  <2>6. TasksOK'
    <3>1. \A a \in Adapters : /\ load_task'[r][a].ok = {} /\ load_task'[r][a].status = "none"
                              /\ lookup_task'[r][a].status = "none" /\ lookup_task'[r][a].ok = {}
      BY <2>4, <2>5
    <3>2. QED BY <2>1, <2>4, <3>1, MovesKeepTasks
  <2>7. QueueOK'
    BY <2>1, MovesKeepQueue
  <2>8. QED BY <1>0, <2>3, <2>6, <2>7
<1>6. QED BY <1>1, <1>2, <1>3, <1>4, <1>5 DEF PrefetchThread, PrefetchStep

\* A client that waits for no prefetch moves alone.
LEMMA ClientAlone ==
    ASSUME ManagerTypeOK, Protocol, NEW c \in Requests, NEW state,
           client' = [client EXCEPT ![c] = state], StateOK(state),
           UNCHANGED <<request, queue, store_task, lookup_task, load_task>>,
           client[c].op # "waiting"
    PROVE  Protocol'
<1>1. client'[c] = state /\ \A x \in Requests \ {c} : client'[x] = client[x]
  BY DEF ManagerTypeOK
<1>2. request[c] = NoRequest
  BY DEF Protocol, RequestsOK
<1>3. ClientsOK'
  BY <1>1 DEF Protocol, ClientsOK
<1>4. RequestsOK'
  <2>1. SUFFICES ASSUME NEW x \in Requests
               PROVE  (/\ request[x].phase # "none" => client[x].op = "waiting"
                       /\ request[x].phase = "none" => request[x] = NoRequest
                       /\ request[x].phase \in {"queued", "lookup", "load"} => request[x].loaded = {}
                       /\ request[x].loaded \subseteq request[x].reserved
                       /\ request[x].reserved \subseteq request[x].keys
                       /\ \A a \in Adapters : request[x].plan[a] \subseteq request[x].reserved
                       /\ request[x].keys \cap client[x].held = {})'
    BY DEF RequestsOK
  <2>2. CASE x = c
    <3>1. request'[x] = NoRequest
      BY <1>2, <2>2
    <3>2. QED BY <3>1 DEF NoRequest, NoPlan
  <2>3. CASE x # c
    <3>1. request'[x] = request[x] /\ client'[x] = client[x]
      BY <1>1, <2>3
    <3>2. QED BY <3>1 DEF Protocol, RequestsOK
  <2>4. QED BY <2>2, <2>3
<1>5. TasksOK' /\ QueueOK'
  BY DEF Protocol, TasksOK, StoreTasksOK, QueueOK
<1>6. QED BY <1>3, <1>4, <1>5 DEF Protocol

\* A retrieve, its completion and the freeing of the locks leave the client in a
\* sound state.
LEMMA RetrieveStates ==
    ASSUME ManagerTypeOK, Protocol, NEW c \in Requests,
           Retrieve(c) \/ RetrieveDone(c) \/ FreeLookupLocks(c)
    PROVE  /\ client[c].op = "ready"
           /\ \E state : client' = [client EXCEPT ![c] = state] /\ StateOK(state)
<1>1. client[c] \in Clients /\ StateOK(client[c]) /\ StateOK(Idle)
  BY DEF ManagerTypeOK, Protocol, ClientsOK, StateOK, Idle
<1>2. client[c].op = "ready"
  BY <1>1 DEF Retrieve, RetrieveDone, FreeLookupLocks, StateOK
<1>3. /\ client[c].left \in Nat /\ client[c].reading \in Nat /\ client[c].skipped = {}
      /\ client[c].left + client[c].reading \in 1..NumWorkers /\ NumWorkers \in Nat
  BY <1>1, <1>2, PrefetchAssumption DEF StateOK, Clients
<1>4. ASSUME NEW left \in Nat, NEW reading \in Nat, NEW state \in Clients, state.op = "ready",
             state.skipped = {}, state.left = left, state.reading = reading,
             left + reading <= NumWorkers
      PROVE  StateOK(Settled(state))
  <2>1. CASE state.left = 0 /\ state.reading = 0
    BY <1>1, <2>1 DEF Settled
  <2>2. CASE ~(state.left = 0 /\ state.reading = 0)
    <3>1. left + reading \in 1..NumWorkers
      BY <1>3, <1>4, <2>2
    <3>2. QED BY <1>4, <2>2, <3>1 DEF Settled, StateOK
  <2>3. QED BY <2>1, <2>2
<1>5. CASE Retrieve(c)
  <2>1. client[c].left > 0
    BY <1>5 DEF Retrieve
  <2>2. PICK s1, s2 : /\ s1 = [client[c] EXCEPT !.left = @ - 1, !.reading = @ + 1]
                      /\ s2 = [client[c] EXCEPT !.left = @ - 1]
    OBVIOUS
  <2>3. client' = [client EXCEPT ![c] = s1] \/ client' = [client EXCEPT ![c] = Settled(s2)]
    BY <1>5, <2>2 DEF Retrieve, Becomes
  <2>4. /\ s1.op = "ready" /\ s1.left = client[c].left - 1 /\ s1.reading = client[c].reading + 1
        /\ s1.skipped = {}
        /\ s2.op = "ready" /\ s2.left = client[c].left - 1 /\ s2.reading = client[c].reading
        /\ s2.skipped = {}
    BY <1>1, <1>2, <1>3, <2>2 DEF Clients
  <2>5. client[c].left - 1 \in Nat /\ s2 \in Clients
    <3>1. client[c].left - 1 \in Nat
      BY <1>3, <2>1
    <3>2. QED BY <1>1, <2>2, <3>1 DEF Clients
  <2>6. s1.left + s1.reading \in 1..NumWorkers
    BY <1>3, <2>4
  <2>7. StateOK(s1)
    BY <2>4, <2>6 DEF StateOK
  <2>8. (client[c].left - 1) + client[c].reading <= NumWorkers
    BY <1>3
  <2>9. StateOK(Settled(s2))
    BY <1>3, <1>4, <2>4, <2>5, <2>8
  <2>10. QED BY <1>2, <2>3, <2>7, <2>9
<1>6. CASE RetrieveDone(c)
  <2>1. client[c].reading > 0
    BY <1>6 DEF RetrieveDone
  <2>2. PICK s2 : s2 = [client[c] EXCEPT !.reading = @ - 1]
    OBVIOUS
  <2>3. client' = [client EXCEPT ![c] = Settled(s2)]
    BY <1>6, <2>2 DEF RetrieveDone, Becomes
  <2>4. /\ s2.op = "ready" /\ s2.left = client[c].left /\ s2.reading = client[c].reading - 1
        /\ s2.skipped = {}
    BY <1>1, <1>2, <1>3, <2>2 DEF Clients
  <2>5. client[c].reading - 1 \in Nat /\ s2 \in Clients
    <3>1. client[c].reading - 1 \in Nat
      BY <1>3, <2>1
    <3>2. QED BY <1>1, <2>2, <3>1 DEF Clients
  <2>6. client[c].left + (client[c].reading - 1) <= NumWorkers
    BY <1>3
  <2>7. StateOK(Settled(s2))
    BY <1>3, <1>4, <2>4, <2>5, <2>6
  <2>8. QED BY <1>2, <2>3, <2>7
<1>7. CASE FreeLookupLocks(c)
  <2>1. PICK keys : client' = [client EXCEPT ![c] = IF keys = client[c].held THEN Idle
                      ELSE [client[c] EXCEPT !.held = @ \ keys]]
    BY <1>7 DEF FreeLookupLocks, Becomes
  <2>2. StateOK([client[c] EXCEPT !.held = @ \ keys])
    BY <1>1, <1>2, <1>3 DEF StateOK, Clients
  <2>3. QED BY <1>1, <1>2, <2>1, <2>2
<1>8. QED BY <1>5, <1>6, <1>7

\* The request handlers keep the protocol.
LEMMA ClientProtocol ==
    ASSUME L1Inv, ManagerTypeOK, Protocol, ClientStep
    PROVE  Protocol'
<1>1. ASSUME NEW c \in Requests, NEW keys \in KeyLists, StoreBegin(c, keys)
      PROVE  Protocol'
  <2>1. PICK reserved, objs :
          client' = [client EXCEPT ![c] = [Idle EXCEPT !.op = "storing", !.held = reserved, !.objs = objs]]
    BY <1>1 DEF StoreBegin, Becomes
  <2>2. StateOK([Idle EXCEPT !.op = "storing", !.held = reserved, !.objs = objs])
    BY DEF StateOK, Idle
  <2>3. client[c].op # "waiting" /\ UNCHANGED <<request, queue, store_task, lookup_task, load_task>>
    BY <1>1 DEF StoreBegin, l2_store_vars, prefetch_vars
  <2>4. QED BY <2>1, <2>2, <2>3, ClientAlone
<1>2. ASSUME NEW c \in Requests, NEW keys \in KeyLists, LookupBegin(c, keys)
      PROVE  Protocol'
  <2>1. PICK found, hits :
          client' = [client EXCEPT ![c] = [Idle EXCEPT !.op = "looking", !.keys = keys, !.held = hits,
                                                       !.skipped = found \ hits]]
    BY <1>2 DEF LookupBegin, Becomes
  <2>2. StateOK([Idle EXCEPT !.op = "looking", !.keys = keys, !.held = hits, !.skipped = found \ hits])
    BY DEF StateOK, Idle
  <2>3. client[c].op # "waiting" /\ UNCHANGED <<request, queue, store_task, lookup_task, load_task>>
    BY <1>2 DEF LookupBegin, l2_vars, prefetch_vars
  <2>4. QED BY <2>1, <2>2, <2>3, ClientAlone
<1>3. ASSUME NEW c \in Requests, StoreEnd(c) PROVE Protocol'
  <2>1. client' = [client EXCEPT ![c] = Idle] /\ StateOK(Idle)
    BY <1>3 DEF StoreEnd, Becomes, StateOK, Idle
  <2>2. client[c].op # "waiting" /\ UNCHANGED <<request, queue, store_task, lookup_task, load_task>>
    BY <1>3 DEF StoreEnd, l2_store_vars, prefetch_vars
  <2>3. QED BY <2>1, <2>2, ClientAlone
<1>4. ASSUME NEW c \in Requests, LookupSubmit(c) PROVE Protocol'
  <2>1. /\ client[c].op = "looking" /\ request[c].phase = "none"
        /\ client' = [client EXCEPT ![c] = [client[c] EXCEPT !.op = "waiting", !.skipped = {}]]
        /\ UNCHANGED l2_vars
        /\ \/ UNCHANGED prefetch_vars
           \/ /\ queue' = Append(queue, c)
              /\ request' = [request EXCEPT ![c] =
                    [phase |-> "queued", keys |-> client[c].keys \ client[c].held, plan |-> NoPlan,
                     reserved |-> {}, loaded |-> {}]]
    BY <1>4, LookupSubmitEffect DEF Protocol
  <2>2. PICK state : state = [client[c] EXCEPT !.op = "waiting", !.skipped = {}]
    OBVIOUS
  <2>3. client[c] \in Clients /\ StateOK(client[c])
    BY DEF ManagerTypeOK, Protocol, ClientsOK
  <2>4. StateOK(state) /\ state.op = "waiting" /\ state.held = client[c].held
    BY <2>1, <2>2, <2>3 DEF StateOK, Clients
  <2>5. UNCHANGED <<store_task, lookup_task, load_task>>
    BY <2>1 DEF l2_vars
  <2>6. CASE UNCHANGED prefetch_vars
    BY <2>1, <2>2, <2>4, <2>5, <2>6, ClientAlone DEF prefetch_vars
  <2>7. CASE /\ queue' = Append(queue, c)
             /\ request' = [request EXCEPT ![c] =
                    [phase |-> "queued", keys |-> client[c].keys \ client[c].held, plan |-> NoPlan,
                     reserved |-> {}, loaded |-> {}]]
    <3>1. /\ request'[c].phase = "queued" /\ request'[c].keys = client[c].keys \ client[c].held
          /\ request'[c].plan = NoPlan /\ request'[c].reserved = {} /\ request'[c].loaded = {}
          /\ \A x \in Requests \ {c} : request'[x] = request[x]
      BY <2>7 DEF ManagerTypeOK, RequestTypeOK
    <3>2. /\ client'[c] = state
          /\ \A x \in Requests \ {c} : client'[x] = client[x]
      BY <2>1, <2>2 DEF ManagerTypeOK
    <3>3. ClientsOK'
      BY <2>4, <3>2 DEF Protocol, ClientsOK
    <3>4. RequestsOK'
      <4>1. SUFFICES ASSUME NEW x \in Requests
               PROVE  (/\ request[x].phase # "none" => client[x].op = "waiting"
                       /\ request[x].phase = "none" => request[x] = NoRequest
                       /\ request[x].phase \in {"queued", "lookup", "load"} => request[x].loaded = {}
                       /\ request[x].loaded \subseteq request[x].reserved
                       /\ request[x].reserved \subseteq request[x].keys
                       /\ \A a \in Adapters : request[x].plan[a] \subseteq request[x].reserved
                       /\ request[x].keys \cap client[x].held = {})'
        BY DEF RequestsOK
      <4>2. CASE x = c
        BY <2>4, <3>1, <3>2, <4>2 DEF NoPlan
      <4>3. CASE x # c
        <5>1. request'[x] = request[x] /\ client'[x] = client[x]
          BY <3>1, <3>2, <4>3
        <5>2. QED BY <5>1 DEF Protocol, RequestsOK
      <4>4. QED BY <4>2, <4>3
    <3>5. TasksOK'
      <4>1. \A a \in Adapters : lookup_task[c][a].status = "none" /\ load_task[c][a].status = "none"
        BY <2>1 DEF Protocol, TasksOK, StoreTasksOK
      <4>2. QED BY <2>5, <3>1, <4>1 DEF Protocol, TasksOK, StoreTasksOK
    <3>6. QueueOK'
      <4>1. queue \in Seq(Requests)
        BY DEF ManagerTypeOK, RequestTypeOK
      <4>2. /\ Len(queue') = Len(queue) + 1 /\ Len(queue) \in Nat
            /\ \A i \in 1..Len(queue') : i \in 1..Len(queue) \/ i = Len(queue) + 1
            /\ \A i \in 1..Len(queue) : queue'[i] = queue[i]
            /\ queue'[Len(queue) + 1] = c
        BY <2>7, <4>1
      <4>3. \A i \in 1..Len(queue) : queue[i] \in Requests \ {c} /\ request[queue[i]].phase = "queued"
        BY <2>1, <4>1 DEF Protocol, QueueOK
      <4>4. \A i \in 1..Len(queue') : request'[queue'[i]].phase = "queued"
        BY <3>1, <4>2, <4>3
      <4>5. \A i, j \in 1..Len(queue') : queue'[i] = queue'[j] => i = j
        BY <4>2, <4>3 DEF Protocol, QueueOK
      <4>6. QED BY <4>4, <4>5 DEF QueueOK
    <3>7. QED BY <3>3, <3>4, <3>5, <3>6 DEF Protocol
  <2>8. QED BY <2>1, <2>6, <2>7
<1>5. ASSUME NEW c \in Requests, Poll(c) PROVE Protocol'
  <2>1. PICK hits :
           /\ client[c].op = "waiting" /\ request[c].phase \in {"none", "done"}
           /\ client' = [client EXCEPT ![c] = IF hits = {} THEN Idle
                 ELSE [Idle EXCEPT !.op = "ready", !.held = hits, !.left = NumWorkers]]
           /\ request' = [request EXCEPT ![c] = NoRequest]
           /\ UNCHANGED <<cache_vars, l2_vars, queue>>
    BY <1>5, PollEffect DEF Protocol
  <2>2. PICK state : state = IF hits = {} THEN Idle
                 ELSE [Idle EXCEPT !.op = "ready", !.held = hits, !.left = NumWorkers]
    OBVIOUS
  <2>3. StateOK(state)
    <3>1. NumWorkers + 0 \in 1..NumWorkers
      BY PrefetchAssumption
    <3>2. QED BY <2>2, <3>1 DEF StateOK, Idle
  <2>4. /\ request'[c] = NoRequest /\ client'[c] = state
        /\ \A x \in Requests \ {c} : request'[x] = request[x] /\ client'[x] = client[x]
    BY <2>1, <2>2 DEF ManagerTypeOK, RequestTypeOK
  <2>5. ClientsOK'
    BY <2>3, <2>4 DEF Protocol, ClientsOK
  <2>6. RequestsOK'
    <3>1. SUFFICES ASSUME NEW x \in Requests
               PROVE  (/\ request[x].phase # "none" => client[x].op = "waiting"
                       /\ request[x].phase = "none" => request[x] = NoRequest
                       /\ request[x].phase \in {"queued", "lookup", "load"} => request[x].loaded = {}
                       /\ request[x].loaded \subseteq request[x].reserved
                       /\ request[x].reserved \subseteq request[x].keys
                       /\ \A a \in Adapters : request[x].plan[a] \subseteq request[x].reserved
                       /\ request[x].keys \cap client[x].held = {})'
      BY DEF RequestsOK
    <3>2. CASE x = c
      BY <2>4, <3>2 DEF NoRequest, NoPlan
    <3>3. CASE x # c
      <4>1. request'[x] = request[x] /\ client'[x] = client[x]
        BY <2>4, <3>3
      <4>2. QED BY <4>1 DEF Protocol, RequestsOK
    <3>4. QED BY <3>2, <3>3
  <2>7. TasksOK'
    <3>1. \A a \in Adapters : lookup_task[c][a].status = "none" /\ load_task[c][a].status = "none"
      BY <2>1 DEF Protocol, TasksOK, StoreTasksOK
    <3>2. UNCHANGED <<store_task, lookup_task, load_task>>
      BY <2>1 DEF l2_vars
    <3>3. QED BY <2>4, <3>1, <3>2 DEF Protocol, TasksOK, StoreTasksOK
  <2>8. QueueOK'
    <3>1. \A i \in 1..Len(queue) : queue[i] \in Requests \ {c}
      BY <2>1 DEF Protocol, QueueOK, ManagerTypeOK, RequestTypeOK
    <3>2. QED BY <2>1, <2>4, <3>1 DEF Protocol, QueueOK
  <2>9. QED BY <2>5, <2>6, <2>7, <2>8 DEF Protocol
<1>6. ASSUME NEW c \in Requests, Retrieve(c) \/ RetrieveDone(c) \/ FreeLookupLocks(c)
      PROVE  Protocol'
  <2>1. PICK state : /\ client[c].op = "ready" /\ StateOK(state)
                     /\ client' = [client EXCEPT ![c] = state]
    BY <1>6, RetrieveStates
  <2>2. UNCHANGED <<request, queue, store_task, lookup_task, load_task>>
    BY <1>6 DEF Retrieve, RetrieveDone, FreeLookupLocks, l2_vars, prefetch_vars
  <2>3. QED BY <2>1, <2>2, ClientAlone
<1>7. QED BY <1>1, <1>2, <1>3, <1>4, <1>5, <1>6 DEF ClientStep

\* Every step keeps the protocol.
LEMMA ProtocolKept ==
    ASSUME L1Inv, ManagerTypeOK, Protocol, [Next]_vars
    PROVE  Protocol'
<1> USE DEF Protocol
<1>1. CASE Clear \/ EvictionStep \/ UNCHANGED vars
  <2>1. UNCHANGED <<request, queue, store_task, lookup_task, load_task, client>>
    BY <1>1 DEF Clear, EvictionStep, vars, l2_vars, prefetch_vars
  <2>2. QED BY <2>1 DEF TasksOK, StoreTasksOK, RequestsOK, QueueOK, ClientsOK
<1>2. CASE StoreThread
  <2>1. UNCHANGED <<request, queue, lookup_task, load_task, client>>
    BY <1>2 DEF StoreThread, StoreStep, StorePopKeys, StoreSubmit, StoreComplete, StoreDelete, l2_vars,
                prefetch_vars
  <2>2. RequestsOK' /\ QueueOK' /\ ClientsOK'
    BY <2>1 DEF RequestsOK, QueueOK, ClientsOK
  <2>3. StoreTasksOK'
    <3>1. CASE UNCHANGED store_task
      BY <3>1 DEF TasksOK, StoreTasksOK
    <3>2. ASSUME NEW s \in StoreTasks, store_task' = [store_task EXCEPT ![s] = NoStoreTask]
          PROVE  StoreTasksOK'
      BY <3>2 DEF TasksOK, StoreTasksOK, NoStoreTask, ManagerTypeOK, TaskTypeOK
    <3>3. ASSUME NEW s \in StoreTasks, NEW keys, NEW a \in Adapters, submit_store_task(s, a, keys)
          PROVE  StoreTasksOK'
      BY <3>3 DEF TasksOK, StoreTasksOK, submit_store_task, ManagerTypeOK, TaskTypeOK
    <3>4. CASE StoreSubmit
      <4>1. targets # {} => Min(targets) \in Adapters
        BY MinIn, L2Assumption DEF ManagerTypeOK
      <4>2. QED BY <3>1, <3>3, <3>4, <4>1 DEF StoreSubmit
    <3>5. CASE StorePopKeys \/ StoreDelete
      BY <3>1, <3>5 DEF StorePopKeys, StoreDelete, l2_vars
    <3>6. ASSUME NEW s \in StoreTasks, StoreComplete(s) PROVE StoreTasksOK'
      BY <3>2, <3>6 DEF StoreComplete
    <3>7. QED BY <1>2, <3>4, <3>5, <3>6 DEF StoreThread, StoreStep
  <2>4. TasksOK'
    BY <2>1, <2>3 DEF TasksOK, StoreTasksOK
  <2>5. QED BY <2>2, <2>4
<1>3. CASE AdapterThread
  <2>1. UNCHANGED <<request, queue, client>>
    BY <1>3 DEF AdapterThread, prefetch_vars
  <2>2. RequestsOK' /\ QueueOK' /\ ClientsOK'
    BY <2>1 DEF RequestsOK, QueueOK, ClientsOK
  <2>3. ASSUME NEW s \in StoreTasks, ExecuteStore(s) PROVE TasksOK'
    <3>1. UNCHANGED <<lookup_task, load_task>> /\ store_task[s].status = "submitted"
      BY <2>3 DEF ExecuteStore
    <3>2. \E ok : \/ store_task' = [store_task EXCEPT ![s] = [store_task[s] EXCEPT !.status = "done", !.ok = ok]]
                  \/ store_task' = [store_task EXCEPT ![s] = [store_task[s] EXCEPT !.status = "done"]]
      <4>1. \E ok : \/ store_task' = [store_task EXCEPT ![s].status = "done", ![s].ok = ok]
                    \/ store_task' = [store_task EXCEPT ![s].status = "done"]
        BY <2>3 DEF ExecuteStore
      <4>2. QED BY <4>1 DEF ManagerTypeOK, TaskTypeOK
    <3>3. store_task[s] \in StoreTaskSet
      BY DEF ManagerTypeOK, TaskTypeOK
    <3>4. /\ store_task'[s].status = "done" /\ store_task'[s].adapter = store_task[s].adapter
          /\ store_task'[s].keys = store_task[s].keys /\ store_task'[s].objs = store_task[s].objs
          /\ \A x \in StoreTasks \ {s} : store_task'[x] = store_task[x]
      <4>1. store_task \in [StoreTasks -> StoreTaskSet]
        BY DEF ManagerTypeOK, TaskTypeOK
      <4>2. PICK t : /\ store_task' = [store_task EXCEPT ![s] = t]
                     /\ \/ \E ok : t = [store_task[s] EXCEPT !.status = "done", !.ok = ok]
                        \/ t = [store_task[s] EXCEPT !.status = "done"]
        BY <3>2
      <4>3. /\ t.status = "done" /\ t.adapter = store_task[s].adapter
            /\ t.keys = store_task[s].keys /\ t.objs = store_task[s].objs
        BY <3>3, <4>2 DEF StoreTaskSet
      <4>4. store_task'[s] = t /\ \A x \in StoreTasks \ {s} : store_task'[x] = store_task[x]
        BY <4>1, <4>2
      <4>5. QED BY <4>3, <4>4
    <3>5. QED BY <2>1, <3>1, <3>4 DEF TasksOK, StoreTasksOK
  <2>4. ASSUME NEW r \in Requests, NEW a \in Adapters, ExecuteLookup(r, a) PROVE TasksOK'
    <3>1. PICK found : lookup_task' = [lookup_task EXCEPT ![r][a] = Completed(lookup_task[r][a], found)]
      BY <2>4 DEF ExecuteLookup
    <3>2. lookup_task[r][a] \in Tasks /\ lookup_task[r][a].status = "submitted"
      BY <2>4 DEF ExecuteLookup, ManagerTypeOK, TaskTypeOK
    <3>3. /\ lookup_task'[r][a].status = "done"
          /\ \A x \in Requests, b \in Adapters : x # r \/ b # a => lookup_task'[x][b] = lookup_task[x][b]
      BY <3>1, <3>2 DEF Completed, Tasks, ManagerTypeOK, TaskTypeOK
    <3>4. UNCHANGED <<store_task, load_task>>
      BY <2>4 DEF ExecuteLookup, l2_store_vars
    <3>5. QED BY <2>1, <3>2, <3>3, <3>4 DEF TasksOK, StoreTasksOK
  <2>5. ASSUME NEW r \in Requests, NEW a \in Adapters, ExecuteLoad(r, a) PROVE TasksOK'
    <3>1. PICK loaded : /\ loaded \subseteq load_task[r][a].keys
                        /\ load_task' = [load_task EXCEPT ![r][a] = Completed(load_task[r][a], loaded)]
      BY <2>5 DEF ExecuteLoad
    <3>2. load_task[r][a] \in Tasks /\ load_task[r][a].status = "submitted"
      BY <2>5 DEF ExecuteLoad, ManagerTypeOK, TaskTypeOK
    <3>3. /\ load_task'[r][a].status = "done" /\ load_task'[r][a].ok = loaded
          /\ load_task'[r][a].keys = load_task[r][a].keys /\ load_task'[r][a].objs = load_task[r][a].objs
          /\ \A x \in Requests, b \in Adapters : x # r \/ b # a => load_task'[x][b] = load_task[x][b]
      BY <3>1, <3>2 DEF Completed, Tasks, ManagerTypeOK, TaskTypeOK
    <3>4. UNCHANGED <<store_task, lookup_task>>
      BY <2>5 DEF ExecuteLoad, l2_store_vars
    <3>5. QED BY <2>1, <3>1, <3>2, <3>3, <3>4 DEF TasksOK, StoreTasksOK
  <2>6. ASSUME NEW a \in Adapters, NEW k \in Keys, ExecuteUnlock(a, k) PROVE TasksOK'
    BY <2>1, <2>6 DEF ExecuteUnlock, l2_store_vars, TasksOK, StoreTasksOK
  <2>7. QED BY <1>3, <2>2, <2>3, <2>4, <2>5, <2>6 DEF AdapterThread, AdapterStep
<1>4. QED BY <1>1, <1>2, <1>3, ClientProtocol, PrefetchProtocol DEF Next

----------------------------------------------------------------------------
(* The locks at the L2 adapters.                                            *)

\* The holders of the lock on key k in adapter a: requests whose lookup found it and
\* is not yet planned ...
Lookers(a, k) ==
    {r \in Requests : lookup_task[r][a].status = "done" /\ k \in lookup_task[r][a].ok}

\* ... and requests that load it.
Loaders(a, k) == {r \in Requests : request[r].phase = "load" /\ k \in request[r].plan[a]}

\* What a lookup has found or a plan contains is stored.
L2KeysStored ==
    \A a \in Adapters, k \in Keys : Lookers(a, k) \cup Loaders(a, k) # {} => k \in Stored(a)

\* A condition counted.
One(P) == IF P THEN 1 ELSE 0

\* What request r contributes to the count of each.
Looks(r, a, k) == One(r \in Lookers(a, k))
Loads(r, a, k) == One(r \in Loaders(a, k))

\* Two subsets of a finite set that differ in one element at most.
LEMMA CountChange ==
    ASSUME NEW U, IsFiniteSet(U), NEW S \in SUBSET U, NEW T \in SUBSET U, NEW x \in U,
           \A y \in U \ {x} : y \in S <=> y \in T
    PROVE  /\ Cardinality(S) \in Nat /\ Cardinality(T) \in Nat
           /\ Cardinality(T) + One(x \in S) = Cardinality(S) + One(x \in T)
           /\ One(x \in S) <= Cardinality(S)
<1>1. IsFiniteSet(S \ {x}) /\ IsFiniteSet(S) /\ IsFiniteSet(T) /\ S \ {x} = T \ {x}
  BY FS_Subset
<1>2. Cardinality(S \ {x}) \in Nat
  BY <1>1, FS_CardinalityType
<1>3. ASSUME NEW V \in SUBSET U, V \ {x} = S \ {x}
      PROVE  Cardinality(V) = Cardinality(S \ {x}) + One(x \in V)
  <2>1. CASE x \in V
    <3>1. V = (S \ {x}) \cup {x} /\ x \notin S \ {x}
      BY <1>3, <2>1
    <3>2. Cardinality(V) = Cardinality(S \ {x}) + 1
      BY <1>1, <3>1, FS_AddElement
    <3>3. QED BY <2>1, <3>2 DEF One
  <2>2. CASE x \notin V
    <3>1. V = S \ {x}
      BY <1>3, <2>2
    <3>2. QED BY <1>2, <2>2, <3>1 DEF One
  <2>3. QED BY <2>1, <2>2
<1>4. /\ Cardinality(S) = Cardinality(S \ {x}) + One(x \in S)
      /\ Cardinality(T) = Cardinality(S \ {x}) + One(x \in T)
  BY <1>1, <1>3
<1>5. One(x \in S) \in Nat /\ One(x \in T) \in Nat
  BY DEF One
<1>6. QED BY <1>2, <1>4, <1>5

\* A step that moves one request, its lookup or its load, with the locks.
LEMMA L2Step ==
    ASSUME ManagerTypeOK, L2LocksAccounted, NEW r \in Requests,
           \A x \in Requests \ {r}, a \in Adapters, k \in Keys :
               /\ x \in Lookers(a, k)' <=> x \in Lookers(a, k)
               /\ x \in Loaders(a, k)' <=> x \in Loaders(a, k),
           \A a \in Adapters, k \in Keys :
               /\ l2_locked'[a][k] \in Nat /\ l2_unlocks'[a][k] \in Nat
               /\ l2_locked'[a][k] + Looks(r, a, k) + Loads(r, a, k) + l2_unlocks[a][k] =
                  l2_locked[a][k] + Looks(r, a, k)' + Loads(r, a, k)' + l2_unlocks'[a][k]
    PROVE  L2LocksAccounted'
<1>1. SUFFICES ASSUME NEW a \in Adapters, NEW k \in Keys
               PROVE  l2_locked'[a][k] = Cardinality(Lookers(a, k)') + Cardinality(Loaders(a, k)')
                                            + l2_unlocks'[a][k]
  BY DEF L2LocksAccounted, Lookers, Loaders
<1>2. l2_locked[a][k] = Cardinality(Lookers(a, k)) + Cardinality(Loaders(a, k)) + l2_unlocks[a][k]
  BY DEF L2LocksAccounted, Lookers, Loaders
<1>3. l2_locked[a][k] \in Nat /\ l2_unlocks[a][k] \in Nat
  BY DEF ManagerTypeOK, AdapterTypeOK
<1>4. /\ Lookers(a, k) \in SUBSET Requests /\ Lookers(a, k)' \in SUBSET Requests
      /\ Loaders(a, k) \in SUBSET Requests /\ Loaders(a, k)' \in SUBSET Requests
      /\ IsFiniteSet(Requests)
  BY L2Assumption DEF Lookers, Loaders
<1>5. /\ Cardinality(Lookers(a, k)) \in Nat /\ Cardinality(Lookers(a, k)') \in Nat
      /\ Cardinality(Lookers(a, k)') + Looks(r, a, k) = Cardinality(Lookers(a, k)) + Looks(r, a, k)'
  BY <1>4, CountChange DEF Looks
<1>6. /\ Cardinality(Loaders(a, k)) \in Nat /\ Cardinality(Loaders(a, k)') \in Nat
      /\ Cardinality(Loaders(a, k)') + Loads(r, a, k) = Cardinality(Loaders(a, k)) + Loads(r, a, k)'
  BY <1>4, CountChange DEF Loads
<1>7. /\ Looks(r, a, k) \in Nat /\ Looks(r, a, k)' \in Nat
      /\ Loads(r, a, k) \in Nat /\ Loads(r, a, k)' \in Nat
  BY DEF Looks, Loads, One
<1>8. /\ l2_locked'[a][k] \in Nat /\ l2_unlocks'[a][k] \in Nat
      /\ l2_locked'[a][k] + Looks(r, a, k) + Loads(r, a, k) + l2_unlocks[a][k] =
         l2_locked[a][k] + Looks(r, a, k)' + Loads(r, a, k)' + l2_unlocks'[a][k]
  OBVIOUS
<1>9. PICK p \in Nat, p1 \in Nat, q \in Nat, q1 \in Nat :
         /\ p = Cardinality(Lookers(a, k)) /\ p1 = Cardinality(Lookers(a, k)')
         /\ q = Cardinality(Loaders(a, k)) /\ q1 = Cardinality(Loaders(a, k)')
  BY <1>5, <1>6
<1>10. PICK x \in Nat, x1 \in Nat, y \in Nat, y1 \in Nat :
         /\ x = Looks(r, a, k) /\ x1 = Looks(r, a, k)' /\ y = Loads(r, a, k) /\ y1 = Loads(r, a, k)'
  BY <1>7
<1>11. PICK l \in Nat, l1 \in Nat, u \in Nat, u1 \in Nat :
         /\ l = l2_locked[a][k] /\ l1 = l2_locked'[a][k] /\ u = l2_unlocks[a][k] /\ u1 = l2_unlocks'[a][k]
  BY <1>3, <1>8
<1>12. /\ l = p + q + u /\ p1 + x = p + x1 /\ q1 + y = q + y1
       /\ l1 + x + y + u = l + x1 + y1 + u1
  BY <1>2, <1>5, <1>6, <1>8, <1>9, <1>10, <1>11
<1>13. l1 = p1 + q1 + u1
  BY <1>12
<1>14. QED BY <1>9, <1>11, <1>13

\* It is locked, too.
LEMMA L2Held ==
    ASSUME ManagerTypeOK, L2LocksAccounted, NEW a \in Adapters, NEW k \in Keys,
           Lookers(a, k) \cup Loaders(a, k) # {}
    PROVE  l2_locked[a][k] # 0
<1>1. PICK r \in Requests : r \in Lookers(a, k) \/ r \in Loaders(a, k)
  BY DEF Lookers, Loaders
<1>2. Lookers(a, k) \in SUBSET Requests /\ Loaders(a, k) \in SUBSET Requests /\ IsFiniteSet(Requests)
  BY L2Assumption DEF Lookers, Loaders
<1>3. /\ Cardinality(Lookers(a, k)) \in Nat /\ One(r \in Lookers(a, k)) <= Cardinality(Lookers(a, k))
      /\ Cardinality(Loaders(a, k)) \in Nat /\ One(r \in Loaders(a, k)) <= Cardinality(Loaders(a, k))
  BY <1>2, CountChange
<1>4. l2_locked[a][k] = Cardinality(Lookers(a, k)) + Cardinality(Loaders(a, k)) + l2_unlocks[a][k]
  BY DEF L2LocksAccounted, Lookers, Loaders
<1>5. l2_unlocks[a][k] \in Nat
  BY DEF ManagerTypeOK, AdapterTypeOK
<1>6. One(TRUE) = 1
  BY DEF One
<1>7. CASE r \in Lookers(a, k)
  <2>1. Cardinality(Lookers(a, k)) >= 1
    BY <1>3, <1>6, <1>7
  <2>2. QED BY <1>3, <1>4, <1>5, <2>1
<1>8. CASE r \in Loaders(a, k)
  <2>1. Cardinality(Loaders(a, k)) >= 1
    BY <1>3, <1>6, <1>8
  <2>2. QED BY <1>3, <1>4, <1>5, <2>1
<1>9. QED BY <1>1, <1>7, <1>8

\* A step that moves no lookup, no load and no lock leaves the locked objects
\* where they are.
LEMMA L2Frame ==
    ASSUME ManagerTypeOK, L2LocksAccounted, L2KeysStored, UNCHANGED <<l2_locked, l2_unlocks>>,
           \A a \in Adapters, k \in Keys :
               /\ Lookers(a, k)' = Lookers(a, k) /\ Loaders(a, k)' = Loaders(a, k)
               /\ l2_locked[a][k] # 0 /\ l2_objects[a][k] # Absent => l2_objects'[a][k] # Absent
    PROVE  L2LocksAccounted' /\ L2KeysStored'
<1>1. ASSUME NEW a \in Adapters, NEW k \in Keys
      PROVE  l2_locked'[a][k] = Cardinality(Lookers(a, k)') + Cardinality(Loaders(a, k)')
                                            + l2_unlocks'[a][k]
  <2>1. l2_locked[a][k] = Cardinality(Lookers(a, k)) + Cardinality(Loaders(a, k)) + l2_unlocks[a][k]
    BY DEF L2LocksAccounted, Lookers, Loaders
  <2>2. Lookers(a, k)' = Lookers(a, k) /\ Loaders(a, k)' = Loaders(a, k)
    OBVIOUS
  <2>3. QED BY <2>1, <2>2
<1>2. L2LocksAccounted'
  BY <1>1 DEF L2LocksAccounted, Lookers, Loaders
<1>3. ASSUME NEW a \in Adapters, NEW k \in Keys, Lookers(a, k)' \cup Loaders(a, k)' # {}
      PROVE  k \in Stored(a)'
  <2>1. Lookers(a, k) \cup Loaders(a, k) # {}
    BY <1>3
  <2>2. l2_locked[a][k] # 0 /\ k \in Stored(a)
    BY <2>1, L2Held DEF L2KeysStored
  <2>3. QED BY <2>2 DEF Stored
<1>4. QED BY <1>2, <1>3 DEF L2KeysStored

\* The same, when the tasks are untouched and no request is or becomes loading.
LEMMA L2RequestsFrame ==
    ASSUME ManagerTypeOK, L2LocksAccounted, L2KeysStored,
           UNCHANGED <<l2_locked, l2_unlocks, l2_objects, lookup_task>>,
           \A x \in Requests : \/ request'[x] = request[x]
                               \/ request[x].phase # "load" /\ request'[x].phase # "load"
    PROVE  L2LocksAccounted' /\ L2KeysStored'
<1>1. \A a \in Adapters, k \in Keys : Lookers(a, k)' = Lookers(a, k)
  BY DEF Lookers
<1>2. \A a \in Adapters, k \in Keys : Loaders(a, k)' = Loaders(a, k)
  <2>1. SUFFICES ASSUME NEW a \in Adapters, NEW k \in Keys, NEW x \in Requests
                 PROVE  (request'[x].phase = "load" /\ k \in request'[x].plan[a]) <=>
                        (request[x].phase = "load" /\ k \in request[x].plan[a])
    BY DEF Loaders
  <2>2. QED OBVIOUS
<1>3. QED BY <1>1, <1>2, L2Frame

\* The prefetch controller's thread moves a lock from a lookup to a load or to the
\* waiting unlocks.
LEMMA L2PrefetchKept ==
    ASSUME L1Inv, ManagerTypeOK, Protocol, L2LocksAccounted, L2KeysStored, PrefetchThread,
           ManagerTypeOK'
    PROVE  L2LocksAccounted' /\ L2KeysStored'
<1> USE DEF Protocol
<1>a. /\ \A a \in Adapters, k \in Keys : l2_locked[a][k] \in Nat /\ l2_unlocks[a][k] \in Nat
      /\ \A a \in Adapters, k \in Keys : l2_locked'[a][k] \in Nat /\ l2_unlocks'[a][k] \in Nat
  BY DEF ManagerTypeOK, AdapterTypeOK
<1>b. lookup_task \in [Requests -> [Adapters -> Tasks]]
  BY DEF ManagerTypeOK, TaskTypeOK
<1>c. /\ One(TRUE) = 1 /\ One(FALSE) = 0
      /\ NoTask.status = "none" /\ NoTask.ok = {} /\ NoTask.keys = {}
  BY DEF One, NoTask
<1>1. CASE PrefetchStart
  <2>1. PICK r \in Requests :
              /\ request[r].phase = "queued"
              /\ Moves(r, "lookup", request[r].plan, request[r].reserved, request[r].loaded)
              /\ lookup_task' = [lookup_task EXCEPT ![r] =
                                    [a \in Adapters |-> Submitted(request[r].keys, <<>>)]]
              /\ UNCHANGED <<cache_vars, content, l2_store_vars, l2_locked, l2_unlocks, load_task>>
    BY <1>1, StartEffect
  <2>2. request'[r].phase = "lookup" /\ \A x \in Requests \ {r} : request'[x] = request[x]
    BY <2>1, MovesFields DEF ManagerTypeOK
  <2>3. \A a \in Adapters : /\ lookup_task[r][a].status = "none"
                            /\ lookup_task'[r][a].status = "submitted"
                            /\ \A x \in Requests \ {r} : lookup_task'[x][a] = lookup_task[x][a]
    BY <1>b, <2>1 DEF TasksOK, Submitted
  <2>4. \A a \in Adapters, k \in Keys : Lookers(a, k)' = Lookers(a, k) /\ Loaders(a, k)' = Loaders(a, k)
    <3>1. SUFFICES ASSUME NEW a \in Adapters, NEW k \in Keys, NEW x \in Requests
                   PROVE  /\ (/\ lookup_task'[x][a].status = "done"
                              /\ k \in lookup_task'[x][a].ok) <=>
                             (/\ lookup_task[x][a].status = "done"
                              /\ k \in lookup_task[x][a].ok)
                          /\ (request'[x].phase = "load" /\ k \in request'[x].plan[a]) <=>
                             (request[x].phase = "load" /\ k \in request[x].plan[a])
      BY DEF Lookers, Loaders
    <3>2. CASE x = r
      BY <2>1, <2>2, <2>3, <3>2
    <3>3. CASE x # r
      BY <2>2, <2>3, <3>3
    <3>4. QED BY <3>2, <3>3
  <2>5. UNCHANGED <<l2_locked, l2_unlocks, l2_objects>>
    BY <2>1 DEF l2_store_vars
  <2>6. QED BY <2>4, <2>5, L2Frame
<1>2. ASSUME NEW r \in Requests, PrefetchNothingFound(r) PROVE L2LocksAccounted' /\ L2KeysStored'
  <2>1. /\ request[r].phase = "lookup" /\ \A a \in Adapters : lookup_task[r][a].status = "done"
        /\ Moves(r, "done", request[r].plan, request[r].reserved, request[r].loaded)
        /\ lookup_task' = [lookup_task EXCEPT ![r] = [a \in Adapters |-> NoTask]]
        /\ l2_unlocks' = [a \in Adapters |-> [k \in Keys |->
              IF k \in lookup_task[r][a].ok THEN l2_unlocks[a][k] + 1 ELSE l2_unlocks[a][k]]]
        /\ UNCHANGED <<cache_vars, content, l2_store_vars, l2_locked, load_task, queue>>
    BY <1>2, NothingFoundEffect
  <2>2. request'[r].phase = "done" /\ \A x \in Requests \ {r} : request'[x] = request[x]
    BY <2>1, MovesFields DEF ManagerTypeOK
  <2>3. \A a \in Adapters : /\ lookup_task'[r][a].status = "none"
                            /\ \A x \in Requests \ {r} : lookup_task'[x][a] = lookup_task[x][a]
    BY <1>b, <1>c, <2>1
  <2>4. \A x \in Requests \ {r}, a \in Adapters, k \in Keys :
               /\ x \in Lookers(a, k)' <=> x \in Lookers(a, k)
               /\ x \in Loaders(a, k)' <=> x \in Loaders(a, k)
    BY <2>2, <2>3 DEF Lookers, Loaders
  <2>5. \A a \in Adapters, k \in Keys :
           /\ r \notin Lookers(a, k)' /\ r \notin Loaders(a, k) /\ r \notin Loaders(a, k)'
           /\ r \in Lookers(a, k) <=> k \in lookup_task[r][a].ok
    BY <2>1, <2>2, <2>3 DEF Lookers, Loaders
  <2>6. ASSUME NEW a \in Adapters, NEW k \in Keys
        PROVE  l2_locked'[a][k] + Looks(r, a, k) + Loads(r, a, k) + l2_unlocks[a][k] =
               l2_locked[a][k] + Looks(r, a, k)' + Loads(r, a, k)' + l2_unlocks'[a][k]
    <3>1. Looks(r, a, k)' = 0 /\ Loads(r, a, k) = 0 /\ Loads(r, a, k)' = 0
      BY <1>c, <2>5 DEF Looks, Loads, One
    <3>2. l2_unlocks'[a][k] = IF k \in lookup_task[r][a].ok THEN l2_unlocks[a][k] + 1 ELSE l2_unlocks[a][k]
      BY <2>1
    <3>3. Looks(r, a, k) = IF k \in lookup_task[r][a].ok THEN 1 ELSE 0
      BY <2>5 DEF Looks, One
    <3>4. l2_locked'[a][k] = l2_locked[a][k]
      BY <2>1
    <3>5. QED BY <1>a, <3>1, <3>2, <3>3, <3>4
  <2>7. L2LocksAccounted'
    BY <1>a, <2>4, <2>6, L2Step
  <2>8. L2KeysStored'
    BY <2>1, <2>4, <2>5 DEF L2KeysStored, Lookers, Loaders, Stored, l2_store_vars
  <2>9. QED BY <2>7, <2>8
<1>3. ASSUME NEW r \in Requests, PrefetchPlan(r) PROVE L2LocksAccounted' /\ L2KeysStored'
  <2>0. PICK reserved \in SUBSET request[r].keys, trimmed \in [Adapters -> SUBSET Keys], phase \in Phases :
              Planned(r, reserved, trimmed, phase)
    BY <1>3, PlanEffect
  <2>1. /\ request[r].phase = "lookup" /\ \A a \in Adapters : lookup_task[r][a].status = "done"
        /\ \A a \in Adapters : trimmed[a] \subseteq lookup_task[r][a].ok
        /\ phase = "load" \/ \A a \in Adapters : trimmed[a] = {}
        /\ Moves(r, phase, trimmed, reserved, {})
        /\ lookup_task' = [lookup_task EXCEPT ![r] = [a \in Adapters |-> NoTask]]
        /\ l2_unlocks' = [a \in Adapters |-> [k \in Keys |->
              IF k \in lookup_task[r][a].ok \ trimmed[a] THEN l2_unlocks[a][k] + 1
                                                         ELSE l2_unlocks[a][k]]]
        /\ UNCHANGED <<l2_objects, l2_locked>>
    BY <2>0 DEF Planned
  <2>2. /\ request'[r].phase = phase /\ request'[r].plan = trimmed
        /\ \A x \in Requests \ {r} : request'[x] = request[x]
    BY <2>1, MovesFields DEF ManagerTypeOK
  <2>3. \A a \in Adapters : /\ lookup_task'[r][a].status = "none"
                            /\ \A x \in Requests \ {r} : lookup_task'[x][a] = lookup_task[x][a]
    BY <1>b, <1>c, <2>1
  <2>4. \A x \in Requests \ {r}, a \in Adapters, k \in Keys :
               /\ x \in Lookers(a, k)' <=> x \in Lookers(a, k)
               /\ x \in Loaders(a, k)' <=> x \in Loaders(a, k)
    BY <2>2, <2>3 DEF Lookers, Loaders
  <2>5. \A a \in Adapters, k \in Keys :
           /\ r \notin Lookers(a, k)' /\ r \notin Loaders(a, k)
           /\ r \in Lookers(a, k) <=> k \in lookup_task[r][a].ok
           /\ r \in Loaders(a, k)' <=> k \in trimmed[a]
    BY <2>1, <2>2, <2>3 DEF Lookers, Loaders
  <2>6. ASSUME NEW a \in Adapters, NEW k \in Keys
        PROVE  l2_locked'[a][k] + Looks(r, a, k) + Loads(r, a, k) + l2_unlocks[a][k] =
               l2_locked[a][k] + Looks(r, a, k)' + Loads(r, a, k)' + l2_unlocks'[a][k]
    <3>1. Looks(r, a, k)' = 0 /\ Loads(r, a, k) = 0
      BY <1>c, <2>5 DEF Looks, Loads, One
    <3>2. l2_unlocks'[a][k] = IF k \in lookup_task[r][a].ok \ trimmed[a] THEN l2_unlocks[a][k] + 1
                                                                         ELSE l2_unlocks[a][k]
      BY <2>1
    <3>3. Looks(r, a, k) = IF k \in lookup_task[r][a].ok THEN 1 ELSE 0
      BY <2>5 DEF Looks, One
    <3>4. Loads(r, a, k)' = IF k \in trimmed[a] THEN 1 ELSE 0
      BY <2>5 DEF Loads, One
    <3>5. l2_locked'[a][k] = l2_locked[a][k] /\ (k \in trimmed[a] => k \in lookup_task[r][a].ok)
      BY <2>1
    <3>6. CASE k \in trimmed[a]
      <4>1. k \in lookup_task[r][a].ok
        BY <3>5, <3>6
      <4>2. Looks(r, a, k) = 1
        BY <3>3, <4>1
      <4>3. Loads(r, a, k)' = 1
        BY <3>4, <3>6
      <4>4. l2_unlocks'[a][k] = l2_unlocks[a][k]
        BY <3>2, <3>6
      <4>5. QED BY <1>a, <3>1, <3>5, <4>2, <4>3, <4>4
    <3>7. CASE k \in lookup_task[r][a].ok \ trimmed[a]
      <4>a. k \in lookup_task[r][a].ok /\ k \notin trimmed[a]
        BY <3>7
      <4>1. Looks(r, a, k) = 1
        BY <3>3, <4>a
      <4>2. Loads(r, a, k)' = 0
        BY <3>4, <4>a
      <4>3. l2_unlocks'[a][k] = l2_unlocks[a][k] + 1
        BY <3>2, <3>7
      <4>b. PICK u \in Nat, l \in Nat : l2_unlocks[a][k] = u /\ l2_locked[a][k] = l
        BY <1>a
      <4>c. l2_locked'[a][k] = l /\ l2_unlocks'[a][k] = u + 1
        BY <3>5, <4>b, <4>3
      <4>4. l2_locked'[a][k] + Looks(r, a, k) + Loads(r, a, k) + l2_unlocks[a][k] = l + 1 + 0 + u
        BY <3>1, <4>1, <4>b, <4>c
      <4>5. l2_locked[a][k] + Looks(r, a, k)' + Loads(r, a, k)' + l2_unlocks'[a][k] = l + 0 + 0 + (u + 1)
        BY <3>1, <4>2, <4>b, <4>c
      <4>6. QED BY <4>b, <4>4, <4>5
    <3>8. CASE k \notin lookup_task[r][a].ok
      BY <1>a, <3>1, <3>2, <3>3, <3>4, <3>5, <3>8
    <3>9. QED BY <3>6, <3>7, <3>8
  <2>7. L2LocksAccounted'
    BY <1>a, <2>4, <2>6, L2Step
  <2>8. L2KeysStored'
    <3>1. \A a \in Adapters, k \in Keys :
             Lookers(a, k)' \cup Loaders(a, k)' # {} => Lookers(a, k) \cup Loaders(a, k) # {}
      <4>1. SUFFICES ASSUME NEW a \in Adapters, NEW k \in Keys, NEW x \in Lookers(a, k)' \cup Loaders(a, k)'
                     PROVE  x \in Lookers(a, k) \cup Loaders(a, k)
        OBVIOUS
      <4>2. x \in Requests
        BY DEF Lookers, Loaders
      <4>3. CASE x = r
        BY <2>1, <2>5, <4>3
      <4>4. CASE x # r
        BY <2>4, <4>2, <4>4
      <4>5. QED BY <4>3, <4>4
    <3>2. \A a \in Adapters : Stored(a)' = Stored(a)
      BY <2>1 DEF Stored
    <3>3. QED BY <3>1, <3>2 DEF L2KeysStored
  <2>9. QED BY <2>7, <2>8
<1>4. ASSUME NEW r \in Requests, PrefetchLoaded(r) PROVE L2LocksAccounted' /\ L2KeysStored'
  <2>1. PICK loaded \in SUBSET request[r].reserved, phase \in {"finish_failed", "release", "done"} :
              /\ request[r].phase = "load"
              /\ Moves(r, phase, request[r].plan, request[r].reserved, loaded)
              /\ l2_unlocks' = [a \in Adapters |-> [k \in Keys |->
                    IF k \in request[r].plan[a] THEN l2_unlocks[a][k] + 1 ELSE l2_unlocks[a][k]]]
              /\ UNCHANGED <<content, l2_store_vars, l2_locked, lookup_task, queue>>
    BY <1>4, LoadedEffect
  <2>2. request'[r].phase # "load" /\ \A x \in Requests \ {r} : request'[x] = request[x]
    BY <2>1, MovesFields DEF ManagerTypeOK
  <2>3. \A x \in Requests, a \in Adapters, k \in Keys :
               /\ x \in Lookers(a, k)' <=> x \in Lookers(a, k)
               /\ x # r => (x \in Loaders(a, k)' <=> x \in Loaders(a, k))
    BY <2>1, <2>2 DEF Lookers, Loaders
  <2>4. \A a \in Adapters, k \in Keys :
           /\ r \notin Loaders(a, k)'
           /\ r \in Loaders(a, k) <=> k \in request[r].plan[a]
    BY <2>1, <2>2 DEF Loaders
  <2>5. ASSUME NEW a \in Adapters, NEW k \in Keys
        PROVE  l2_locked'[a][k] + Looks(r, a, k) + Loads(r, a, k) + l2_unlocks[a][k] =
               l2_locked[a][k] + Looks(r, a, k)' + Loads(r, a, k)' + l2_unlocks'[a][k]
    <3>1. Looks(r, a, k)' = Looks(r, a, k) /\ Looks(r, a, k) \in Nat
      BY <2>3 DEF Looks, One
    <3>2. l2_unlocks'[a][k] = IF k \in request[r].plan[a] THEN l2_unlocks[a][k] + 1
                                                         ELSE l2_unlocks[a][k]
      BY <2>1
    <3>3. Loads(r, a, k) = IF k \in request[r].plan[a] THEN 1 ELSE 0
      BY <2>4 DEF Loads, One
    <3>4. Loads(r, a, k)' = 0
      BY <2>4 DEF Loads, One
    <3>5. l2_locked'[a][k] = l2_locked[a][k]
      BY <2>1
    <3>6. QED BY <1>a, <3>1, <3>2, <3>3, <3>4, <3>5
  <2>6. L2LocksAccounted'
    BY <1>a, <2>3, <2>5, L2Step
  <2>7. L2KeysStored'
    <3>1. \A a \in Adapters, k \in Keys :
             Lookers(a, k)' \cup Loaders(a, k)' # {} => Lookers(a, k) \cup Loaders(a, k) # {}
      <4>1. SUFFICES ASSUME NEW a \in Adapters, NEW k \in Keys, NEW x \in Lookers(a, k)' \cup Loaders(a, k)'
                     PROVE  x \in Lookers(a, k) \cup Loaders(a, k)
        OBVIOUS
      <4>2. x \in Requests
        BY DEF Lookers, Loaders
      <4>3. QED BY <2>3, <2>4, <4>2
    <3>2. \A a \in Adapters : Stored(a)' = Stored(a)
      BY <2>1 DEF Stored, l2_store_vars
    <3>3. QED BY <3>1, <3>2 DEF L2KeysStored
  <2>8. QED BY <2>6, <2>7
<1>5. ASSUME NEW r \in Requests,
             PrefetchFinishFailed(r) \/ PrefetchDeleteFailed(r) \/ PrefetchRelease(r)
      PROVE  L2LocksAccounted' /\ L2KeysStored'
  <2>1. PICK phase \in {"delete_failed", "release", "done"} :
            /\ request[r].phase \in {"finish_failed", "delete_failed", "release"}
            /\ Moves(r, phase, request[r].plan, request[r].reserved, request[r].loaded)
            /\ UNCHANGED <<l2_vars, queue>>
    <3>1. CASE PrefetchFinishFailed(r)
      BY <3>1, FinishFailedEffect
    <3>2. CASE PrefetchDeleteFailed(r)
      BY <3>2, DeleteFailedEffect
    <3>3. CASE PrefetchRelease(r)
      BY <3>3, ReleaseEffect
    <3>4. QED BY <1>5, <3>1, <3>2, <3>3
  <2>2. request'[r].phase = phase /\ \A x \in Requests \ {r} : request'[x] = request[x]
    BY <2>1, MovesFields DEF ManagerTypeOK
  <2>3. QED BY <2>1, <2>2, L2RequestsFrame DEF l2_vars
<1>6. QED BY <1>1, <1>2, <1>3, <1>4, <1>5 DEF PrefetchThread, PrefetchStep

\* The adapters take the lock when they answer a lookup and drop it when an unlock
\* reaches them.
LEMMA L2AdapterKept ==
    ASSUME ManagerTypeOK, Protocol, L2LocksAccounted, L2KeysStored, AdapterThread, ManagerTypeOK'
    PROVE  L2LocksAccounted' /\ L2KeysStored'
<1> USE DEF Protocol
<1>a. /\ \A a \in Adapters, k \in Keys : l2_locked[a][k] \in Nat /\ l2_unlocks[a][k] \in Nat
      /\ \A a \in Adapters, k \in Keys : l2_locked'[a][k] \in Nat /\ l2_unlocks'[a][k] \in Nat
  BY DEF ManagerTypeOK, AdapterTypeOK
<1>b. UNCHANGED request
  BY DEF AdapterThread, prefetch_vars
<1>c. \A a \in Adapters, k \in Keys : Loaders(a, k)' = Loaders(a, k)
  BY <1>b DEF Loaders
<1>1. ASSUME NEW s \in StoreTasks, ExecuteStore(s) PROVE L2LocksAccounted' /\ L2KeysStored'
  <2>1. store_task[s].adapter \in Adapters /\ DOMAIN store_task[s].objs = store_task[s].keys
    BY <1>1 DEF ExecuteStore, TasksOK, StoreTasksOK
  <2>2. \A b \in Adapters, k \in Keys :
                 l2_locked[b][k] # 0 /\ l2_objects[b][k] # Absent => l2_objects'[b][k] # Absent
    BY <1>1, <2>1, StoreOutcome
  <2>3. UNCHANGED <<l2_locked, l2_unlocks, lookup_task>>
    BY <1>1 DEF ExecuteStore
  <2>4. \A a \in Adapters, k \in Keys : Lookers(a, k)' = Lookers(a, k)
    BY <2>3 DEF Lookers
  <2>5. QED BY <1>c, <2>2, <2>3, <2>4, L2Frame
<1>2. ASSUME NEW r \in Requests, NEW b \in Adapters, ExecuteLookup(r, b)
      PROVE  L2LocksAccounted' /\ L2KeysStored'
  <2>1. PICK found : /\ found = lookup_task[r][b].keys \cap Stored(b)
                     /\ lookup_task' = [lookup_task EXCEPT ![r][b] = Completed(lookup_task[r][b], found)]
                     /\ l2_locked' = [l2_locked EXCEPT ![b] = [k \in Keys |->
                            IF k \in found THEN l2_locked[b][k] + 1 ELSE l2_locked[b][k]]]
                     /\ UNCHANGED <<l2_objects, l2_unlocks>>
    BY <1>2 DEF ExecuteLookup, l2_store_vars
  <2>2. lookup_task[r][b] \in Tasks /\ lookup_task[r][b].status = "submitted"
    BY <1>2 DEF ExecuteLookup, ManagerTypeOK, TaskTypeOK
  <2>3. /\ lookup_task'[r][b].status = "done" /\ lookup_task'[r][b].ok = found
        /\ \A x \in Requests, a \in Adapters : x # r \/ a # b => lookup_task'[x][a] = lookup_task[x][a]
    BY <2>1, <2>2 DEF Completed, Tasks, ManagerTypeOK, TaskTypeOK
  <2>4. \A x \in Requests, a \in Adapters, k \in Keys :
            x # r \/ a # b => (x \in Lookers(a, k)' <=> x \in Lookers(a, k))
    BY <2>3 DEF Lookers
  <2>5. \A k \in Keys : /\ r \notin Lookers(b, k)
                        /\ r \in Lookers(b, k)' <=> k \in found
    BY <2>2, <2>3 DEF Lookers
  <2>6. ASSUME NEW a \in Adapters, NEW k \in Keys
        PROVE  l2_locked'[a][k] + Looks(r, a, k) + Loads(r, a, k) + l2_unlocks[a][k] =
               l2_locked[a][k] + Looks(r, a, k)' + Loads(r, a, k)' + l2_unlocks'[a][k]
    <3>1. Loads(r, a, k)' = Loads(r, a, k) /\ Loads(r, a, k) \in Nat
      BY <1>c DEF Loads, One
    <3>2. l2_unlocks'[a][k] = l2_unlocks[a][k]
      BY <2>1
    <3>3. CASE a = b
      <4>1. Looks(r, a, k) = 0 /\ Looks(r, a, k)' = IF k \in found THEN 1 ELSE 0
        BY <2>5, <3>3 DEF Looks, One
      <4>2. l2_locked'[a][k] = IF k \in found THEN l2_locked[a][k] + 1 ELSE l2_locked[a][k]
        BY <2>1, <3>3 DEF ManagerTypeOK, AdapterTypeOK
      <4>3. QED BY <1>a, <3>1, <3>2, <4>1, <4>2
    <3>4. CASE a # b
      <4>1. Looks(r, a, k)' = Looks(r, a, k) /\ Looks(r, a, k) \in Nat
        BY <2>4, <3>4 DEF Looks, One
      <4>2. l2_locked'[a][k] = l2_locked[a][k]
        BY <2>1, <3>4 DEF ManagerTypeOK, AdapterTypeOK
      <4>3. QED BY <1>a, <3>1, <3>2, <4>1, <4>2
    <3>5. QED BY <3>3, <3>4
  <2>7. L2LocksAccounted'
    <3>1. \A x \in Requests \ {r}, a \in Adapters, k \in Keys :
               /\ x \in Lookers(a, k)' <=> x \in Lookers(a, k)
               /\ x \in Loaders(a, k)' <=> x \in Loaders(a, k)
      BY <1>c, <2>4
    <3>2. QED BY <1>a, <2>6, <3>1, L2Step
  <2>8. L2KeysStored'
    <3>1. SUFFICES ASSUME NEW a \in Adapters, NEW k \in Keys, NEW x \in Lookers(a, k)' \cup Loaders(a, k)'
                   PROVE  k \in Stored(a)
      BY <2>1 DEF L2KeysStored, Stored
    <3>2. x \in Requests
      BY DEF Lookers, Loaders
    <3>3. CASE x \in Lookers(a, k) \cup Loaders(a, k)
      BY <3>3 DEF L2KeysStored
    <3>4. CASE x \notin Lookers(a, k) \cup Loaders(a, k)
      <4>1. x \in Lookers(a, k)' /\ x = r /\ a = b
        BY <1>c, <2>4, <3>2, <3>4
      <4>2. k \in found
        BY <2>5, <4>1
      <4>3. QED BY <2>1, <4>1, <4>2
    <3>5. QED BY <3>3, <3>4
  <2>9. QED BY <2>7, <2>8
<1>3. ASSUME NEW r \in Requests, NEW b \in Adapters, ExecuteLoad(r, b)
      PROVE  L2LocksAccounted' /\ L2KeysStored'
  <2>1. UNCHANGED <<l2_locked, l2_unlocks, l2_objects, lookup_task>>
    BY <1>3 DEF ExecuteLoad, l2_store_vars
  <2>2. QED BY <1>b, <2>1, L2RequestsFrame
<1>4. ASSUME NEW b \in Adapters, NEW j \in Keys, ExecuteUnlock(b, j)
      PROVE  L2LocksAccounted' /\ L2KeysStored'
  <2>1. /\ l2_unlocks[b][j] > 0
        /\ l2_unlocks' = [l2_unlocks EXCEPT ![b][j] = l2_unlocks[b][j] - 1]
        /\ l2_locked' = [l2_locked EXCEPT ![b][j] = IF l2_locked[b][j] <= 1 THEN 0 ELSE l2_locked[b][j] - 1]
        /\ UNCHANGED <<l2_objects, lookup_task>>
    BY <1>4 DEF ExecuteUnlock, l2_store_vars
  <2>2. \A a \in Adapters, k \in Keys : Lookers(a, k)' = Lookers(a, k)
    BY <2>1 DEF Lookers
  <2>3. ASSUME NEW a \in Adapters, NEW k \in Keys
        PROVE  l2_locked'[a][k] = Cardinality(Lookers(a, k)') + Cardinality(Loaders(a, k)')
                                            + l2_unlocks'[a][k]
    <3>1. l2_locked[a][k] = Cardinality(Lookers(a, k)) + Cardinality(Loaders(a, k)) + l2_unlocks[a][k]
      BY DEF L2LocksAccounted, Lookers, Loaders
    <3>2. PICK p, q : p = Cardinality(Lookers(a, k)) /\ q = Cardinality(Loaders(a, k))
      OBVIOUS
    <3>3. p \in Nat /\ q \in Nat
      <4>1. IsFiniteSet(Lookers(a, k)) /\ IsFiniteSet(Loaders(a, k))
        BY L2Assumption, FS_Subset DEF Lookers, Loaders
      <4>2. QED BY <3>2, <4>1, FS_CardinalityType
    <3>4. Cardinality(Lookers(a, k)') = p /\ Cardinality(Loaders(a, k)') = q
      <4>1. Lookers(a, k)' = Lookers(a, k) /\ Loaders(a, k)' = Loaders(a, k)
        BY <1>c, <2>2
      <4>2. QED BY <3>2, <4>1
    <3>5. l2_locked'[a][k] = p + q + l2_unlocks'[a][k]
      <4>1. CASE a = b /\ k = j
        <5>1. /\ l2_unlocks'[a][k] = l2_unlocks[a][k] - 1
              /\ l2_locked'[a][k] = IF l2_locked[a][k] <= 1 THEN 0 ELSE l2_locked[a][k] - 1
          BY <2>1, <4>1 DEF ManagerTypeOK, AdapterTypeOK
        <5>2. QED BY <1>a, <2>1, <3>1, <3>2, <3>3, <4>1, <5>1
      <4>2. CASE ~(a = b /\ k = j)
        <5>1. l2_unlocks'[a][k] = l2_unlocks[a][k] /\ l2_locked'[a][k] = l2_locked[a][k]
          BY <2>1, <4>2 DEF ManagerTypeOK, AdapterTypeOK
        <5>2. QED BY <3>1, <3>2, <5>1
      <4>3. QED BY <4>1, <4>2
    <3>6. QED BY <3>4, <3>5
  <2>4. L2LocksAccounted'
    BY <2>3 DEF L2LocksAccounted, Lookers, Loaders
  <2>5. L2KeysStored'
    BY <1>c, <2>1, <2>2 DEF L2KeysStored, Stored
  <2>6. QED BY <2>4, <2>5
<1>5. QED BY <1>1, <1>2, <1>3, <1>4 DEF AdapterThread, AdapterStep

\* Every other step leaves the L2 locks alone.
LEMMA L2Kept ==
    ASSUME L1Inv, ManagerTypeOK, Protocol, L2LocksAccounted, L2KeysStored, [Next]_vars, ManagerTypeOK'
    PROVE  L2LocksAccounted' /\ L2KeysStored'
<1>1. CASE Clear \/ EvictionStep \/ UNCHANGED vars \/ StoreThread
  <2>1. UNCHANGED <<l2_locked, l2_unlocks, l2_objects, lookup_task, request>>
    BY <1>1 DEF Clear, EvictionStep, vars, l2_vars, prefetch_vars, StoreThread, StoreStep, StorePopKeys,
                StoreSubmit, StoreComplete, StoreDelete
  <2>2. QED BY <2>1, L2RequestsFrame
<1>2. CASE ClientStep
  <2>1. ASSUME NEW c \in Requests, NEW keys \in KeyLists, StoreBegin(c, keys) \/ LookupBegin(c, keys)
        PROVE  L2LocksAccounted' /\ L2KeysStored'
    <3>1. UNCHANGED <<l2_locked, l2_unlocks, l2_objects, lookup_task, request>>
      BY <2>1 DEF StoreBegin, LookupBegin, l2_vars, l2_store_vars, prefetch_vars
    <3>2. QED BY <3>1, L2RequestsFrame
  <2>2. ASSUME NEW c \in Requests,
               StoreEnd(c) \/ Retrieve(c) \/ RetrieveDone(c) \/ FreeLookupLocks(c)
        PROVE  L2LocksAccounted' /\ L2KeysStored'
    <3>1. UNCHANGED <<l2_locked, l2_unlocks, l2_objects, lookup_task, request>>
      BY <2>2 DEF StoreEnd, Retrieve, RetrieveDone, FreeLookupLocks, l2_vars, l2_store_vars, prefetch_vars
    <3>2. QED BY <3>1, L2RequestsFrame
  <2>3. ASSUME NEW c \in Requests, LookupSubmit(c) \/ Poll(c)
        PROVE  L2LocksAccounted' /\ L2KeysStored'
    <3>1. /\ UNCHANGED <<l2_locked, l2_unlocks, l2_objects, lookup_task>>
          /\ \A x \in Requests : \/ request'[x] = request[x]
                                 \/ request[x].phase # "load" /\ request'[x].phase # "load"
      <4>1. CASE LookupSubmit(c)
        <5>1. /\ request[c].phase = "none" /\ UNCHANGED l2_vars
              /\ \/ UNCHANGED prefetch_vars
                 \/ /\ queue' = Append(queue, c)
                    /\ request' = [request EXCEPT ![c] =
                          [phase |-> "queued", keys |-> client[c].keys \ client[c].held, plan |-> NoPlan,
                           reserved |-> {}, loaded |-> {}]]
          BY <4>1, LookupSubmitEffect DEF Protocol
        <5>2. QED BY <5>1 DEF l2_vars, prefetch_vars, ManagerTypeOK, RequestTypeOK
      <4>2. CASE Poll(c)
        <5>1. /\ request[c].phase \in {"none", "done"}
              /\ request' = [request EXCEPT ![c] = NoRequest]
              /\ UNCHANGED <<cache_vars, l2_vars, queue>>
          BY <4>2, PollEffect DEF Protocol
        <5>2. QED BY <5>1 DEF l2_vars, ManagerTypeOK, RequestTypeOK, NoRequest
      <4>3. QED BY <2>3, <4>1, <4>2
    <3>2. QED BY <3>1, L2RequestsFrame
  <2>4. QED BY <1>2, <2>1, <2>2, <2>3 DEF ClientStep
<1>3. QED BY <1>1, <1>2, L2PrefetchKept, L2AdapterKept DEF Next

----------------------------------------------------------------------------
(* The first theorems: the locks of L2, for every run of the system.        *)

L2Inv == L1Inv /\ ManagerTypeOK /\ Protocol /\ L2LocksAccounted /\ L2KeysStored

\* Nothing is locked, requested or in flight at the start.
LEMMA L2InvInit == Init => L2Inv
<1> SUFFICES ASSUME Init PROVE L2Inv
  OBVIOUS
<1>1. L1Inv
  BY L1Assumption DEF Init, CacheInit, L1Init, L1Inv, L1TypeOK, ReadersExcludeWriters, NoBufferShared,
         NoBufferLeaked, LocksOnResidentKeys, Locked, WriteLocked, ReadLocked, Resident
<1>2. /\ store_task = [s \in StoreTasks |-> NoStoreTask]
      /\ lookup_task = [r \in Requests |-> [a \in Adapters |-> NoTask]]
      /\ load_task = [r \in Requests |-> [a \in Adapters |-> NoTask]]
      /\ request = [r \in Requests |-> NoRequest] /\ queue = <<>>
      /\ client = [c \in Requests |-> Idle]
      /\ l2_locked = [a \in Adapters |-> [k \in Keys |-> 0]]
      /\ l2_unlocks = [a \in Adapters |-> [k \in Keys |-> 0]]
  BY DEF Init, L2Init, PrefetchInit
<1>3. /\ NoStoreTask.status = "none" /\ NoStoreTask.keys = {}
      /\ NoTask.status = "none" /\ NoTask.keys = {} /\ NoTask.ok = {}
      /\ NoRequest.phase = "none" /\ NoRequest.keys = {} /\ NoRequest.plan = NoPlan
      /\ NoRequest.reserved = {} /\ NoRequest.loaded = {}
      /\ \A a \in Adapters : NoPlan[a] = {}
      /\ StateOK(Idle)
  BY DEF NoStoreTask, NoTask, NoRequest, NoPlan, StateOK, Idle
<1>4. TasksOK
  BY <1>2, <1>3 DEF TasksOK, StoreTasksOK
<1>5. RequestsOK /\ ClientsOK
  BY <1>2, <1>3 DEF RequestsOK, ClientsOK
<1>6. QueueOK
  BY <1>2 DEF QueueOK
<1>7. \A a \in Adapters, k \in Keys : Lookers(a, k) = {} /\ Loaders(a, k) = {}
  BY <1>2, <1>3 DEF Lookers, Loaders
<1>8. L2LocksAccounted
  <2>1. SUFFICES ASSUME NEW a \in Adapters, NEW k \in Keys
               PROVE  l2_locked[a][k] = Cardinality(Lookers(a, k)) + Cardinality(Loaders(a, k))
                                            + l2_unlocks[a][k]
    BY DEF L2LocksAccounted, Lookers, Loaders
  <2>2. Cardinality(Lookers(a, k)) = 0 /\ Cardinality(Loaders(a, k)) = 0
    BY <1>7, FS_EmptySet
  <2>3. l2_locked[a][k] = 0 /\ l2_unlocks[a][k] = 0
    BY <1>2
  <2>4. QED BY <2>2, <2>3
<1>9. L2KeysStored
  BY <1>7 DEF L2KeysStored
<1>10. QED BY <1>1, <1>4, <1>5, <1>6, <1>8, <1>9, ManagerTypeInit DEF L2Inv, Protocol

\* The inductive step.
LEMMA L2InvKept == L2Inv /\ [Next]_vars => L2Inv'
<1> SUFFICES ASSUME L2Inv, [Next]_vars PROVE L2Inv'
  OBVIOUS
<1>1. L1Inv /\ ManagerTypeOK /\ Protocol /\ L2LocksAccounted /\ L2KeysStored /\ TasksOK
  BY DEF L2Inv, Protocol
<1>2. L1Inv'
  BY <1>1, CacheKept
<1>3. ManagerTypeOK'
  BY <1>1, TypesKept
<1>4. Protocol'
  BY <1>1, ProtocolKept
<1>5. L2LocksAccounted' /\ L2KeysStored'
  BY <1>1, <1>3, L2Kept
<1>6. QED BY <1>2, <1>3, <1>4, <1>5 DEF L2Inv

\* The invariant of every behaviour.
LEMMA L2InvHolds == Spec => []L2Inv
  BY L2InvInit, L2InvKept, PTL DEF Spec

\* Every lock that lookup_and_lock takes at an L2 adapter belongs to a lookup not
\* yet planned, to a load in progress or to an unlock under way: however the
\* threads interleave, whatever fails, no path of the prefetch controller loses
\* one or returns one twice.
THEOREM L2LocksAreAccounted == Spec => []L2LocksAccounted
<1>1. L2Inv => L2LocksAccounted
  BY DEF L2Inv
<1>2. QED BY <1>1, L2InvHolds, PTL

\* What a submitted load is about to read is still in L2, with an adapter of any
\* capacity that evicts at any moment.
THEOREM LoadsFindData == Spec => []LoadFindsData
<1>1. L2Inv => LoadFindsData
  <2>1. SUFFICES ASSUME L2Inv, NEW r \in Requests, NEW a \in Adapters,
                        load_task[r][a].status = "submitted", NEW k \in load_task[r][a].keys
                 PROVE  k \in Stored(a)
    BY DEF LoadFindsData
  <2>2. request[r].phase = "load" /\ load_task[r][a].keys = request[r].plan[a]
    BY <2>1 DEF L2Inv, Protocol, TasksOK
  <2>3. load_task[r][a] \in Tasks
    BY <2>1 DEF L2Inv, ManagerTypeOK, TaskTypeOK
  <2>4. k \in Keys
    BY <2>1, <2>3 DEF Tasks
  <2>5. r \in Loaders(a, k)
    BY <2>1, <2>2 DEF Loaders
  <2>6. QED BY <2>1, <2>4, <2>5 DEF L2Inv, L2KeysStored
<1>2. QED BY <1>1, L2InvHolds, PTL

----------------------------------------------------------------------------
(* The storage manager implements the cache in an open environment.         *)

\* The extra_count arguments that the handlers and the controllers pass.
CountsCovered == {0, NumWorkers - 1} \subseteq ExtraCounts

\* A call of Callers, whatever the set of keys it is given.
LEMMA AnyCall ==
    ASSUME NEW keys, UNCHANGED eviction_vars,
           \/ l1_finish_write(keys) \/ l1_delete(keys)
           \/ \E n \in ExtraCounts : \/ l1_reserve_read(keys, n) \/ l1_finish_read(keys, n)
                                     \/ l1_finish_write_and_reserve_read(keys, n)
    PROVE  CacheNext
<1> DEFINE known == keys \cap Keys
<1>1. known \in SUBSET Keys
  OBVIOUS
<1>2. /\ reserve_read_done(known) = reserve_read_done(keys)
      /\ finish_read_done(known) = finish_read_done(keys)
      /\ finish_write_done(known) = finish_write_done(keys)
      /\ delete_done(known) = delete_done(keys)
  BY OnlyKeysMatter
<1>3. \A n : finish_read_deleted(known, n) = finish_read_deleted(keys, n)
  BY <1>2 DEF finish_read_deleted
<1> HIDE DEF known
<1>4. CASE l1_finish_write(keys)
  <2>1. l1_finish_write(known)
    BY <1>2, <1>4 DEF l1_finish_write, finish_write
  <2>2. QED BY <1>1, <2>1 DEF CacheNext, Callers
<1>5. CASE l1_delete(keys)
  <2>1. l1_delete(known)
    BY <1>2, <1>5 DEF l1_delete, delete
  <2>2. QED BY <1>1, <2>1 DEF CacheNext, Callers
<1>6. ASSUME NEW n \in ExtraCounts, l1_reserve_read(keys, n) PROVE CacheNext
  <2>1. l1_reserve_read(known, n)
    BY <1>2, <1>6 DEF l1_reserve_read, reserve_read
  <2>2. QED BY <1>1, <2>1 DEF CacheNext, Callers
<1>7. ASSUME NEW n \in ExtraCounts, l1_finish_read(keys, n) PROVE CacheNext
  <2>1. l1_finish_read(known, n)
    BY <1>2, <1>3, <1>7 DEF l1_finish_read, finish_read
  <2>2. QED BY <1>1, <2>1 DEF CacheNext, Callers
<1>8. ASSUME NEW n \in ExtraCounts, l1_finish_write_and_reserve_read(keys, n) PROVE CacheNext
  <2>1. l1_finish_write_and_reserve_read(known, n)
    BY <1>2, <1>8 DEF l1_finish_write_and_reserve_read, finish_write_and_reserve_read
  <2>2. QED BY <1>1, <2>1 DEF CacheNext, Callers
<1>9. QED BY <1>4, <1>5, <1>6, <1>7, <1>8

\* A reservation of new keys, temporary or not.
LEMMA AnyReservation ==
    ASSUME NEW keys \in SUBSET Keys, NEW temporary \in {{}, keys},
           l1_reserve_write(keys, temporary, "new"), UNCHANGED eviction_vars
    PROVE  CacheNext
  BY DEF CacheNext, Callers, Modes

\* Every step of the request handlers, of the eviction thread, of the two
\* controllers and of the adapters makes one call into the cache at most.
LEMMA ManagerStepIsCacheStep ==
    CountsCovered /\ ManagerTypeOK /\ [Next]_vars => [CacheNext]_cache_vars
<1> SUFFICES ASSUME CountsCovered, ManagerTypeOK, [Next]_vars PROVE [CacheNext]_cache_vars
  OBVIOUS
<1>1. 0 \in ExtraCounts /\ NumWorkers - 1 \in ExtraCounts
  BY DEF CountsCovered
<1>2. CASE ClientStep
  <2>1. ASSUME NEW c \in Requests, NEW keys \in KeyLists, StoreBegin(c, keys) PROVE CacheNext
    <3>1. keys \in SUBSET Keys
      BY ManagerAssumption
    <3>2. l1_reserve_write(keys, {}, "new") /\ UNCHANGED eviction_vars
      BY <2>1 DEF StoreBegin
    <3>3. QED BY <3>1, <3>2, AnyReservation
  <2>2. ASSUME NEW c \in Requests, NEW keys \in KeyLists, LookupBegin(c, keys) PROVE CacheNext
    <3>1. l1_reserve_read(keys, NumWorkers - 1) /\ UNCHANGED eviction_vars
      BY <2>2 DEF LookupBegin
    <3>2. QED BY <1>1, <3>1, AnyCall
  <2>3. ASSUME NEW c \in Requests, StoreEnd(c) PROVE CacheNext
    <3>1. l1_finish_write(client[c].held) /\ UNCHANGED eviction_vars
      BY <2>3 DEF StoreEnd
    <3>2. QED BY <3>1, AnyCall
  <2>4. ASSUME NEW c \in Requests, LookupSubmit(c) PROVE CacheNext
    <3>1. l1_finish_read(client[c].skipped, NumWorkers - 1) /\ UNCHANGED eviction_vars
      BY <2>4 DEF LookupSubmit
    <3>2. QED BY <1>1, <3>1, AnyCall
  <2>5. ASSUME NEW c \in Requests, Poll(c) PROVE UNCHANGED cache_vars
    BY <2>5 DEF Poll
  <2>6. ASSUME NEW c \in Requests, Retrieve(c) PROVE [CacheNext]_cache_vars
    <3>1. /\ UNCHANGED eviction_vars
          /\ \/ UNCHANGED <<l1vars, order, pending_keys>>
             \/ l1_finish_read(unsafe_read_done(client[c].held), 0)
      BY <2>6 DEF Retrieve
    <3>2. CASE UNCHANGED <<l1vars, order, pending_keys>>
      BY <3>1, <3>2 DEF cache_vars
    <3>3. CASE l1_finish_read(unsafe_read_done(client[c].held), 0)
      BY <1>1, <3>1, <3>3, AnyCall
    <3>4. QED BY <3>1, <3>2, <3>3
  <2>7. ASSUME NEW c \in Requests, RetrieveDone(c) PROVE CacheNext
    <3>1. l1_finish_read(client[c].held, 0) /\ UNCHANGED eviction_vars
      BY <2>7 DEF RetrieveDone
    <3>2. QED BY <1>1, <3>1, AnyCall
  <2>8. ASSUME NEW c \in Requests, FreeLookupLocks(c) PROVE CacheNext
    <3>1. PICK keys : l1_finish_read(keys, NumWorkers - 1) /\ UNCHANGED eviction_vars
      BY <2>8 DEF FreeLookupLocks
    <3>2. QED BY <1>1, <3>1, AnyCall
  <2>9. QED BY <1>2, <2>1, <2>2, <2>3, <2>4, <2>5, <2>6, <2>7, <2>8 DEF ClientStep
<1>3. CASE Clear
  BY <1>3, ManagerAssumption DEF Clear, CacheNext, Callers
<1>4. CASE EvictionStep
  BY <1>4 DEF EvictionStep, CacheNext
<1>5. CASE StoreThread
  <2>1. CASE StorePopKeys
    BY <2>1 DEF StorePopKeys, CacheNext, Callers
  <2>2. CASE StoreSubmit
    <3>1. l1_reserve_read(batch, 0) /\ UNCHANGED eviction_vars
      BY <2>2 DEF StoreSubmit
    <3>2. QED BY <1>1, <3>1, AnyCall
  <2>3. ASSUME NEW s \in StoreTasks, StoreComplete(s) PROVE CacheNext
    <3>1. l1_finish_read(store_task[s].keys, 0) /\ UNCHANGED eviction_vars
      BY <2>3 DEF StoreComplete
    <3>2. QED BY <1>1, <3>1, AnyCall
  <2>4. CASE StoreDelete
    <3>1. l1_delete(deletions) /\ UNCHANGED eviction_vars
      BY <2>4 DEF StoreDelete
    <3>2. QED BY <3>1, AnyCall
  <2>5. QED BY <1>5, <2>1, <2>2, <2>3, <2>4 DEF StoreThread, StoreStep
<1>6. CASE PrefetchThread
  <2>1. CASE PrefetchStart
    BY <2>1 DEF PrefetchStart
  <2>2. ASSUME NEW r \in Requests, PrefetchNothingFound(r) PROVE UNCHANGED cache_vars
    BY <2>2 DEF PrefetchNothingFound
  <2>3. ASSUME NEW r \in Requests, PrefetchPlan(r) PROVE CacheNext
    <3>1. PICK wanted : /\ wanted = Prefix(request[r].keys, Merged(select_load_plan(lookup_results(r))))
                        /\ l1_reserve_write(wanted, wanted, "new")
                        /\ UNCHANGED eviction_vars
      BY <2>3 DEF PrefetchPlan
    <3>2. request[r].keys \in SUBSET Keys
      BY DEF ManagerTypeOK, RequestTypeOK, Prefetches
    <3>3. wanted \in SUBSET Keys
      BY <3>1, <3>2 DEF Prefix
    <3>4. QED BY <3>1, <3>3, AnyReservation
  <2>4. ASSUME NEW r \in Requests, PrefetchLoaded(r) PROVE CacheNext
    <3>1. PICK keys : /\ l1_finish_write_and_reserve_read(keys, NumWorkers - 1)
                      /\ UNCHANGED eviction_vars
      BY <2>4 DEF PrefetchLoaded
    <3>2. QED BY <1>1, <3>1, AnyCall
  <2>5. ASSUME NEW r \in Requests, PrefetchFinishFailed(r) PROVE CacheNext
    <3>1. l1_finish_write(request[r].reserved \ request[r].loaded) /\ UNCHANGED eviction_vars
      BY <2>5 DEF PrefetchFinishFailed
    <3>2. QED BY <3>1, AnyCall
  <2>6. ASSUME NEW r \in Requests, PrefetchDeleteFailed(r) PROVE CacheNext
    <3>1. l1_delete(request[r].reserved \ request[r].loaded) /\ UNCHANGED eviction_vars
      BY <2>6 DEF PrefetchDeleteFailed
    <3>2. QED BY <3>1, AnyCall
  <2>7. ASSUME NEW r \in Requests, PrefetchRelease(r) PROVE CacheNext
    <3>1. PICK keys : l1_finish_read(keys, NumWorkers - 1) /\ UNCHANGED eviction_vars
      BY <2>7 DEF PrefetchRelease
    <3>2. QED BY <1>1, <3>1, AnyCall
  <2>8. QED BY <1>6, <2>1, <2>2, <2>3, <2>4, <2>5, <2>6, <2>7 DEF PrefetchThread, PrefetchStep
<1>7. CASE AdapterThread
  BY <1>7 DEF AdapterThread, AdapterStep
<1>8. CASE UNCHANGED vars
  BY <1>8 DEF vars
<1>9. QED BY <1>2, <1>3, <1>4, <1>5, <1>6, <1>7, <1>8 DEF Next

\* The handlers, the controllers and the clear of a client drive the L1 cache
\* only in ways that the open environment of CacheSpec covers: the composition
\* of all threads is one of the cache's behaviours.
THEOREM ManagerImplementsCache ==
    ASSUME CountsCovered
    PROVE  Spec => CacheSpec
<1>1. Init => CacheInit
  BY DEF Init
<1>2. L2Inv /\ [Next]_vars => [CacheNext]_cache_vars
  BY ManagerStepIsCacheStep DEF L2Inv
<1>3. QED BY <1>1, <1>2, L2InvHolds, PTL DEF Spec, CacheSpec

\* What the cache promises to any callers it promises to these: nothing listed
\* for eviction is gone, no step takes the buffer of a locked key except the last
\* read of a temporary object and a forced clear, and readers exclude writers.
THEOREM ManagerKeepsCachePromises ==
    ASSUME CountsCovered
    PROVE  Spec => []OrderFollowsCache /\ BuffersPinned /\ []ReadersExcludeWriters
<1>1. QED BY ManagerImplementsCache, OrderIsTheCache, CacheImplementsManager,
             L1BuffersStayPinned, L1Exclusion, PTL
=============================================================================
