--------------------------- MODULE ConnectorProofs ---------------------------
(***************************************************************************)
(* The vLLM connector, for any chunk size, prompts, bound on the tokens    *)
(* and configurations: HolesAreShortStores and LossIsBeforeFailure.  Its   *)
(* layerwise form, for any prompts and number of layers:                   *)
(* PromisedLayersStay and PutAfterCopy.  Its asynchronous loading, for any *)
(* workers, chunks and number of lookups: AnswerIsLoaded.                  *)
(*                                                                         *)
(* HolesAreShortStores rests on CachedWasEver: a lookup takes its count    *)
(* from the cache of the moment, and the tracker starts from that count.   *)
(* LossIsBeforeFailure rests on MissingIsCounted: a full chunk that        *)
(* ret_mask lacks is more than the tokens vLLM had of the chunk the load   *)
(* starts in, which are all that start_load_kv counts too much.            *)
(*                                                                         *)
(* PromisedLayersStay rests on PinsHeld: a layer has a pin for every       *)
(* request that was promised its chunk, so that the unpin of one request   *)
(* leaves those of the others.  PutAfterCopy rests on StreamClean: once    *)
(* the first storer of a batch has waited for the stream, only copies of   *)
(* the layer at hand are on it, by requests that have had their turn.      *)
(*                                                                         *)
(* AnswerIsLoaded rests on LookupInv: while a lookup of a request that was *)
(* neither given up nor aborted is under way, a worker has it in its       *)
(* socket, or loads it, or has answered it, and one of these only; the     *)
(* answers collected are those of workers with nothing more to say.        *)
(***************************************************************************)
EXTENDS VLLMConnector, Layerwise, AsyncLoading, NaturalsInduction, WellFoundedInduction, FiniteSetTheorems,
    SequenceTheorems, TLAPS

-----------------------------------------------------------------------------
(* Numbers                                                                 *)

\* A set of natural numbers that is not empty has a smallest element, and a
\* largest one if it is bounded.
LEMMA SmallestOf ==
    ASSUME NEW T \in SUBSET Nat, T # {}
    PROVE  \E x \in T : \A y \in T : x <= y
<1>1. PICK x \in T : \A y \in T : ~(<<y, x>> \in OpToRel(<, Nat))
  BY NatLessThanWellFounded, WFMin
<1>2. \A z, y \in Nat : <<y, z>> \in OpToRel(<, Nat) <=> y < z
  BY DEF OpToRel
<1>3. ASSUME NEW y \in T PROVE x <= y
  <2>1. x \in Nat /\ y \in Nat
    OBVIOUS
  <2>2. ~(y < x)
    BY <1>1, <1>2, <2>1
  <2> QED BY <2>1, <2>2
<1> QED BY <1>3

LEMMA MaxOf ==
    ASSUME NEW n \in Nat, NEW S \in SUBSET (0..n), S # {}
    PROVE  Max(S) \in S /\ \A y \in S : y <= Max(S)
<1> DEFINE T == {x \in 0..n : n - x \in S}
<1>1. T \in SUBSET Nat /\ T # {}
  <2>1. PICK y \in S : TRUE
    OBVIOUS
  <2>2. n - y \in 0..n /\ n - (n - y) = y
    OBVIOUS
  <2>3. n - y \in T
    BY <2>2
  <2>4. T \in SUBSET Nat
    OBVIOUS
  <2> HIDE DEF T
  <2> QED BY <2>3, <2>4
<1>2. PICK x \in T : \A y \in T : x <= y
  BY <1>1, SmallestOf
<1>3. ASSUME NEW y \in S PROVE y <= n - x
  <2>1. n - y \in T
    OBVIOUS
  <2>2. x <= n - y /\ x \in Nat /\ y \in Nat
    BY <2>1, <1>1, <1>2
  <2> HIDE DEF T
  <2> QED BY <2>2
<1>4. \E z \in S : \A y \in S : z >= y
  BY <1>3
<1> QED BY <1>4 DEF Max

LEMMA MinOf ==
    ASSUME NEW S \in SUBSET Nat, S # {}
    PROVE  Min(S) \in S /\ \A y \in S : Min(S) <= y
<1>1. \E z \in S : \A y \in S : z <= y
  BY SmallestOf
<1> QED BY <1>1 DEF Min

LEMMA MaxOfTwo ==
    ASSUME NEW a \in Int, NEW b \in Int
    PROVE  Max({a, b}) = IF a >= b THEN a ELSE b
BY DEF Max

LEMMA MinOfTwo ==
    ASSUME NEW a \in Int, NEW b \in Int
    PROVE  Min({a, b}) = IF a <= b THEN a ELSE b
BY DEF Min

\* Rounding down to a chunk boundary loses less than a chunk.
LEMMA AlignedBelow ==
    ASSUME NEW n \in Nat
    PROVE  /\ aligned(n) \in Nat
           /\ aligned(n) <= n /\ n < aligned(n) + ChunkSize
<1>1. n \div ChunkSize \in Nat /\ n % ChunkSize \in 0..(ChunkSize - 1)
  BY ConnectorAssumption
<1>2. n = ChunkSize * (n \div ChunkSize) + (n % ChunkSize)
  BY ConnectorAssumption
<1>3. ChunkSize * (n \div ChunkSize) = aligned(n) /\ aligned(n) \in Nat
  BY <1>1, ConnectorAssumption DEF aligned
<1> QED BY <1>1, <1>2, <1>3, ConnectorAssumption

\* Two multiples of ChunkSize that differ are at least a chunk apart.
LEMMA MultiplesApart ==
    ASSUME NEW a \in Nat, NEW b \in Nat, a % ChunkSize = 0, b % ChunkSize = 0, a < b
    PROVE  a + ChunkSize <= b
<1> DEFINE p == a \div ChunkSize
           q == b \div ChunkSize
<1>1. p \in Nat /\ q \in Nat /\ ChunkSize \in Nat \ {0}
  BY ConnectorAssumption
<1>2. a = ChunkSize * p + (a % ChunkSize) /\ b = ChunkSize * q + (b % ChunkSize)
  BY ConnectorAssumption
<1>3. a = ChunkSize * p /\ b = ChunkSize * q
  BY <1>1, <1>2
<1> HIDE DEF p, q
<1>4. p + 1 <= q
  <2>1. CASE q <= p
    <3>1. ChunkSize * q <= ChunkSize * p
      BY <1>1, <2>1
    <3> QED BY <1>3, <3>1
  <2>2. CASE ~(q <= p)
    BY <1>1, <2>2
  <2> QED BY <2>1, <2>2
<1>5. ChunkSize * (p + 1) <= ChunkSize * q
  BY <1>1, <1>4
<1>6. ChunkSize * (p + 1) = ChunkSize * p + ChunkSize
  BY <1>1
<1> QED BY <1>3, <1>5, <1>6

\* Rounding down gives the largest multiple of ChunkSize that is not larger.
LEMMA AlignedLargest ==
    ASSUME NEW n \in Nat
    PROVE  /\ aligned(n) % ChunkSize = 0
           /\ \A m \in Nat : m % ChunkSize = 0 /\ m <= n => m <= aligned(n)
<1>1. aligned(n) % ChunkSize = 0
  <2> DEFINE k == n \div ChunkSize
  <2>1. k \in Nat /\ ChunkSize \in Nat \ {0}
    BY ConnectorAssumption
  <2> HIDE DEF k
  <2>2. (k * ChunkSize) % ChunkSize = 0
    BY <2>1
  <2> QED BY <2>2 DEF aligned, k
<1>2. ASSUME NEW m \in Nat, m % ChunkSize = 0, m <= n, ~(m <= aligned(n)) PROVE FALSE
  <2>1. aligned(n) \in Nat /\ n < aligned(n) + ChunkSize /\ ChunkSize \in Nat
    BY AlignedBelow, ConnectorAssumption
  <2>2. aligned(n) < m
    BY <1>2, <2>1
  <2>3. aligned(n) + ChunkSize <= m
    BY <1>1, <1>2, <2>1, <2>2, MultiplesApart
  <2> QED BY <1>2, <2>1, <2>3
<1> QED BY <1>1, <1>2

-----------------------------------------------------------------------------
(* The invariant                                                           *)

ConnectorTypeOK ==
    /\ num_tokens \in 0..MaxTokens /\ prompt_len \in Nat
    /\ num_computed_tokens \in Nat
    /\ tracker \in [tokens : Nat, saved : Nat, decode : BOOLEAN]
    /\ cached \in [Ends -> {"none", "good", "bad"}]

\* A full chunk that is in the cache has been in the cache.
CachedWasEver == \A e \in full(Ends) : cached[e] # "none" => e \in ever_cached

\* The full chunks that were in the cache, or came as far as a store.
Handed == ever_cached \cup left_out

ConnectorInv == ConnectorTypeOK /\ CachedWasEver /\ HolesAreShortStores /\ LossIsBeforeFailure

\* Whole chunks of fewer tokens are whole chunks of more.
LEMMA FewerChunks ==
    ASSUME NEW m \in Nat, NEW n \in Nat, m <= n
    PROVE  ChunkEnds(m, FALSE) \subseteq ChunkEnds(n, FALSE)
BY DEF ChunkEnds

\* A lookup counts only what has been in the cache.
LEMMA HitWasCached ==
    ASSUME ConnectorTypeOK, CachedWasEver
    PROVE  /\ LookupHit(num_tokens) \in 0..num_tokens
           /\ ChunkEnds(LookupHit(num_tokens), FALSE) \subseteq ever_cached
<1> DEFINE ends == ChunkEnds(num_tokens, ~vc_setup.discard)
           hits == {e \in ends : \A d \in ends : d <= e => cached[d] # "none"}
           hit == LookupHit(num_tokens)
<1>1. num_tokens \in Nat /\ ends \subseteq 1..num_tokens /\ ends \subseteq Ends
  BY ConnectorAssumption DEF ConnectorTypeOK, ChunkEnds, Ends
<1>2. hits \cup {0} \in SUBSET (0..num_tokens)
  BY <1>1
<1>3. hit \in hits \cup {0}
  <2>1. hit = Max(hits \cup {0})
    BY DEF LookupHit
  <2>2. hits \cup {0} # {}
    OBVIOUS
  <2> HIDE DEF hits, hit
  <2> QED BY <1>1, <1>2, <2>1, <2>2, MaxOf
<1>4. hit \in 0..num_tokens
  BY <1>2, <1>3
<1>5. ASSUME NEW e \in ChunkEnds(hit, FALSE) PROVE e \in ever_cached
  <2>1. e \in 1..hit /\ e % ChunkSize = 0
    BY <1>4, <1>5 DEF ChunkEnds
  <2>2. e \in ends
    BY <1>1, <1>4, <2>1 DEF ChunkEnds
  <2>3. hit \in hits
    BY <1>3, <2>1
  <2>4. cached[e] # "none"
    BY <2>1, <2>2, <2>3, <1>4
  <2> QED BY <1>1, <2>1, <2>2, <2>4 DEF CachedWasEver, full
<1> QED BY <1>4, <1>5

\* What a step saves closes the gap between what the tracker had counted and
\* what it counts now.
LEMMA SaveLeavesNoHole ==
    ASSUME NEW t \in [tokens : Nat, saved : Nat, decode : BOOLEAN], NEW E,
           ChunkEnds(t.saved, FALSE) \subseteq E
    PROVE  /\ SavedTracker(t) \in [tokens : Nat, saved : Nat, decode : BOOLEAN]
           /\ ChunkEnds(SavedTracker(t).saved, FALSE) \subseteq E \cup ChunksToSave(t)
<1>1. num_tokens_to_save(t) \in Nat
  BY AlignedBelow DEF num_tokens_to_save
<1>2. CASE skip_save(t)
  BY <1>2 DEF SavedTracker
<1>3. CASE ~skip_save(t)
  <2> DEFINE n == num_tokens_to_save(t)
  <2>1. SavedTracker(t) = [t EXCEPT !.saved = n]
    BY <1>3 DEF SavedTracker
  <2>2. SavedTracker(t).saved = n /\ SavedTracker(t) \in [tokens : Nat, saved : Nat, decode : BOOLEAN]
    BY <1>1, <2>1
  <2>3. CASE t.saved = n
    BY <2>2, <2>3
  <2>4. CASE t.saved # n
    <3> HIDE DEF n
    <3>1. ChunksToSave(t) = {e \in ChunkEnds(n, TRUE) : e > aligned(t.saved)}
      BY <1>3, <2>4 DEF ChunksToSave, n
    <3>2. aligned(t.saved) \in Nat /\ aligned(t.saved) <= t.saved
      BY AlignedBelow
    <3>3. n \in Nat /\ t.saved \in Nat
      BY <1>1 DEF n
    <3>4. ASSUME NEW e \in ChunkEnds(n, FALSE), e \notin ChunksToSave(t) PROVE e \in E
      <4>1. e \in 1..n /\ e % ChunkSize = 0 /\ e \in ChunkEnds(n, TRUE)
        BY <3>4 DEF ChunkEnds
      <4>2. e <= t.saved
        <5>1. ~(e > aligned(t.saved))
          BY <3>1, <3>4, <4>1, Zenon
        <5>2. e \in 1..n
          BY <4>1
        <5> QED BY <5>1, <5>2, <3>2, <3>3
      <4> QED BY <4>1, <4>2, <3>3 DEF ChunkEnds
    <3> QED BY <2>2, <3>4
  <2> HIDE DEF n
  <2> QED BY <2>2, <2>3, <2>4
<1> QED BY <1>2, <1>3

Trackers == [tokens : Nat, saved : Nat, decode : BOOLEAN]

\* One engine step of a tracker that has no hole leaves none but of chunks that came as far as a
\* store.
LEMMA StepLeavesNoHole ==
    ASSUME ConnectorTypeOK, CachedWasEver,
           NEW t \in Trackers, ChunkEnds(t.saved, FALSE) \subseteq Handed,
           NEW computed \in Nat, NEW n \in Nat, NEW valid, NEW first_invalid \in Nat,
           NEW reported \in BOOLEAN,
           RunStep(t, computed, n, valid, first_invalid, reported), UNCHANGED prompt_len
    PROVE  ConnectorTypeOK' /\ CachedWasEver' /\ HolesAreShortStores'
<1> DEFINE saves == ChunksToSave(t)
<1>1. PICK stop \in {0} \cup saves :
        LET stored == {e \in saves : e <= stop}
            after == IF valid >= computed THEN computed + n ELSE valid
        IN  /\ cached' = [e \in Ends |-> IF e \in stored /\ cached[e] = "none"
                                         THEN (IF after >= e THEN "good" ELSE "bad") ELSE cached[e]]
            /\ ever_cached' = ever_cached \cup full(stored)
            /\ left_out' = (left_out \cup full(saves)) \ ever_cached'
  BY DEF RunStep
<1> DEFINE stored == {e \in saves : e <= stop}
<1>2. /\ cached' \in [Ends -> {"none", "good", "bad"}]
      /\ \A e \in Ends : cached'[e] = cached[e] \/ e \in stored
  BY <1>1 DEF ConnectorTypeOK
<1>3. ever_cached' = ever_cached \cup full(stored) /\ left_out' = (left_out \cup full(saves)) \ ever_cached'
  BY <1>1
<1>4. tracker' = SavedTracker(t) /\ num_tokens' \in 0..MaxTokens /\ num_computed_tokens' \in Nat
  BY ConnectorAssumption DEF RunStep, ConnectorTypeOK
<1> HIDE DEF saves, stored
<1>5. /\ SavedTracker(t) \in Trackers
      /\ ChunkEnds(SavedTracker(t).saved, FALSE) \subseteq Handed \cup saves
  BY SaveLeavesNoHole DEF Trackers, saves
<1>6. ConnectorTypeOK'
  BY <1>2, <1>4, <1>5 DEF ConnectorTypeOK, Trackers
<1>7. CachedWasEver'
  BY <1>2, <1>3 DEF CachedWasEver, full
<1>8. ASSUME NEW e \in ChunkEnds(tracker'.saved, FALSE) PROVE e \in ever_cached' \cup left_out'
  <2>1. e % ChunkSize = 0
    BY <1>8 DEF ChunkEnds
  <2>2. e \in Handed \cup saves
    BY <1>4, <1>5, <1>8
  <2> QED BY <1>3, <2>1, <2>2 DEF Handed, full
<1> QED BY <1>6, <1>7, <1>8 DEF HolesAreShortStores

\* What ret_mask counts stays a chunk short of what was asked for when it lacks a full chunk.
LEMMA MissingIsCounted ==
    ASSUME NEW local \in Nat, NEW hit \in Nat, NEW got \in SUBSET ChunksToLoad(local, hit),
           NEW e \in ChunksToLoad(local, hit) \ got, e % ChunkSize = 0
    PROVE  reports_failure(local, hit, got)
<1> DEFINE asked == aligned(local) + 1 .. hit
           lacking == e - ChunkSize + 1 .. e
<1>1. ChunkSize \in Nat \ {0} /\ e \in 1..hit /\ e > aligned(local)
  BY ConnectorAssumption DEF ChunksToLoad, ChunkEnds
<1>2. aligned(local) \in Nat /\ local < aligned(local) + ChunkSize /\ aligned(local) % ChunkSize = 0
  BY AlignedBelow, AlignedLargest
<1>3. aligned(local) + ChunkSize <= e
  BY <1>1, <1>2, MultiplesApart
<1>4. ASSUME NEW d \in got
      PROVE  chunk_start(d) >= aligned(local) /\ d <= hit /\ (d + ChunkSize <= e \/ e <= chunk_start(d))
             /\ chunk_start(d) \in Nat /\ d \in Nat
  <2>1. d \in 1..hit /\ d > aligned(local) /\ (d % ChunkSize = 0 \/ d = hit) /\ d # e
    BY DEF ChunksToLoad, ChunkEnds
  <2>2. d - 1 \in Nat /\ aligned(local) <= d - 1
    BY <1>2, <2>1
  <2>3. chunk_start(d) >= aligned(local) /\ chunk_start(d) \in Nat
    BY <1>2, <2>2, AlignedLargest, AlignedBelow DEF chunk_start
  <2>4. CASE d < e
    <3>1. d % ChunkSize = 0
      BY <1>1, <2>1, <2>4
    <3>2. d + ChunkSize <= e
      BY <1>1, <2>1, <2>4, <3>1, MultiplesApart
    <3> QED BY <2>1, <2>3, <3>2
  <2>5. CASE e < d
    <3>1. e <= d - 1
      BY <1>1, <2>1, <2>5
    <3>2. e <= aligned(d - 1)
      BY <1>1, <2>2, <3>1, AlignedLargest
    <3> QED BY <2>1, <2>3, <3>2 DEF chunk_start
  <2> QED BY <1>1, <2>1, <2>4, <2>5
<1>5. ret_mask(got) \subseteq asked /\ lacking \subseteq asked
  <2>1. ASSUME NEW x \in ret_mask(got) PROVE x \in asked
    <3>1. PICK d \in got : x \in chunk_start(d) + 1 .. d
      BY DEF ret_mask
    <3> QED BY <1>2, <1>4, <3>1
  <2>2. lacking \subseteq asked
    BY <1>1, <1>2, <1>3
  <2> QED BY <2>1, <2>2
<1>6. ret_mask(got) \cap lacking = {}
  <2>1. ASSUME NEW x \in ret_mask(got), x \in lacking PROVE FALSE
    <3>1. PICK d \in got : x \in chunk_start(d) + 1 .. d
      BY DEF ret_mask
    <3>2. d + ChunkSize <= e \/ e <= chunk_start(d)
      BY <1>4
    <3>3. x \in Int /\ e - ChunkSize < x /\ x <= e /\ chunk_start(d) < x /\ x <= d
      BY <1>1, <1>4, <2>1, <3>1
    <3> QED BY <1>1, <1>4, <3>2, <3>3
  <2> QED BY <2>1
<1>7. IsFiniteSet(asked) /\ Cardinality(asked) = hit - aligned(local)
  <2>1. aligned(local) + 1 \in Int /\ hit \in Int /\ ~(aligned(local) + 1 > hit)
    BY <1>1, <1>2, <1>3
  <2> QED BY <1>2, <2>1, FS_Interval
<1>8. IsFiniteSet(lacking) /\ Cardinality(lacking) = ChunkSize
  <2>1. e - ChunkSize + 1 \in Int /\ e \in Int /\ ~(e - ChunkSize + 1 > e)
    BY <1>1
  <2> QED BY <1>1, <2>1, FS_Interval
<1>9. IsFiniteSet(ret_mask(got)) /\ Cardinality(ret_mask(got)) \in Nat
  BY <1>5, <1>7, FS_Subset, FS_CardinalityType
<1> HIDE DEF asked, lacking
<1>10. ~(Cardinality(ret_mask(got)) + Cardinality(lacking) > Cardinality(asked))
  BY <1>5, <1>6, <1>7, <1>8, <1>9, FS_MajoritiesIntersect
<1> QED BY <1>1, <1>2, <1>7, <1>8, <1>9, <1>10 DEF reports_failure

\* A load that lacks no chunk is not reported.
LEMMA CompleteIsNotReported ==
    ASSUME NEW local \in Nat, NEW hit \in Nat, NEW got \in SUBSET ChunksToLoad(local, hit),
           reports_failure(local, hit, got)
    PROVE  ChunksToLoad(local, hit) \ got # {}
<1> SUFFICES ASSUME got = ChunksToLoad(local, hit) PROVE FALSE
  OBVIOUS
<1> DEFINE asked == aligned(local) + 1 .. hit
<1>1. ChunkSize \in Nat \ {0} /\ aligned(local) \in Nat /\ aligned(local) <= local
  BY ConnectorAssumption, AlignedBelow
<1>2. ASSUME NEW x \in asked PROVE x \in ret_mask(got)
  <2>1. x \in Nat /\ x - 1 \in Nat /\ x <= hit /\ aligned(local) < x
    BY <1>1
  <2> DEFINE low == aligned(x - 1)
             e == IF low + ChunkSize <= hit THEN low + ChunkSize ELSE hit
  <2>2. low \in Nat /\ low <= x - 1 /\ x - 1 < low + ChunkSize /\ low % ChunkSize = 0
    BY <2>1, AlignedBelow, AlignedLargest
  <2>3. (low + ChunkSize) % ChunkSize = 0
    <3> DEFINE k == (x - 1) \div ChunkSize
    <3>1. k \in Nat /\ low = k * ChunkSize
      BY <1>1, <2>1 DEF aligned
    <3> HIDE DEF k, low
    <3>2. ((k + 1) * ChunkSize) % ChunkSize = 0
      BY <1>1, <3>1
    <3>3. (k + 1) * ChunkSize = low + ChunkSize
      BY <1>1, <3>1
    <3> QED BY <3>2, <3>3
  <2> HIDE DEF low
  <2>4. e \in 1..hit /\ x <= e /\ e <= low + ChunkSize /\ e - 1 \in Nat
    BY <1>1, <2>1, <2>2
  <2>5. e % ChunkSize = 0 \/ e = hit
    BY <2>3
  <2> HIDE DEF e
  <2>6. e \in got
    BY <1>1, <2>1, <2>4, <2>5 DEF ChunksToLoad, ChunkEnds
  <2>7. aligned(e - 1) \in Nat /\ aligned(e - 1) % ChunkSize = 0 /\ aligned(e - 1) <= e - 1
    BY <2>4, AlignedBelow, AlignedLargest
  <2>8. aligned(e - 1) <= low
    <3>1. CASE low < aligned(e - 1)
      <4>1. low + ChunkSize <= aligned(e - 1)
        BY <2>2, <2>7, <3>1, MultiplesApart
      <4> QED BY <1>1, <2>2, <2>4, <2>7, <4>1
    <3> QED BY <2>2, <2>7, <3>1
  <2>9. x \in chunk_start(e) + 1 .. e
    BY <2>1, <2>2, <2>4, <2>7, <2>8 DEF chunk_start
  <2> QED BY <2>6, <2>9 DEF ret_mask
<1>3. ret_mask(got) \subseteq 0..hit
  <2>1. ASSUME NEW x \in ret_mask(got) PROVE x \in 0..hit
    <3>1. PICK d \in got : x \in chunk_start(d) + 1 .. d
      BY DEF ret_mask
    <3>2. d \in 1..hit /\ d - 1 \in Nat
      BY DEF ChunksToLoad, ChunkEnds
    <3>3. chunk_start(d) \in Nat
      BY <3>2, AlignedBelow DEF chunk_start
    <3> QED BY <3>1, <3>2, <3>3
  <2> QED BY <2>1
<1>4. IsFiniteSet(ret_mask(got)) /\ Cardinality(ret_mask(got)) \in Nat
  <2>1. IsFiniteSet(0..hit)
    BY FS_Interval
  <2>2. IsFiniteSet(ret_mask(got))
    BY <1>3, <2>1, FS_Subset
  <2> QED BY <2>2, FS_CardinalityType
<1>5. Cardinality(asked) <= Cardinality(ret_mask(got))
  BY <1>2, <1>4, FS_Subset
<1>6. Cardinality(asked) = IF aligned(local) + 1 > hit THEN 0 ELSE hit - aligned(local)
  <2> DEFINE low == aligned(local) + 1
  <2>1. low \in Int /\ hit - low + 1 = hit - aligned(local)
    BY <1>1
  <2> HIDE DEF low
  <2>2. Cardinality(low .. hit) = IF low > hit THEN 0 ELSE hit - low + 1
    BY <2>1, FS_Interval
  <2> QED BY <2>1, <2>2 DEF low
<1>7. Cardinality(ret_mask(got)) < hit - local
  BY DEF reports_failure
<1> HIDE DEF asked
<1> QED BY <1>1, <1>4, <1>5, <1>6, <1>7

\* What a load loses and vLLM counts is at most the chunk before the last failed one.
LEMMA LoadLosesLastGood ==
    ASSUME NEW local \in Nat, NEW hit \in Nat, NEW got \in SUBSET ChunksToLoad(local, hit),
           NEW failed \in {0} \cup ChunksToLoad(local, hit), NEW reported, NEW first_invalid,
           retrieved(ChunksToLoad(local, hit), got, failed),
           reported = reports_failure(local, hit, got),
           reported => first_invalid = chunk_start(Min(ChunksToLoad(local, hit) \ got))
    PROVE  LET load == LoadReport(ChunksToLoad(local, hit), hit, got, failed, reported, first_invalid)
           IN  load.lost \subseteq {load.failed_start}
<1> DEFINE chunks == ChunksToLoad(local, hit)
           load == LoadReport(chunks, hit, got, failed, reported, first_invalid)
<1>1. chunks \in SUBSET Nat /\ \A d \in chunks : d \in 1..hit /\ d - 1 \in Nat
  BY DEF ChunksToLoad, ChunkEnds
<1>2. SUFFICES ASSUME NEW e \in load.lost PROVE e = load.failed_start
  OBVIOUS
<1>3. /\ e \in chunks /\ e \notin copied(got, failed) /\ e % ChunkSize = 0
      /\ reported => e <= first_invalid
  BY <1>2 DEF LoadReport, full
<1>4. CASE e \in got
  <2>1. failed # 0 /\ ~(e < chunk_start(failed)) /\ e < failed
    BY <1>3, <1>4 DEF copied, retrieved
  <2>2. failed \in chunks /\ failed - 1 \in Nat /\ e \in Nat /\ e <= failed - 1
    BY <1>1, <1>3, <2>1
  <2>3. e <= chunk_start(failed) /\ chunk_start(failed) \in Nat
    BY <1>3, <2>2, AlignedLargest, AlignedBelow DEF chunk_start
  <2>4. e = chunk_start(failed)
    BY <2>1, <2>2, <2>3
  <2> QED BY <2>1, <2>4 DEF LoadReport
<1>5. CASE e \notin got
  <2>1. reported
    BY <1>3, <1>5, MissingIsCounted
  <2> DEFINE m == Min(chunks \ got)
  <2>2. m \in chunks \ got /\ m <= e
    BY <1>1, <1>3, <1>5, MinOf
  <2>3. m - 1 \in Nat /\ aligned(m - 1) <= m - 1 /\ aligned(m - 1) \in Nat /\ e \in Nat
    BY <1>1, <1>3, <2>2, AlignedBelow
  <2>4. e <= aligned(m - 1)
    BY <1>3, <2>1 DEF chunk_start
  <2> HIDE DEF m
  <2> QED BY <1>1, <2>2, <2>3, <2>4
<1> QED BY <1>4, <1>5

LEMMA ConnectorInvInit == ConnectorInit => ConnectorInv
<1> SUFFICES ASSUME ConnectorInit PROVE ConnectorInv
  OBVIOUS
<1>1. ConnectorTypeOK /\ CachedWasEver /\ LossIsBeforeFailure
  BY ConnectorAssumption DEF ConnectorInit, ConnectorTypeOK, CachedWasEver, full, LossIsBeforeFailure, NoTracker,
      NoLoss
<1>2. HolesAreShortStores
  BY DEF ConnectorInit, HolesAreShortStores, NoTracker, ChunkEnds
<1> QED BY <1>1, <1>2 DEF ConnectorInv

LEMMA ConnectorInvStep == ConnectorInv /\ [ConnectorNext]_vc_vars => ConnectorInv'
<1> SUFFICES ASSUME ConnectorInv, [ConnectorNext]_vc_vars PROVE ConnectorInv'
  OBVIOUS
<1> USE DEF ConnectorInv
<1>0. NoLoss.lost \subseteq {NoLoss.failed_start}
  BY DEF NoLoss
<1>1. CASE UNCHANGED vc_vars
  BY <1>1 DEF vc_vars, cache_vars, ConnectorTypeOK, CachedWasEver, HolesAreShortStores, LossIsBeforeFailure
<1>2. ASSUME NEW local \in 0..MaxTokens, NEW n \in 1..MaxTokens, schedule_waiting(local, n)
      PROVE  ConnectorInv'
  <2> DEFINE hit == LookupHit(num_tokens)
             need == num_external_tokens(local, hit)
             chunks == ChunksToLoad(local, hit)
             t == IF req_status = "waiting"
                  THEN [tokens |-> Min({local + need + n, prompt_len}), saved |-> hit, decode |-> FALSE]
                  ELSE [tokens |-> Min({Max({hit, local}) + n, num_tokens}), saved |-> hit,
                        decode |-> tracker.decode \/ n = 1]
  <2>1. UNCHANGED prompt_len
    BY <1>2 DEF schedule_waiting
  <2>2. hit \in Nat /\ hit <= num_tokens /\ ChunkEnds(hit, FALSE) \subseteq ever_cached
    <3>1. hit \in 0..num_tokens /\ ChunkEnds(hit, FALSE) \subseteq ever_cached
      BY HitWasCached
    <3>2. num_tokens \in Nat
      BY ConnectorAssumption DEF ConnectorTypeOK
    <3>3. hit \in 0..num_tokens
      BY <3>1
    <3> HIDE DEF hit
    <3>4. hit \in Nat /\ hit <= num_tokens
      BY <3>2, <3>3
    <3> QED BY <3>1, <3>4
  <2>3. local \in Nat /\ n \in Nat /\ num_tokens \in Nat /\ prompt_len \in Nat /\ ChunkSize \in Nat
    BY ConnectorAssumption DEF ConnectorTypeOK
  <2>4. need \in Nat /\ local + need \in Nat
    BY <2>2, <2>3 DEF num_external_tokens
  <2>5. t \in Trackers /\ t.saved = hit
    <3>1. Min({local + need + n, prompt_len}) \in Nat
      BY <2>3, <2>4, MinOfTwo
    <3>2. Max({hit, local}) \in Nat
      BY <2>2, <2>3, MaxOfTwo
    <3>3. Min({Max({hit, local}) + n, num_tokens}) \in Nat
      BY <2>3, <3>2, MinOfTwo
    <3> HIDE DEF hit, need
    <3> QED BY <2>2, <3>1, <3>3 DEF Trackers, ConnectorTypeOK
  <2>6. ChunkEnds(t.saved, FALSE) \subseteq Handed
    BY <2>2, <2>5 DEF Handed
  <2>7. CASE need = 0
    <3>1. RunStep(t, local, n, local, 0, FALSE) /\ last_load' = NoLoss
      BY <1>2, <2>7 DEF schedule_waiting
    <3> HIDE DEF hit, need, t
    <3>2. ConnectorTypeOK' /\ CachedWasEver' /\ HolesAreShortStores'
      BY <2>1, <2>3, <2>5, <2>6, <3>1, StepLeavesNoHole
    <3> QED BY <1>0, <3>1, <3>2 DEF LossIsBeforeFailure
  <2>8. CASE need # 0
    <3>1. PICK got \in SUBSET chunks, failed \in {0} \cup chunks : LoadAndRun(t, local, hit, local + need, n, got, failed)
      BY <1>2, <2>8 DEF schedule_waiting
    <3> DEFINE reported == reports_failure(local, hit, got)
               first_invalid == IF reported THEN chunk_start(Min(chunks \ got)) ELSE 0
               valid == LoadedValid(local, hit, copied(got, failed))
    <3>2. /\ retrieved(chunks, got, failed)
          /\ RunStep(t, local + need, n, valid, first_invalid, reported)
          /\ last_load' = LoadReport(chunks, hit, got, failed, reported, first_invalid)
      BY <3>1 DEF LoadAndRun
    <3> HIDE DEF hit, need, t, valid
    <3>3. first_invalid \in Nat /\ reported \in BOOLEAN
      <4>1. reported \in BOOLEAN
        BY DEF reports_failure
      <4>2. CASE reported
        <5>1. chunks \ got # {}
          BY <2>2, <2>3, <4>2, CompleteIsNotReported
        <5>2. chunks \in SUBSET Nat /\ \A d \in chunks : d - 1 \in Nat
          BY <2>2 DEF ChunksToLoad, ChunkEnds
        <5>3. Min(chunks \ got) \in chunks
          BY <5>1, <5>2, MinOf
        <5>4. chunk_start(Min(chunks \ got)) \in Nat
          BY <5>2, <5>3, AlignedBelow DEF chunk_start
        <5> QED BY <4>2, <5>4
      <4> QED BY <4>1, <4>2
    <3>4. LossIsBeforeFailure'
      BY <2>2, <2>3, <3>2, LoadLosesLastGood DEF LossIsBeforeFailure
    <3> HIDE DEF reported, first_invalid
    <3>5. ConnectorTypeOK' /\ CachedWasEver' /\ HolesAreShortStores'
      BY <2>1, <2>3, <2>4, <2>5, <2>6, <3>2, <3>3, StepLeavesNoHole
    <3> QED BY <3>4, <3>5
  <2> QED BY <2>7, <2>8
<1>3. ASSUME NEW local \in 0..MaxTokens, preempted_assertion_fails(local)
      PROVE  ConnectorInv'
  BY <1>0, <1>3 DEF preempted_assertion_fails, cache_vars, ConnectorTypeOK, CachedWasEver, HolesAreShortStores,
      LossIsBeforeFailure
<1>4. ASSUME NEW n \in 1..MaxTokens, schedule_running(n)
      PROVE  ConnectorInv'
  <2> DEFINE kept == Min({tracker.tokens, num_computed_tokens})
             saved == Min({tracker.saved, kept})
             t == [tokens |-> kept + n, saved |-> saved, decode |-> tracker.decode \/ n = 1]
  <2>1. /\ RunStep(t, num_computed_tokens, n, gpu_valid, 0, FALSE)
        /\ UNCHANGED prompt_len /\ last_load' = NoLoss
    BY <1>4 DEF schedule_running
  <2>2. /\ n \in Nat /\ num_computed_tokens \in Nat
        /\ tracker.tokens \in Nat /\ tracker.saved \in Nat /\ tracker.decode \in BOOLEAN
    BY ConnectorAssumption DEF ConnectorTypeOK
  <2>3. kept \in Nat
    BY <2>2, MinOfTwo
  <2>4. saved \in Nat /\ saved <= tracker.saved
    <3> HIDE DEF kept
    <3> QED BY <2>2, <2>3, MinOfTwo
  <2> HIDE DEF kept, saved
  <2>5. t \in Trackers /\ t.saved = saved
    BY <2>2, <2>3, <2>4 DEF Trackers
  <2>6. ChunkEnds(saved, FALSE) \subseteq Handed
    BY <2>2, <2>4, FewerChunks DEF HolesAreShortStores, Handed
  <2> HIDE DEF t
  <2>7. ConnectorTypeOK' /\ CachedWasEver' /\ HolesAreShortStores'
    BY <2>1, <2>2, <2>5, <2>6, StepLeavesNoHole
  <2> QED BY <1>0, <2>1, <2>7 DEF LossIsBeforeFailure
<1>5. CASE preempt
  BY <1>0, <1>5 DEF preempt, cache_vars, ConnectorTypeOK, CachedWasEver, HolesAreShortStores, LossIsBeforeFailure
<1>6. ASSUME NEW e \in Ends, other_stores(e)
      PROVE  ConnectorInv'
  <2>1. /\ ConnectorTypeOK' /\ CachedWasEver' /\ last_load' = NoLoss /\ UNCHANGED tracker
        /\ ever_cached' = ever_cached \cup full({e}) /\ left_out' = left_out \ {e}
    BY <1>6 DEF other_stores, ConnectorTypeOK, CachedWasEver, full
  <2>2. ASSUME NEW d \in ChunkEnds(tracker.saved, FALSE) PROVE d \in ever_cached' \cup left_out'
    <3>1. d \in ever_cached \cup left_out /\ d % ChunkSize = 0
      BY <2>2 DEF HolesAreShortStores, ChunkEnds
    <3> QED BY <2>1, <3>1 DEF full
  <2> QED BY <1>0, <2>1, <2>2 DEF HolesAreShortStores, LossIsBeforeFailure
<1>7. ASSUME NEW e \in Ends, chunk_evicted(e)
      PROVE  ConnectorInv'
  <2>1. ConnectorTypeOK' /\ CachedWasEver' /\ last_load' = NoLoss /\ UNCHANGED <<tracker, ever_cached, left_out>>
    BY <1>7 DEF chunk_evicted, ConnectorTypeOK, CachedWasEver, full
  <2> QED BY <1>0, <2>1 DEF HolesAreShortStores, LossIsBeforeFailure
<1> QED BY <1>1, <1>2, <1>3, <1>4, <1>5, <1>6, <1>7 DEF ConnectorNext

\* For any chunk size, prompt and configuration, the tracker's own count leaves no
\* hole: what it counts as saved has been in the cache or came as far as a store
\* that left it out, through chunked prefill, preemption, recomputation and skipped
\* saves.
THEOREM HolesComeFromStores == ConnectorSpec => []HolesAreShortStores
<1>1. ConnectorInv => HolesAreShortStores
  BY DEF ConnectorInv
<1> QED BY <1>1, ConnectorInvInit, ConnectorInvStep, PTL DEF ConnectorSpec

\* For any chunk size, prompt and configuration, every full chunk that a load did
\* not retrieve is reported to vLLM: what vLLM counts and does not have is at most
\* the chunk that ends where the last failed one starts.
THEOREM UnretrievedIsReported == ConnectorSpec => []LossIsBeforeFailure
<1>1. ConnectorInv => LossIsBeforeFailure
  BY DEF ConnectorInv
<1> QED BY <1>1, ConnectorInvInit, ConnectorInvStep, PTL DEF ConnectorSpec

-----------------------------------------------------------------------------
(* Layerwise: the invariant                                                *)

Looked(r) == lw_req[r].stage = "looked"
ToDo(r) == \E i \in 1..Len(lw_step.todo) : lw_step.todo[i] = r
Copying == LWReqs \X Nat

Requests == [stage : {"new", "looked", "done"}, hit : Nat, loaded : Nat,
             storer : {"none", "skipped", "frozen", "empty", "storing"}, new : SUBSET LWChunks]
Steps == [stage : {"idle", "start", "load", "save", "finish", "raised"}, layer : 0..LWLayers,
          todo : Seq(LWReqs), batch : Seq(LWReqs)]

LayerTypeOK ==
    /\ lw_pins \in [LWEntries -> Int]
    /\ lw_req \in [LWReqs -> Requests]
    /\ \A r \in LWReqs : lw_req[r].hit <= Len(LWPrompts[r])
    /\ lw_step \in Steps
    /\ store_stream \in Seq(Copying)

\* The requests still to do are the last of the batch, in its order.
TodoIsSuffix ==
    LET todo == lw_step.todo
        batch == lw_step.batch
    IN  /\ \A i, j \in 1..Len(batch) : batch[i] = batch[j] => i = j
        /\ Len(todo) <= Len(batch)
        /\ \A i \in 1..Len(todo) : todo[i] = batch[Len(batch) - Len(todo) + i]

\* A request keeps its promise from the lookup until its turn in wait_for_save.
BatchLooked ==
    /\ lw_step.stage \in {"start", "load", "save"} => \A i \in 1..Len(lw_step.batch) : Looked(lw_step.batch[i])
    /\ lw_step.stage = "finish" => \A i \in 1..Len(lw_step.todo) : Looked(lw_step.todo[i])

HitOf(req, r) == {LWPrompts[r][i] : i \in 1..req[r].hit}
Claims(req, e) == {r \in LWReqs : req[r].stage = "looked" /\ e[1] \in HitOf(req, r)}

PinsHeld == \A e \in LWEntries : lw_pins[e] >= Cardinality(Claims(lw_req, e))

LookedCached == \A r \in LWReqs : Looked(r) => AllLayers(HitOf(lw_req, r)) \subseteq lw_cache

StreamClean ==
    \A q \in LWReqs : sync(q) /\ lw_req[q].storer = "storing" /\ ~ToDo(q) =>
        /\ lw_step.stage = "save" /\ lw_step.layer > 1 =>
              \A j \in 1..Len(store_stream) :
                  store_stream[j][2] = lw_step.layer /\ ~ToDo(store_stream[j][1])
        /\ lw_step.stage = "finish" => store_stream = <<>>

LayerInv ==
    LayerTypeOK /\ TodoIsSuffix /\ BatchLooked /\ PinsHeld /\ LookedCached /\ StreamClean /\ PutAfterCopy

-----------------------------------------------------------------------------
(* Layerwise: the proof                                                    *)

\* There is always a longest prefix.
LEMMA LongestPrefix ==
    ASSUME NEW n \in Nat, NEW G
    PROVE  \E h \in 0..n : (\A i \in 1..h : i \in G) /\ (h < n => h + 1 \notin G)
<1> DEFINE T == {h \in 0..n : h < n => h + 1 \notin G}
<1>1. T \in SUBSET Nat /\ n \in T
  OBVIOUS
<1>2. PICK h \in T : \A y \in T : h <= y
  <2> HIDE DEF T
  <2>1. T # {}
    BY <1>1
  <2> QED BY <1>1, <2>1, SmallestOf
<1>3. h \in 0..n /\ (h < n => h + 1 \notin G)
  OBVIOUS
<1>4. ASSUME NEW i \in 1..h PROVE i \in G
  <2>1. i - 1 \in 0..n /\ i - 1 < h /\ i - 1 < n /\ (i - 1) + 1 = i
    BY <1>3
  <2>2. i - 1 \notin T
    <3> HIDE DEF T
    <3> QED BY <1>2, <1>3, <2>1
  <2> QED BY <2>1, <2>2
<1> QED BY <1>3, <1>4

\* lookup counts layers, and whole chunks, that are in the cache.
LEMMA LayersHitCached ==
    ASSUME NEW c
    PROVE  /\ LayersHit(c) \in 0..LWLayers
           /\ \A l \in 1..LayersHit(c) : <<c, l>> \in lw_cache
<1> DEFINE G == {l \in 1..LWLayers : <<c, l>> \in lw_cache}
<1>1. LWLayers \in Nat
  BY LayerwiseAssumption
<1>2. PICK h \in 0..LWLayers : (\A i \in 1..h : i \in G) /\ (h < LWLayers => h + 1 \notin G)
  <2> HIDE DEF G
  <2> QED BY <1>1, LongestPrefix
<1>3. h < LWLayers => h + 1 \in 1..LWLayers
  BY <1>1
<1>4. (\A l \in 1..h : <<c, l>> \in lw_cache) /\ (h < LWLayers => <<c, h + 1>> \notin lw_cache)
  BY <1>2, <1>3
<1> QED BY <1>4 DEF LayersHit

LEMMA ChunksHitCached ==
    ASSUME NEW r \in LWReqs
    PROVE  LET p == LWPrompts[r]
               n == ChunksHit(p)
           IN  n \in 0..Len(p) /\ \A i \in 1..n, l \in 1..LWLayers : <<p[i], l>> \in lw_cache
<1> DEFINE p == LWPrompts[r]
           n == ChunksHit(p)
           G == {i \in 1..Len(p) : LayersHit(p[i]) = LWLayers}
<1>1. p \in Seq(LWChunks) /\ Len(p) \in Nat /\ LWLayers \in Nat
  BY LayerwiseAssumption
<1>2. PICK h \in 0..Len(p) : (\A i \in 1..h : i \in G) /\ (h < Len(p) => h + 1 \notin G)
  <2> HIDE DEF G, p
  <2> QED BY <1>1, LongestPrefix
<1>3. h < Len(p) => h + 1 \in 1..Len(p)
  BY <1>1
<1>4. h < Len(p) => LayersHit(p[h + 1]) < LWLayers
  <2>1. h < Len(p) => LayersHit(p[h + 1]) # LWLayers
    BY <1>2, <1>3
  <2> HIDE DEF p
  <2> QED BY <1>1, <2>1, LayersHitCached
<1>5. \A i \in 1..h : LayersHit(p[i]) = LWLayers
  BY <1>2
<1>6. n \in 0..Len(p) /\ \A i \in 1..n : LayersHit(p[i]) = LWLayers
  <2> HIDE DEF p
  <2> QED BY <1>4, <1>5 DEF ChunksHit
<1>7. ASSUME NEW i \in 1..n, NEW l \in 1..LWLayers PROVE <<p[i], l>> \in lw_cache
  <2> HIDE DEF p, n
  <2> QED BY <1>6, LayersHitCached
<1> QED BY <1>6, <1>7

\* The claims on an entry.
LEMMA ClaimsFinite ==
    ASSUME NEW req, NEW e
    PROVE  IsFiniteSet(Claims(req, e)) /\ Cardinality(Claims(req, e)) \in Nat
BY FS_Subset, FS_CardinalityType, LayerwiseAssumption DEF Claims

LEMMA SameClaims ==
    ASSUME NEW req, NEW new,
           \A r \in LWReqs : new[r].stage = req[r].stage /\ new[r].hit = req[r].hit
    PROVE  /\ \A e : Claims(new, e) = Claims(req, e)
           /\ \A r \in LWReqs : HitOf(new, r) = HitOf(req, r)
BY DEF Claims, HitOf

\* Steps that take no promise back and keep pins and entries.
LEMMA PromisesKept ==
    ASSUME LayerInv, lw_pins' = lw_pins, lw_cache \subseteq lw_cache',
           \A r \in LWReqs : lw_req'[r].stage = lw_req[r].stage /\ lw_req'[r].hit = lw_req[r].hit
    PROVE  PinsHeld' /\ LookedCached'
<1>1. /\ \A e : Claims(lw_req', e) = Claims(lw_req, e)
      /\ \A r \in LWReqs : HitOf(lw_req', r) = HitOf(lw_req, r)
  BY SameClaims
<1>2. PinsHeld'
  BY <1>1 DEF LayerInv, PinsHeld
<1>3. LookedCached'
  BY <1>1 DEF LayerInv, LookedCached, Looked, AllLayers
<1> QED BY <1>2, <1>3

\* The first element of todo is left out, the rest is still a suffix.
LEMMA TodoTail ==
    ASSUME LayerInv, lw_step.todo # <<>>, StepOn
    PROVE  /\ Turn \in LWReqs /\ ToDo(Turn)
           /\ lw_step' \in Steps
           /\ lw_step'.stage = lw_step.stage /\ lw_step'.layer = lw_step.layer
           /\ lw_step'.batch = lw_step.batch
           /\ \A q \in LWReqs : ToDo(q)' <=> ToDo(q) /\ q # Turn
           /\ TodoIsSuffix'
<1>1. /\ lw_step.todo \in Seq(LWReqs) /\ lw_step.batch \in Seq(LWReqs)
      /\ lw_step \in Steps
  BY DEF LayerInv, LayerTypeOK, Steps
<1>2. PICK s \in Seq(LWReqs) : s = lw_step.todo
  BY <1>1
<1>3. PICK b \in Seq(LWReqs) : b = lw_step.batch
  BY <1>1
<1>4. /\ s # <<>> /\ Len(s) \in Nat /\ Len(s) >= 1 /\ Head(s) = s[1] /\ Head(s) \in LWReqs
      /\ Tail(s) \in Seq(LWReqs) /\ Len(Tail(s)) = Len(s) - 1
      /\ \A i \in 1..(Len(s) - 1) : Tail(s)[i] = s[i + 1]
  BY <1>2
<1>5. lw_step' = [lw_step EXCEPT !.todo = Tail(s)]
  BY <1>2 DEF StepOn
<1>6. /\ lw_step'.stage = lw_step.stage /\ lw_step'.layer = lw_step.layer
      /\ lw_step'.batch = b /\ lw_step'.todo = Tail(s)
      /\ lw_step' \in Steps
  BY <1>1, <1>3, <1>4, <1>5 DEF Steps
<1>7. Turn = s[1] /\ Turn \in LWReqs /\ ToDo(Turn)
  BY <1>2, <1>4 DEF Turn, ToDo
<1>8. /\ \A i, j \in 1..Len(b) : b[i] = b[j] => i = j
      /\ Len(s) <= Len(b) /\ Len(b) \in Nat
      /\ \A i \in 1..Len(s) : s[i] = b[Len(b) - Len(s) + i]
  <2>1. TodoIsSuffix
    BY DEF LayerInv
  <2>2. Len(b) \in Nat
    OBVIOUS
  <2> QED BY <1>2, <1>3, <2>1, <2>2 DEF TodoIsSuffix
<1>9. ASSUME NEW q \in LWReqs PROVE ToDo(q)' <=> ToDo(q) /\ q # Turn
  <2>1. ASSUME NEW i \in 1..(Len(s) - 1) PROVE i + 1 \in 1..Len(s) /\ s[i + 1] # s[1]
    <3>1. i + 1 \in 1..Len(s) /\ 1 \in 1..Len(s) /\ i + 1 # 1
      BY <1>4
    <3>2. /\ Len(b) - Len(s) + (i + 1) \in 1..Len(b) /\ Len(b) - Len(s) + 1 \in 1..Len(b)
          /\ Len(b) - Len(s) + (i + 1) # Len(b) - Len(s) + 1
      BY <1>4, <1>8, <3>1
    <3> QED BY <1>8, <3>1, <3>2
  <2>2. ToDo(q)' <=> \E i \in 1..(Len(s) - 1) : s[i + 1] = q
    BY <1>4, <1>6 DEF ToDo
  <2>3. ToDo(q) <=> \E i \in 1..Len(s) : s[i] = q
    BY <1>2 DEF ToDo
  <2>4. ASSUME NEW i \in 1..Len(s), i # 1 PROVE i - 1 \in 1..(Len(s) - 1) /\ (i - 1) + 1 = i
    BY <1>4, <2>4
  <2> QED BY <1>7, <2>1, <2>2, <2>3, <2>4
<1>10. TodoIsSuffix'
  <2>1. ASSUME NEW i \in 1..(Len(s) - 1)
        PROVE  Tail(s)[i] = b[Len(b) - (Len(s) - 1) + i]
    <3>1. i + 1 \in 1..Len(s) /\ Len(b) - Len(s) + (i + 1) = Len(b) - (Len(s) - 1) + i
      BY <1>4, <1>8
    <3> QED BY <1>4, <1>8, <3>1
  <2> QED BY <1>4, <1>6, <1>8, <2>1 DEF TodoIsSuffix
<1> QED BY <1>3, <1>6, <1>7, <1>9, <1>10

LEMMA LayerInvInit == LWInit => LayerInv
<1> SUFFICES ASSUME LWInit PROVE LayerInv
  OBVIOUS
<1>1. /\ lw_step = NoStep /\ store_stream = <<>>
      /\ lw_req = [r \in LWReqs |-> [stage |-> "new", hit |-> 0, loaded |-> 0, storer |-> "none", new |-> {}]]
  BY DEF LWInit
<1>2. LayerTypeOK
  <2>1. \A r \in LWReqs : Len(LWPrompts[r]) \in Nat
    BY LayerwiseAssumption
  <2>2. lw_step \in Steps
    BY <1>1, LayerwiseAssumption DEF NoStep, Steps
  <2>3. store_stream \in Seq(Copying)
    BY <1>1
  <2> QED BY <1>1, <2>1, <2>2, <2>3 DEF LayerTypeOK, Requests, LWInit
<1>3. TodoIsSuffix /\ BatchLooked
  BY <1>1 DEF TodoIsSuffix, BatchLooked, NoStep
<1>4. PinsHeld
  <2>1. \A e \in LWEntries : Claims(lw_req, e) = {}
    BY <1>1 DEF Claims
  <2>2. \A e \in LWEntries : Cardinality(Claims(lw_req, e)) = 0
    BY <2>1, FS_EmptySet
  <2>3. \A e \in LWEntries : lw_pins[e] = 0
    BY DEF LWInit
  <2> QED BY <2>2, <2>3 DEF PinsHeld
<1>5. LookedCached
  BY <1>1 DEF LookedCached, Looked
<1>6. StreamClean /\ PutAfterCopy
  BY <1>1 DEF StreamClean, NoStep, PutAfterCopy, LWInit
<1> QED BY <1>2, <1>3, <1>4, <1>5, <1>6 DEF LayerInv

\* What StreamClean is about does not change.
LEMMA SameSync ==
    ASSUME NEW q \in LWReqs, lw_step'.batch = lw_step.batch, 
           \A r \in LWReqs : lw_req'[r].storer = lw_req[r].storer,
           lw_step.batch \in Seq(LWReqs)
    PROVE  /\ sync(q)' <=> sync(q)
           /\ lw_req'[q].storer = lw_req[q].storer
<1>1. \A i \in DOMAIN lw_step.batch : lw_step.batch[i] \in LWReqs
  OBVIOUS
<1>2. \A i \in DOMAIN lw_step.batch, j \in Int : j \in 1..(i - 1) => j \in DOMAIN lw_step.batch
  OBVIOUS
<1> QED BY <1>1, <1>2 DEF sync

\* A storing request whose turn it is puts nothing before its copy, if the
\* first storer of the batch copies.
LEMMA PutIsLate ==
    ASSUME LayerInv, NEW l \in Nat, lw_step.todo # <<>>,
           lw_req[Turn].storer = "storing", sync(Turn) => store_stream = <<>>,
           \/ lw_step.stage = "save" /\ lw_step.layer > 1 /\ l = lw_step.layer - 1
           \/ lw_step.stage = "finish",
           Put(Turn, l)
    PROVE  PutAfterCopy'
<1> DEFINE r == Turn
<1> SUFFICES ASSUME <<r, l>> \in ToSet(store_stream), NEW q \in LWReqs, sync(q), lw_req[q].storer = "storing"
             PROVE  FALSE
  <2>1. lw_step.batch \in Seq(LWReqs)
    BY DEF LayerInv, LayerTypeOK, Steps
  <2>2. ToSet(lw_step.batch) \subseteq LWReqs
    BY <2>1 DEF ToSet
  <2>3. TRUE \notin early_puts
    BY DEF LayerInv, PutAfterCopy
  <2> QED BY <2>2, <2>3 DEF Put, PutAfterCopy
<1>1. /\ lw_step.todo \in Seq(LWReqs) /\ lw_step.batch \in Seq(LWReqs) /\ store_stream \in Seq(Copying)
      /\ lw_step.layer \in Nat
  BY DEF LayerInv, LayerTypeOK, Steps
<1>2. PICK j \in 1..Len(store_stream) : store_stream[j] = <<r, l>>
  BY <1>1 DEF ToSet
<1>3. ~sync(r)
  BY <1>1, <1>2
<1>4. r \in LWReqs /\ ToDo(r) /\ r = lw_step.todo[1] /\ 1 \in 1..Len(lw_step.todo)
  <2>1. PICK s \in Seq(LWReqs) : s = lw_step.todo
    BY <1>1
  <2>2. /\ s # <<>> /\ r = Head(s)
        /\ ToDo(r) <=> \E i \in 1..Len(s) : s[i] = r
    BY <2>1 DEF Turn, ToDo
  <2> HIDE DEF r
  <2>3. Head(s) = s[1] /\ 1 \in 1..Len(s) /\ s[1] \in LWReqs
    BY <2>2
  <2> QED BY <2>1, <2>2, <2>3
<1>5. CASE ToDo(q)
  <2>1. PICK i \in 1..Len(lw_step.todo) : lw_step.todo[i] = q
    BY <1>5 DEF ToDo
  <2>2. PICK k \in DOMAIN lw_step.batch :
            /\ lw_step.batch[k] = q
            /\ \A m \in 1..(k - 1) : lw_req[lw_step.batch[m]].storer = "skipped"
    BY DEF sync
  <2>a. PICK s \in Seq(LWReqs) : s = lw_step.todo
    BY <1>1
  <2>b. PICK b \in Seq(LWReqs) : b = lw_step.batch
    BY <1>1
  <2>c. TodoIsSuffix
    BY DEF LayerInv
  <2>d. /\ \A x, y \in 1..Len(b) : b[x] = b[y] => x = y
        /\ Len(s) <= Len(b) /\ Len(b) \in Nat /\ Len(s) \in Nat
        /\ \A x \in 1..Len(s) : s[x] = b[Len(b) - Len(s) + x]
    <3>1. Len(b) \in Nat /\ Len(s) \in Nat
      OBVIOUS
    <3> QED BY <2>a, <2>b, <2>c, <3>1 DEF TodoIsSuffix
  <2> DEFINE d == Len(b) - Len(s)
  <2>3. /\ d \in Nat /\ d + i \in 1..Len(b) /\ b[d + i] = q
        /\ b[d + 1] = r
    <3>1. i \in 1..Len(s) /\ s[i] = q /\ 1 \in 1..Len(s) /\ s[1] = r
      BY <1>4, <2>1, <2>a
    <3>2. d \in Nat /\ d + i \in 1..Len(b)
      BY <3>1, <2>d
    <3> QED BY <3>1, <3>2, <2>d
  <2>4. k = d + i
    <3>1. k \in 1..Len(b) /\ b[k] = q
      BY <2>2, <2>b
    <3> HIDE DEF d
    <3> QED BY <3>1, <2>3, <2>d
  <2>5. i # 1
    BY <1>3, <1>4, <2>1
  <2>6. d + 1 \in 1..(k - 1)
    <3> HIDE DEF d
    <3> QED BY <2>1, <2>a, <2>d, <2>3, <2>4, <2>5
  <2> HIDE DEF d
  <2> QED BY <2>2, <2>3, <2>6, <2>b
<1>6. CASE ~ToDo(q)
  <2>1. CASE lw_step.stage = "finish"
    <3>1. store_stream = <<>>
      BY <1>6, <2>1 DEF LayerInv, StreamClean
    <3> QED BY <1>2, <3>1
  <2>2. CASE lw_step.stage = "save" /\ lw_step.layer > 1
    <3>1. ~ToDo(store_stream[j][1])
      BY <1>6, <2>2 DEF LayerInv, StreamClean
    <3> QED BY <1>2, <1>4, <3>1
  <2> QED BY <2>1, <2>2
<1> QED BY <1>5, <1>6

\* Taking a layer: the request's turn ends, or a layer is gone and the step has
\* raised; promises, pins and the stream stay.
LEMMA LoadsKeep ==
    ASSUME LayerInv, NEW l \in Nat, lw_step.stage \in {"start", "load"}, lw_step.todo # <<>>,
           Loads(Turn, l), UNCHANGED <<lw_cache, lw_pins, store_stream, early_puts>>
    PROVE  LayerInv'
<1>1. /\ lw_req \in [LWReqs -> Requests] /\ lw_step \in Steps
      /\ lw_step.todo \in Seq(LWReqs) /\ lw_step.batch \in Seq(LWReqs) /\ Turn \in LWReqs
  BY DEF LayerInv, LayerTypeOK, Requests, Steps, Turn
<1>2. /\ lw_req' \in [LWReqs -> Requests]
      /\ \A r \in LWReqs : /\ lw_req'[r].stage = lw_req[r].stage /\ lw_req'[r].hit = lw_req[r].hit
                           /\ lw_req'[r].storer = lw_req[r].storer
  <2>1. lw_req' = lw_req \/ lw_req' = [lw_req EXCEPT ![Turn].loaded = l]
    BY DEF Loads
  <2>2. PICK t \in LWReqs : t = Turn
    BY <1>1
  <2>3. CASE lw_req' = lw_req
    BY <1>1, <2>3
  <2>4. CASE lw_req' = [lw_req EXCEPT ![t].loaded = l]
    BY <1>1, <2>4 DEF Requests
  <2> QED BY <2>1, <2>2, <2>3, <2>4
<1>3. PinsHeld' /\ LookedCached'
  BY <1>2, PromisesKept
<1>4. PutAfterCopy'
  BY DEF LayerInv, PutAfterCopy
<1>5. CASE StepOn
  <2>1. /\ lw_step' \in Steps /\ lw_step'.stage = lw_step.stage /\ lw_step'.batch = lw_step.batch /\ TodoIsSuffix'
    BY <1>5, TodoTail DEF Steps
  <2>2. LayerTypeOK'
    BY <1>2, <2>1 DEF LayerInv, LayerTypeOK, Requests, Steps
  <2>3. BatchLooked'
    BY <1>1, <1>2, <2>1 DEF LayerInv, BatchLooked, Looked
  <2>4. StreamClean'
    BY <2>1 DEF StreamClean
  <2> QED BY <1>3, <1>4, <2>1, <2>2, <2>3, <2>4 DEF LayerInv
<1>6. CASE lw_step' = [lw_step EXCEPT !.stage = "raised"]
  <2>1. /\ lw_step' \in Steps /\ lw_step'.stage = "raised"
        /\ lw_step'.batch = lw_step.batch /\ lw_step'.todo = lw_step.todo
    BY <1>1, <1>6 DEF Steps
  <2>2. LayerTypeOK'
    BY <1>2, <2>1 DEF LayerInv, LayerTypeOK, Requests, Steps
  <2>3. BatchLooked' /\ StreamClean'
    BY <2>1 DEF BatchLooked, StreamClean
  <2>4. TodoIsSuffix'
    BY <2>1 DEF LayerInv, TodoIsSuffix
  <2> QED BY <1>3, <1>4, <2>2, <2>3, <2>4 DEF LayerInv
<1> QED BY <1>5, <1>6 DEF Loads

LEMMA LookupKeeps ==
    ASSUME LayerInv, NEW r \in LWReqs, lw_lookup(r)
    PROVE  LayerInv'
<1> DEFINE p == LWPrompts[r]
           n == ChunksHit(p)
<1>1. /\ lw_req \in [LWReqs -> Requests] /\ lw_step \in Steps /\ lw_step' = lw_step
      /\ lw_req[r].stage = "new" /\ lw_step.batch \in Seq(LWReqs) /\ lw_step.todo \in Seq(LWReqs)
  BY DEF LayerInv, LayerTypeOK, Requests, Steps, lw_lookup
<1>2. n \in 0..Len(p) /\ \A i \in 1..n, l \in 1..LWLayers : <<p[i], l>> \in lw_cache
  BY ChunksHitCached
<1>3. p \in Seq(LWChunks) /\ Len(p) \in Nat /\ n \in Nat /\ n <= Len(p)
  BY <1>2, LayerwiseAssumption
<1> HIDE DEF n, p
<1>4. /\ lw_req' = [lw_req EXCEPT ![r].stage = "looked", ![r].hit = n]
      /\ lw_pins' = [e \in LWEntries |-> lw_pins[e] + (IF e \in Pinned(p, n) \cap lw_cache THEN 1 ELSE 0)]
      /\ UNCHANGED <<lw_cache, store_stream, early_puts>>
  BY DEF lw_lookup, n, p
<1>5. /\ lw_req' \in [LWReqs -> Requests] /\ lw_req'[r].stage = "looked" /\ lw_req'[r].hit = n
      /\ \A q \in LWReqs : lw_req'[q].storer = lw_req[q].storer
      /\ \A q \in LWReqs : q # r => lw_req'[q].stage = lw_req[q].stage /\ lw_req'[q].hit = lw_req[q].hit
  BY <1>1, <1>3, <1>4, ZenonT(60) DEF Requests
<1>6. LayerTypeOK'
  <2>1. \A q \in LWReqs : lw_req'[q].hit <= Len(LWPrompts[q])
    BY <1>3, <1>5 DEF LayerInv, LayerTypeOK, p
  <2>2. lw_pins' \in [LWEntries -> Int]
    BY <1>4 DEF LayerInv, LayerTypeOK, Steps
  <2> QED BY <1>1, <1>4, <1>5, <2>1, <2>2 DEF LayerInv, LayerTypeOK, Requests
<1>7. TodoIsSuffix' /\ PutAfterCopy'
  BY <1>1, <1>4 DEF LayerInv, TodoIsSuffix, PutAfterCopy
<1>8. BatchLooked'
  <2>1. \A q \in LWReqs : Looked(q) => Looked(q)'
    BY <1>5 DEF Looked
  <2>2. /\ \A i \in 1..Len(lw_step.batch) : lw_step.batch[i] \in LWReqs
        /\ \A i \in 1..Len(lw_step.todo) : lw_step.todo[i] \in LWReqs
    BY <1>1
  <2> QED BY <1>1, <2>1, <2>2 DEF LayerInv, BatchLooked
<1>9. ASSUME NEW e \in LWEntries PROVE lw_pins'[e] >= Cardinality(Claims(lw_req', e))
  <2>1. lw_pins[e] \in Int /\ lw_pins[e] >= Cardinality(Claims(lw_req, e))
    BY DEF LayerInv, LayerTypeOK, PinsHeld
  <2>2. r \notin Claims(lw_req, e)
    BY <1>1 DEF Claims
  <2>3. CASE e[1] \in HitOf(lw_req', r)
    <3>1. Claims(lw_req', e) = Claims(lw_req, e) \cup {r}
      BY <1>5, <2>3 DEF Claims, HitOf
    <3>2. PICK i \in 1..n : e[1] = p[i]
      BY <2>3, <1>5 DEF HitOf, p
    <3>3. e[2] \in 1..LWLayers /\ e = <<p[i], e[2]>>
      BY <3>2 DEF LWEntries
    <3>4. e \in Pinned(p, n) \cap lw_cache
      BY <1>2, <3>3 DEF Pinned
    <3>5. lw_pins'[e] = lw_pins[e] + 1
      BY <1>4, <3>4
    <3>6. /\ Cardinality(Claims(lw_req, e)) \in Nat
          /\ Cardinality(Claims(lw_req', e)) = Cardinality(Claims(lw_req, e)) + 1
      BY <2>2, <3>1, ClaimsFinite, FS_AddElement
    <3> QED BY <2>1, <3>5, <3>6
  <2>4. CASE e[1] \notin HitOf(lw_req', r)
    <3>1. Claims(lw_req', e) = Claims(lw_req, e)
      BY <1>1, <1>5, <2>4 DEF Claims, HitOf
    <3>2. lw_pins'[e] >= lw_pins[e] /\ lw_pins'[e] \in Int
      BY <1>4, <2>1
    <3> QED BY <2>1, <3>1, <3>2, ClaimsFinite
  <2> QED BY <2>3, <2>4
<1>10. LookedCached'
  <2>1. AllLayers(HitOf(lw_req', r)) \subseteq lw_cache
    BY <1>2, <1>5 DEF AllLayers, HitOf, p
  <2>2. ASSUME NEW q \in LWReqs, q # r, Looked(q)' PROVE AllLayers(HitOf(lw_req', q)) \subseteq lw_cache
    <3>1. HitOf(lw_req', q) = HitOf(lw_req, q) /\ Looked(q)
      BY <1>5, <2>2 DEF HitOf, Looked
    <3> QED BY <3>1 DEF LayerInv, LookedCached
  <2> QED BY <1>4, <2>1, <2>2 DEF LookedCached, AllLayers
<1>11. StreamClean'
  BY <1>1, <1>4, <1>5, SameSync, SMTT(60) DEF LayerInv, StreamClean, ToDo
<1> QED BY <1>6, <1>7, <1>8, <1>9, <1>10, <1>11 DEF LayerInv, PinsHeld

LEMMA EvictKeeps ==
    ASSUME LayerInv, NEW e \in LWEntries, lw_evict(e)
    PROVE  LayerInv'
<1>1. /\ lw_cache' = lw_cache \ {e} /\ lw_pins[e] = 0
      /\ UNCHANGED <<lw_pins, lw_req, lw_step, store_stream, early_puts>>
  BY DEF lw_evict
<1>2. Claims(lw_req, e) = {}
  <2>1. 0 >= Cardinality(Claims(lw_req, e))
    BY <1>1 DEF LayerInv, PinsHeld
  <2> QED BY <2>1, ClaimsFinite, FS_EmptySet
<1>3. LookedCached'
  <2> SUFFICES ASSUME NEW r \in LWReqs, Looked(r) PROVE AllLayers(HitOf(lw_req, r)) \subseteq lw_cache \ {e}
    BY <1>1 DEF LookedCached, Looked, AllLayers
  <2>1. AllLayers(HitOf(lw_req, r)) \subseteq lw_cache
    BY DEF LayerInv, LookedCached
  <2>2. e[1] \notin HitOf(lw_req, r)
    BY <1>2 DEF Claims, Looked
  <2>3. e \notin AllLayers(HitOf(lw_req, r))
    BY <2>2 DEF AllLayers
  <2> QED BY <2>1, <2>3
<1>4. LayerTypeOK' /\ TodoIsSuffix' /\ BatchLooked' /\ PinsHeld' /\ PutAfterCopy'
  BY <1>1 DEF LayerInv, LayerTypeOK, TodoIsSuffix, BatchLooked, Looked, PinsHeld, PutAfterCopy
<1>5. StreamClean'
  BY <1>1 DEF LayerInv, StreamClean, ToDo, sync
<1> QED BY <1>3, <1>4, <1>5 DEF LayerInv

\* The first layer of a storer: its copy is queued, nothing is put.
LEMMA FirstLayerKeeps ==
    ASSUME LayerInv, save_first_layer
    PROVE  LayerInv'
<1> DEFINE r == Turn
<1>1. /\ lw_req \in [LWReqs -> Requests] /\ lw_step.stage = "save" /\ lw_step.layer = 1
      /\ lw_step.batch \in Seq(LWReqs) /\ store_stream \in Seq(Copying)
      /\ UNCHANGED <<lw_cache, lw_pins, early_puts>>
  BY DEF LayerInv, LayerTypeOK, Steps, save_first_layer, Advance
<1>2. /\ r \in LWReqs /\ lw_step' \in Steps /\ lw_step'.stage = "save" /\ lw_step'.layer = 1
      /\ lw_step'.batch = lw_step.batch /\ TodoIsSuffix'
  BY <1>1, TodoTail DEF Steps, save_first_layer, Advance
<1> HIDE DEF r
<1>3. PICK m \in 0..Len(LWPrompts[r]), mode \in {"skipped", "frozen", "empty", "storing"} :
        /\ lw_req' = [lw_req EXCEPT ![r].storer = mode, ![r].new = NotCached(r, m)]
        /\ store_stream' = IF mode = "storing" THEN Append(store_stream, <<r, 1>>) ELSE store_stream
  BY DEF save_first_layer, r
<1>4. NotCached(r, m) \in SUBSET LWChunks
  <2>1. LWPrompts[r] \in Seq(LWChunks) /\ lw_req[r].hit \in Nat
    BY <1>1, <1>2, LayerwiseAssumption DEF Requests
  <2>2. m \in Nat /\ m <= Len(LWPrompts[r])
    BY <2>1
  <2>3. \A i \in lw_req[r].hit + 1 .. m : LWPrompts[r][i] \in LWChunks
    BY <2>1, <2>2
  <2> QED BY <2>3 DEF NotCached
<1>5. /\ lw_req' \in [LWReqs -> Requests]
      /\ \A q \in LWReqs : lw_req'[q].stage = lw_req[q].stage /\ lw_req'[q].hit = lw_req[q].hit
  <2> DEFINE new == NotCached(r, m)
  <2>1. lw_req' = [lw_req EXCEPT ![r].storer = mode, ![r].new = new]
    BY <1>3
  <2> HIDE DEF new
  <2> QED BY <1>1, <1>2, <1>4, <2>1, ZenonT(60) DEF Requests, new
<1>6. store_stream' \in Seq(Copying)
  <2>1. <<r, 1>> \in Copying
    BY <1>2 DEF Copying
  <2> QED BY <1>1, <1>3, <2>1
<1>7. LayerTypeOK'
  BY <1>1, <1>2, <1>5, <1>6 DEF LayerInv, LayerTypeOK, Requests, Steps
<1>8. PinsHeld' /\ LookedCached'
  BY <1>1, <1>5, PromisesKept
<1>9. BatchLooked'
  BY <1>1, <1>2, <1>5 DEF LayerInv, BatchLooked, Looked
<1>10. StreamClean' /\ PutAfterCopy'
  <2>1. ~(lw_step'.stage = "save" /\ lw_step'.layer > 1) /\ lw_step'.stage # "finish"
    BY <1>2
  <2>2. StreamClean'
    BY <2>1 DEF StreamClean
  <2> QED BY <1>1, <2>2 DEF LayerInv, PutAfterCopy
<1> QED BY <1>2, <1>7, <1>8, <1>9, <1>10 DEF LayerInv

\* A later layer: the layer before it is put, and its copy queued.
LEMMA NextLayerKeeps ==
    ASSUME LayerInv, save_kv_layer
    PROVE  LayerInv'
<1>r. PICK r : r = Turn
  OBVIOUS
<1>l. PICK l : l = lw_step.layer
  OBVIOUS
<1>1. /\ lw_step.stage = "save" /\ l \in Nat /\ l > 1 /\ l - 1 \in Nat /\ lw_step.todo # <<>> /\ StepOn
      /\ lw_step.batch \in Seq(LWReqs) /\ store_stream \in Seq(Copying)
      /\ UNCHANGED <<lw_pins, lw_req>>
  BY <1>l, LayerwiseAssumption DEF LayerInv, LayerTypeOK, Steps, save_kv_layer, Advance
<1>2. /\ r \in LWReqs /\ lw_step' \in Steps /\ lw_step'.stage = "save" /\ lw_step'.layer = l
      /\ lw_step'.batch = lw_step.batch /\ TodoIsSuffix' /\ ToDo(r)
      /\ \A q \in LWReqs : ToDo(q)' <=> ToDo(q) /\ q # r
  BY <1>r, <1>l, <1>1, TodoTail DEF Steps
<1>3. /\ lw_cache \subseteq lw_cache' /\ store_stream' \in Seq(Copying)
  <2>1. <<r, l>> \in Copying
    BY <1>1, <1>2 DEF Copying
  <2>2. store_stream' = store_stream \/ store_stream' = Append(store_stream, <<r, l>>)
    BY <1>r, <1>l DEF save_kv_layer
  <2>3. lw_cache \subseteq lw_cache'
    BY DEF save_kv_layer, Put
  <2>4. PICK s \in Seq(Copying), c \in Copying : s = store_stream /\ c = <<r, l>>
    BY <1>1, <2>1
  <2>5. Append(s, c) \in Seq(Copying)
    OBVIOUS
  <2> QED BY <2>2, <2>3, <2>4, <2>5
<1>4. PinsHeld' /\ LookedCached'
  BY <1>1, <1>3, PromisesKept
<1>5. PutAfterCopy'
  <2>1. CASE lw_req[r].storer = "storing"
    BY <1>r, <1>l, <1>1, <2>1, PutIsLate DEF save_kv_layer
  <2>2. CASE lw_req[r].storer # "storing"
    BY <1>r, <2>2 DEF save_kv_layer, LayerInv, PutAfterCopy
  <2> QED BY <2>1, <2>2
<1>6. LayerTypeOK'
  BY <1>1, <1>2, <1>3 DEF LayerInv, LayerTypeOK, Steps
<1>7. BatchLooked'
  BY <1>1, <1>2 DEF LayerInv, BatchLooked, Looked
<1>8. StreamClean'
  <2>1. ASSUME NEW q \in LWReqs, sync(q)', lw_req'[q].storer = "storing", ~ToDo(q)',
               NEW j \in 1..Len(store_stream'), NEW x, x = store_stream'[j]
        PROVE  x[2] = l /\ ~ToDo(x[1])'
    <3>1. sync(q) /\ lw_req[q].storer = "storing"
      BY <1>1, <1>2, <2>1, SameSync
    <3>2. PICK s \in Seq(Copying) : s = store_stream
      BY <1>1
    <3>3. x = <<r, l>> => x[2] = l /\ ~ToDo(x[1])'
      BY <1>2
    <3>4. CASE q = r
      <4>1. store_stream = <<>> /\ store_stream' = Append(store_stream, <<r, l>>)
        BY <1>r, <1>l, <3>1, <3>4 DEF save_kv_layer
      <4>2. store_stream' = <<<<r, l>>>>
        BY <4>1
      <4>3. x = <<r, l>>
        BY <2>1, <4>2
      <4> QED BY <3>3, <4>3
    <3>5. CASE q # r
      <4>1. ~ToDo(q)
        BY <1>2, <2>1, <3>5
      <4>2. \A i \in 1..Len(s) : s[i][2] = l /\ ~ToDo(s[i][1])
        BY <1>l, <1>1, <3>1, <3>2, <4>1 DEF LayerInv, StreamClean
      <4>3. ASSUME NEW i \in 1..Len(s), x = s[i] PROVE x[2] = l /\ ~ToDo(x[1])'
        <5>1. x \in Copying /\ x[2] = l /\ ~ToDo(x[1])
          BY <4>2, <4>3
        <5>2. x[1] \in LWReqs
          BY <5>1 DEF Copying
        <5> QED BY <1>2, <5>1, <5>2
      <4>4. store_stream' = s \/ store_stream' = Append(s, <<r, l>>)
        BY <1>r, <1>l, <3>2 DEF save_kv_layer
      <4>5. CASE store_stream' = s
        BY <2>1, <4>3, <4>5
      <4>6. CASE store_stream' = Append(s, <<r, l>>)
        <5>1. Len(s) \in Nat /\ j \in 1..(Len(s) + 1)
          BY <4>6
        <5>2. CASE j = Len(s) + 1
          <6>1. x = <<r, l>>
            BY <2>1, <4>6, <5>1, <5>2
          <6> QED BY <3>3, <6>1
        <5>3. CASE j # Len(s) + 1
          <6>1. j \in 1..Len(s) /\ x = s[j]
            BY <2>1, <4>6, <5>1, <5>3
          <6> QED BY <4>3, <6>1
        <5> QED BY <5>2, <5>3
      <4> QED BY <4>4, <4>5, <4>6
    <3> QED BY <3>4, <3>5
  <2> QED BY <1>2, <2>1 DEF StreamClean
<1> QED BY <1>2, <1>4, <1>5, <1>6, <1>7, <1>8 DEF LayerInv

\* The turn of a request in wait_for_save ends its promise and gives its pins
\* back.
LEMMA FinishKeeps ==
    ASSUME LayerInv, wait_for_save
    PROVE  LayerInv'
<1>r. PICK r : r = Turn
  OBVIOUS
<1>1. /\ lw_req \in [LWReqs -> Requests] /\ lw_step \in Steps /\ lw_step.stage = "finish" /\ lw_step.todo # <<>>
      /\ lw_step.todo \in Seq(LWReqs) /\ lw_step.batch \in Seq(LWReqs)
      /\ lw_pins \in [LWEntries -> Int] /\ UNCHANGED store_stream
  BY DEF LayerInv, LayerTypeOK, Requests, Steps, wait_for_save, Advance
<1>2. CASE lw_req[r].storer = "frozen"
  <2>1. lw_step' = [lw_step EXCEPT !.stage = "raised"] /\ UNCHANGED <<lw_cache, lw_pins, lw_req, early_puts>>
    BY <1>r, <1>2 DEF wait_for_save
  <2>2. /\ lw_step' \in Steps /\ lw_step'.stage = "raised"
        /\ lw_step'.batch = lw_step.batch /\ lw_step'.todo = lw_step.todo
    BY <1>1, <2>1 DEF Steps
  <2>3. LayerTypeOK'
    BY <1>1, <2>1, <2>2 DEF LayerInv, LayerTypeOK, Steps
  <2>4. BatchLooked' /\ StreamClean'
    BY <2>2 DEF BatchLooked, StreamClean
  <2>5. TodoIsSuffix' /\ PutAfterCopy'
    BY <2>1, <2>2, ZenonT(60) DEF LayerInv, TodoIsSuffix, PutAfterCopy
  <2>6. PinsHeld' /\ LookedCached'
    BY <2>1, PromisesKept
  <2> QED BY <2>3, <2>4, <2>5, <2>6 DEF LayerInv
<1>3. CASE lw_req[r].storer # "frozen"
  <2>1. /\ StepOn
        /\ lw_pins' = [e \in LWEntries |-> lw_pins[e] - (IF e \in AllLayers(HitChunks(r)) THEN 1 ELSE 0)]
        /\ lw_req' = [lw_req EXCEPT ![r].stage = "done"]
    BY <1>r, <1>3 DEF wait_for_save
  <2>2. /\ r \in LWReqs /\ lw_step' \in Steps /\ lw_step'.stage = "finish"
        /\ lw_step'.batch = lw_step.batch /\ TodoIsSuffix' /\ ToDo(r)
        /\ \A q \in LWReqs : ToDo(q)' <=> ToDo(q) /\ q # r
    BY <1>r, <1>1, <2>1, TodoTail DEF Steps
  <2>3. /\ lw_req' \in [LWReqs -> Requests] /\ lw_req'[r].stage = "done"
        /\ \A q \in LWReqs : lw_req'[q].storer = lw_req[q].storer /\ lw_req'[q].hit = lw_req[q].hit
        /\ \A q \in LWReqs : q # r => lw_req'[q].stage = lw_req[q].stage
    <3>1. PICK b : b = [lw_req[r] EXCEPT !.stage = "done"]
      OBVIOUS
    <3>2. b \in Requests /\ b.stage = "done" /\ b.storer = lw_req[r].storer /\ b.hit = lw_req[r].hit
      BY <1>1, <2>2, <3>1 DEF Requests
    <3>3. lw_req' = [lw_req EXCEPT ![r] = b] /\ lw_req \in [LWReqs -> Requests]
      BY <1>1, <2>1, <3>1
    <3>4. lw_req' \in [LWReqs -> Requests] /\ lw_req'[r] = b /\ \A q \in LWReqs : q # r => lw_req'[q] = lw_req[q]
      BY <2>2, <3>2, <3>3
    <3> QED BY <3>2, <3>4
  <2>4. lw_cache \subseteq lw_cache'
    BY <1>r, <1>3 DEF wait_for_save, Put
  <2>5. \A q \in LWReqs : ToDo(q) => Looked(q)
    BY <1>1 DEF LayerInv, BatchLooked, ToDo
  <2>6. LayerTypeOK'
    <3>1. lw_pins' \in [LWEntries -> Int]
      BY <1>1, <2>1
    <3>2. \A q \in LWReqs : lw_req'[q].hit <= Len(LWPrompts[q])
      BY <2>3 DEF LayerInv, LayerTypeOK, Steps
    <3> QED BY <1>1, <2>2, <2>3, <3>1, <3>2 DEF LayerInv, LayerTypeOK, Requests, Steps
  <2>7. BatchLooked'
    <3>1. \A i \in 1..Len(lw_step'.todo) : lw_step'.todo[i] \in LWReqs
      BY <2>2 DEF Steps
    <3>2. ASSUME NEW q \in LWReqs, ToDo(q)' PROVE Looked(q)'
      BY <2>2, <2>3, <2>5, <3>2 DEF Looked
    <3> QED BY <2>2, <3>1, <3>2 DEF BatchLooked, ToDo
  <2>8. \A q \in LWReqs : HitOf(lw_req', q) = HitOf(lw_req, q)
    BY <2>3 DEF HitOf
  <2>9. ASSUME NEW e \in LWEntries PROVE lw_pins'[e] >= Cardinality(Claims(lw_req', e))
    <3>1. lw_pins[e] \in Int /\ lw_pins[e] >= Cardinality(Claims(lw_req, e))
      BY <1>1 DEF LayerInv, PinsHeld
    <3>2. Claims(lw_req', e) = Claims(lw_req, e) \ {r}
      BY <2>2, <2>3, <2>8 DEF Claims
    <3>3. e \in AllLayers(HitChunks(r)) => r \in Claims(lw_req, e)
      <4>1. HitChunks(r) = HitOf(lw_req, r)
        BY DEF HitChunks, HitOf
      <4> QED BY <2>2, <2>5, <4>1 DEF AllLayers, Claims, Looked
    <3>4. /\ Cardinality(Claims(lw_req, e)) \in Nat
          /\ Cardinality(Claims(lw_req', e)) =
                IF r \in Claims(lw_req, e) THEN Cardinality(Claims(lw_req, e)) - 1 ELSE Cardinality(Claims(lw_req, e))
      BY <3>2, ClaimsFinite, FS_RemoveElement
    <3>5. lw_pins'[e] = lw_pins[e] - (IF e \in AllLayers(HitChunks(r)) THEN 1 ELSE 0)
      BY <2>1
    <3> QED BY <3>1, <3>3, <3>4, <3>5
  <2>10. LookedCached'
    <3> SUFFICES ASSUME NEW q \in LWReqs, Looked(q)' PROVE AllLayers(HitOf(lw_req', q)) \subseteq lw_cache'
      BY DEF LookedCached, AllLayers
    <3>1. Looked(q)
      BY <2>3 DEF Looked
    <3>2. AllLayers(HitOf(lw_req, q)) \subseteq lw_cache
      BY <3>1 DEF LayerInv, LookedCached
    <3> QED BY <2>4, <2>8, <3>2
  <2>11. PutAfterCopy'
    <3>1. CASE lw_req[r].storer = "storing"
      <4>1. LWLayers \in Nat
        BY LayerwiseAssumption
      <4>2. (sync(Turn) => store_stream = <<>>) /\ Put(Turn, LWLayers)
        BY <1>r, <3>1 DEF wait_for_save
      <4> QED BY <1>r, <1>1, <3>1, <4>1, <4>2, PutIsLate
    <3>2. CASE lw_req[r].storer # "storing"
      BY <1>r, <1>3, <3>2 DEF wait_for_save, LayerInv, PutAfterCopy
    <3> QED BY <3>1, <3>2
  <2>12. StreamClean'
    <3> SUFFICES ASSUME NEW q \in LWReqs, sync(q)', lw_req'[q].storer = "storing", ~ToDo(q)'
                 PROVE  store_stream' = <<>>
      BY <2>2 DEF StreamClean
    <3>1. sync(q) /\ lw_req[q].storer = "storing"
      BY <1>1, <2>2, <2>3, SameSync
    <3>2. CASE q = r
      BY <1>r, <1>1, <3>1, <3>2 DEF wait_for_save
    <3>3. CASE q # r
      BY <1>1, <2>2, <3>1, <3>3 DEF LayerInv, StreamClean
    <3> QED BY <3>2, <3>3
  <2> QED BY <2>2, <2>6, <2>7, <2>9, <2>10, <2>11, <2>12 DEF LayerInv, PinsHeld
<1> QED BY <1>2, <1>3

LEMMA ScheduleKeeps ==
    ASSUME LayerInv, NEW b \in Batches, lw_schedule(b)
    PROVE  LayerInv'
<1>1. /\ lw_step' = [stage |-> "start", layer |-> 1, todo |-> b, batch |-> b]
      /\ UNCHANGED <<lw_cache, lw_pins, lw_req, store_stream, early_puts>>
      /\ \A i \in DOMAIN b : lw_req[b[i]].stage = "looked"
  BY DEF lw_schedule
<1>2. b \in Seq(LWReqs) /\ \A i, j \in DOMAIN b : i # j => b[i] # b[j]
  <2>1. PICK n \in 1..Cardinality(LWReqs) : b \in [1..n -> LWReqs]
    BY DEF Batches
  <2>2. n \in Nat
    BY FS_CardinalityType, LayerwiseAssumption
  <2> QED BY <2>1, <2>2 DEF Batches
<1>3. /\ lw_step' \in Steps /\ lw_step'.stage = "start" /\ lw_step'.todo = b /\ lw_step'.batch = b
  BY <1>1, <1>2, LayerwiseAssumption DEF Steps
<1>4. LayerTypeOK'
  BY <1>1, <1>3 DEF LayerInv, LayerTypeOK, Steps
<1>5. TodoIsSuffix'
  <2>1. Len(b) \in Nat /\ DOMAIN b = 1..Len(b) /\ \A i \in 1..Len(b) : Len(b) - Len(b) + i = i
    BY <1>2
  <2> QED BY <1>2, <1>3, <2>1 DEF TodoIsSuffix
<1>6. BatchLooked' /\ StreamClean' /\ PutAfterCopy'
  <2>1. \A i \in 1..Len(b) : lw_req'[b[i]].stage = "looked"
    BY <1>1, <1>2
  <2>2. BatchLooked'
    BY <1>3, <2>1 DEF BatchLooked, Looked
  <2>3. StreamClean'
    BY <1>3 DEF StreamClean
  <2> QED BY <1>1, <2>2, <2>3 DEF LayerInv, PutAfterCopy
<1>7. PinsHeld' /\ LookedCached'
  BY <1>1, PromisesKept
<1> QED BY <1>4, <1>5, <1>6, <1>7 DEF LayerInv

\* The next layer, or the end of the step: every request is to do again.
LEMMA ForwardKeeps ==
    ASSUME LayerInv, forward
    PROVE  LayerInv'
<1>1. /\ lw_step \in Steps /\ lw_step.stage \in {"start", "load", "save", "finish"} /\ lw_step' = NextStage
      /\ lw_step.batch \in Seq(LWReqs) /\ lw_step.layer \in Nat /\ LWLayers \in Nat
      /\ UNCHANGED <<lw_cache, lw_pins, lw_req, store_stream, early_puts>>
  BY LayerwiseAssumption DEF LayerInv, LayerTypeOK, Steps, forward
<1>2. TodoIsSuffix
  BY DEF LayerInv
<1>3. PICK b \in Seq(LWReqs) : b = lw_step.batch
  BY <1>1
<1>4. ASSUME lw_step' \in Steps, lw_step'.batch = b, lw_step'.todo = b,
             lw_step'.stage \in {"load", "save", "finish"},
             lw_step.stage \in {"start", "load", "save"}
      PROVE  LayerInv'
  <2>1. LayerTypeOK'
    BY <1>1, <1>4 DEF LayerInv, LayerTypeOK, Steps
  <2>2. TodoIsSuffix'
    <3>1. Len(b) \in Nat /\ \A i \in 1..Len(b) : Len(b) - Len(b) + i = i
      OBVIOUS
    <3>2. \A i, j \in 1..Len(b) : b[i] = b[j] => i = j
      BY <1>2, <1>3 DEF TodoIsSuffix
    <3> QED BY <1>4, <3>1, <3>2 DEF TodoIsSuffix
  <2>3. BatchLooked'
    BY <1>1, <1>3, <1>4 DEF LayerInv, BatchLooked, Looked
  <2>4. StreamClean'
    <3>1. ASSUME NEW q \in LWReqs, sync(q)' PROVE ToDo(q)'
      BY <1>3, <1>4, <3>1 DEF sync, ToDo
    <3> QED BY <3>1 DEF StreamClean
  <2>5. PinsHeld' /\ LookedCached' /\ PutAfterCopy'
    BY <1>1, PromisesKept DEF LayerInv, PutAfterCopy
  <2> QED BY <2>1, <2>2, <2>3, <2>4, <2>5 DEF LayerInv
<1>5. CASE lw_step.stage = "start"
  <2>1. lw_step' = [lw_step EXCEPT !.stage = "load", !.todo = b]
    BY <1>1, <1>3, <1>5 DEF NextStage
  <2> QED BY <1>1, <1>3, <1>4, <1>5, <2>1 DEF Steps
<1>6. CASE lw_step.stage = "load"
  <2>1. lw_step' = [lw_step EXCEPT !.stage = "save", !.todo = b]
    BY <1>1, <1>3, <1>6 DEF NextStage
  <2> QED BY <1>1, <1>3, <1>4, <1>6, <2>1 DEF Steps
<1>7. CASE lw_step.stage = "save" /\ lw_step.layer < LWLayers
  <2>1. lw_step' = [lw_step EXCEPT !.stage = "load", !.layer = @ + 1, !.todo = b]
    BY <1>1, <1>3, <1>7 DEF NextStage
  <2>2. lw_step.layer + 1 \in 0..LWLayers
    BY <1>1, <1>7
  <2>3. /\ lw_step' \in Steps /\ lw_step'.batch = b /\ lw_step'.todo = b /\ lw_step'.stage = "load"
    BY <1>1, <1>3, <2>1, <2>2 DEF Steps
  <2> QED BY <1>4, <1>7, <2>3
<1>8. CASE lw_step.stage = "save" /\ lw_step.layer = LWLayers
  <2>1. lw_step' = [lw_step EXCEPT !.stage = "finish", !.todo = b]
    BY <1>1, <1>3, <1>8 DEF NextStage
  <2> QED BY <1>1, <1>3, <1>4, <1>8, <2>1 DEF Steps
<1>9. CASE lw_step.stage = "finish"
  <2>1. lw_step' = NoStep
    BY <1>1, <1>9 DEF NextStage
  <2>2. lw_step' \in Steps /\ lw_step'.batch = <<>> /\ lw_step'.todo = <<>> /\ lw_step'.stage = "idle"
    BY <2>1, LayerwiseAssumption DEF NoStep, Steps
  <2>3. LayerTypeOK'
    BY <1>1, <2>2 DEF LayerInv, LayerTypeOK, Steps
  <2>4. TodoIsSuffix' /\ BatchLooked' /\ StreamClean'
    BY <2>2 DEF TodoIsSuffix, BatchLooked, StreamClean
  <2>5. PinsHeld' /\ LookedCached' /\ PutAfterCopy'
    BY <1>1, PromisesKept DEF LayerInv, PutAfterCopy
  <2> QED BY <2>3, <2>4, <2>5 DEF LayerInv
<1>10. ~(lw_step.layer > LWLayers)
  BY <1>1 DEF Steps
<1> QED BY <1>1, <1>5, <1>6, <1>7, <1>8, <1>9, <1>10

LEMMA CopyDoneKeeps ==
    ASSUME LayerInv, copy_done
    PROVE  LayerInv'
<1>1. /\ store_stream # <<>> /\ store_stream' = Tail(store_stream) /\ store_stream \in Seq(Copying)
      /\ UNCHANGED <<lw_cache, lw_pins, lw_req, lw_step, early_puts>>
  BY DEF LayerInv, LayerTypeOK, copy_done
<1>2. PICK s \in Seq(Copying) : s = store_stream
  BY <1>1
<1>3. /\ Tail(s) \in Seq(Copying)
      /\ \A j \in 1..Len(Tail(s)) : Tail(s)[j] = s[j + 1] /\ j + 1 \in 1..Len(s)
  BY <1>1, <1>2
<1>4. LayerTypeOK'
  BY <1>1, <1>2, <1>3 DEF LayerInv, LayerTypeOK, Steps
<1>5. TodoIsSuffix' /\ BatchLooked' /\ PutAfterCopy'
  BY <1>1 DEF LayerInv, TodoIsSuffix, BatchLooked, Looked, PutAfterCopy
<1>6. PinsHeld' /\ LookedCached'
  BY <1>1, PromisesKept
<1>7. StreamClean'
  <2>1. \A q \in LWReqs : sync(q)' <=> sync(q)
    BY <1>1 DEF sync
  <2>2. \A q : ToDo(q)' <=> ToDo(q)
    BY <1>1 DEF ToDo
  <2>3. store_stream' = Tail(s) /\ ~(store_stream = <<>>)
    BY <1>1, <1>2
  <2>4. ASSUME NEW q \in LWReqs, sync(q)', lw_req'[q].storer = "storing", ~ToDo(q)'
        PROVE  /\ lw_step'.stage = "save" /\ lw_step'.layer > 1 =>
                    \A j \in 1..Len(Tail(s)) : Tail(s)[j][2] = lw_step'.layer /\ ~ToDo(Tail(s)[j][1])
               /\ lw_step'.stage # "finish"
    BY <1>1, <1>2, <1>3, <2>1, <2>2, <2>3, <2>4 DEF LayerInv, StreamClean
  <2>5. ASSUME NEW j \in 1..Len(Tail(s)), ~ToDo(Tail(s)[j][1])
        PROVE  ~ToDo(store_stream[j][1])'
    BY <1>1, <2>3, <2>5 DEF ToDo
  <2> QED BY <2>3, <2>4, <2>5 DEF StreamClean
<1> QED BY <1>4, <1>5, <1>6, <1>7 DEF LayerInv

LEMMA LayerInvStep == LayerInv /\ [LWNext]_lw_vars => LayerInv'
<1> SUFFICES ASSUME LayerInv, [LWNext]_lw_vars PROVE LayerInv'
  OBVIOUS
<1>1. ASSUME UNCHANGED <<lw_cache, lw_pins, lw_req, lw_step, store_stream, early_puts>> PROVE LayerInv'
  <2>1. PinsHeld' /\ LookedCached'
    BY <1>1, PromisesKept
  <2>2. LayerTypeOK' /\ TodoIsSuffix' /\ BatchLooked' /\ PutAfterCopy'
    BY <1>1 DEF LayerInv, LayerTypeOK, TodoIsSuffix, BatchLooked, Looked, PutAfterCopy
  <2>3. StreamClean'
    BY <1>1 DEF LayerInv, StreamClean, ToDo, sync
  <2> QED BY <2>1, <2>2, <2>3 DEF LayerInv
<1>2. CASE start_load_kv
  BY <1>2, LoadsKeep DEF start_load_kv, Advance
<1>3. CASE wait_for_layer_load
  <2>1. (IF lw_step.layer < LWLayers THEN lw_step.layer + 1 ELSE LWLayers) \in Nat
    BY LayerwiseAssumption DEF LayerInv, LayerTypeOK, Steps
  <2> QED BY <1>3, <2>1, LoadsKeep DEF wait_for_layer_load, Advance
<1> QED BY <1>1, <1>2, <1>3, LookupKeeps, EvictKeeps, ScheduleKeeps, FirstLayerKeeps, NextLayerKeeps,
           FinishKeeps, ForwardKeeps, CopyDoneKeeps DEF LWNext, lw_vars, lw_freeze

\* For any prompts and any number of layers: the chunks lookup promised stay
\* loadable to the last layer, whatever is stored, evicted and unpinned meanwhile.
THEOREM PromisedLayersKept == LWSpec => []PromisedLayersStay
<1>1. LayerInv => PromisedLayersStay
  <2> SUFFICES ASSUME LayerInv, NEW r \in LWReqs, lw_req[r].stage = "looked"
               PROVE  HitChunks(r) \X (lw_req[r].loaded + 1 .. LWLayers) \subseteq lw_cache
    BY DEF PromisedLayersStay
  <2>1. AllLayers(HitChunks(r)) \subseteq lw_cache
    BY DEF LayerInv, LookedCached, Looked, HitChunks, HitOf
  <2>2. lw_req[r].loaded + 1 .. LWLayers \subseteq 1..LWLayers
    BY LayerwiseAssumption DEF LayerInv, LayerTypeOK, Requests
  <2> QED BY <2>1, <2>2 DEF AllLayers
<1> QED BY <1>1, LayerInvInit, LayerInvStep, PTL DEF LWSpec

\* For any batch whose first storer copies: no layer enters the cache before the
\* GPU has copied it.
THEOREM CopiedBeforePut == LWSpec => []PutAfterCopy
<1>1. LayerInv => PutAfterCopy
  BY DEF LayerInv
<1> QED BY <1>1, LayerInvInit, LayerInvStep, PTL DEF LWSpec

-----------------------------------------------------------------------------
(* Asynchronous lookup: the invariant                                      *)

Stages == {"waiting", "admitted", "saving", "done", "aborted"}
AsyncMsgs ==
    [type : {"request"}, id : Lookups, round : 1..MaxRounds] \cup [type : {"cleanup"}, id : Lookups, round : {0}]
Answers == [id : Lookups, hit : Nat]
Futures ==
    [stage : {"none", "loading", "loaded", "failed"}, hits : Pairs, got : SUBSET LoadChunks,
     holds : [LoadChunks -> Int]]
LookupIds == Lookups \X (1..MaxRounds)

AsyncTypeOK ==
    /\ async_setup \in AsyncSetups
    /\ reqs_status \in [Lookups -> Int]
    /\ res_for_each_worker \in [Lookups -> Seq(Nat)]
    /\ lookup_answer \in [Lookups -> Int]
    /\ round \in [Lookups -> 0..MaxRounds]
    /\ request \in [Lookups -> [stage : Stages, computed : Int, asked : Int, left : SUBSET AWorkers]]
    /\ to_worker \in [AWorkers -> Seq(AsyncMsgs)]
    /\ to_scheduler \in [AWorkers -> Seq(Answers)]
    /\ ongoing \in [AWorkers -> [Lookups -> 0..MaxRounds]]
    /\ done \in [AWorkers -> [Lookups -> 0..MaxRounds]]
    /\ future \in [AWorkers -> [LookupIds -> Futures]]

\* The messages of a socket about a request, and that there is at most one.
About(s, r) == {s[i] : i \in {j \in 1..Len(s) : s[j].id = r}}
Once(s, r) == \A i, j \in 1..Len(s) : s[i].id = r /\ s[j].id = r => i = j

Loading(w, r) == \E n \in 1..MaxRounds : future[w][<<r, n>>].stage = "loading"

\* The worker has nothing more to say about the request.
Quiet(w, r) == About(to_worker[w], r) = {} /\ About(to_scheduler[w], r) = {} /\ ~Loading(w, r)

\* The first n chunks are loaded and held for the request.
Covered(w, r, n) ==
    n > 0 => /\ done[w][r] # 0
             /\ LET f == future[w][<<r, done[w][r]>>]
                IN  \A c \in 1..n : c \in f.got /\ f.holds[c] = 1

\* One lookup of the request is asked, being loaded or answered, never two of these.
OneCall(w, r) ==
    /\ Once(to_worker[w], r) /\ Once(to_scheduler[w], r)
    /\ \A n \in 1..MaxRounds : future[w][<<r, n>>].stage = "loading" => n = ongoing[w][r]
    /\ About(to_worker[w], r) # {} => ~Loading(w, r) /\ About(to_scheduler[w], r) = {}
    /\ Loading(w, r) => About(to_scheduler[w], r) = {}
    /\ \A a \in About(to_scheduler[w], r) : Covered(w, r, a.hit)

\* The answers collected are those of workers that are quiet since.
Collected(r) ==
    LET res == res_for_each_worker[r]
    IN  \E C \in SUBSET AWorkers :
            /\ Cardinality(C) = Len(res)
            /\ \A w \in C : Quiet(w, r) /\ \E i \in 1..Len(res) : Covered(w, r, res[i])

\* A request that was neither given up nor aborted.
Active(r) == r \notin gave_up /\ request[r].stage # "aborted"

LookupInv(r) ==
    Active(r) =>
        /\ r \notin aborted_lookups
        /\ \A w \in AWorkers : \A m \in About(to_worker[w], r) : m.type = "request"
        /\ reqs_status[r] \in Nat \cup {Absent, Ongoing}
        /\ reqs_status[r] # Absent => request[r].stage = "waiting"
        /\ lookup_answer[r] >= 0 => reqs_status[r] = lookup_answer[r]
        /\ reqs_status[r] = Ongoing => Collected(r) /\ \A w \in AWorkers : OneCall(w, r)
        /\ reqs_status[r] # Ongoing =>
              /\ res_for_each_worker[r] = <<>>
              /\ \A w \in AWorkers : Quiet(w, r) /\ Covered(w, r, reqs_status[r])

AsyncInv == AsyncTypeOK /\ \A r \in Lookups : LookupInv(r)

-----------------------------------------------------------------------------
(* Sockets                                                                 *)

LEMMA AboutIn ==
    ASSUME NEW S, NEW s \in Seq(S), NEW r
    PROVE  About(s, r) \subseteq S
BY DEF About

LEMMA NoneOnce ==
    ASSUME NEW s, NEW r, About(s, r) = {}
    PROVE  Once(s, r) /\ \A i \in 1..Len(s) : s[i].id # r
<1>1. ASSUME NEW i \in 1..Len(s), s[i].id = r PROVE FALSE
  <2>1. s[i] \in About(s, r)
    BY <1>1 DEF About
  <2> QED BY <2>1
<1> QED BY <1>1 DEF Once

\* A message at the end of a socket.
LEMMA AboutAppend ==
    ASSUME NEW S, NEW s \in Seq(S), NEW m \in S, NEW r
    PROVE  /\ m.id # r => About(Append(s, m), r) = About(s, r) /\ (Once(s, r) => Once(Append(s, m), r))
           /\ m.id = r => About(Append(s, m), r) = About(s, r) \cup {m}
           /\ About(s, r) = {} => Once(Append(s, m), r)
<1>1. /\ Len(Append(s, m)) = Len(s) + 1 /\ Len(s) \in Nat
      /\ \A i \in 1..Len(s) : Append(s, m)[i] = s[i]
      /\ Append(s, m)[Len(s) + 1] = m
  OBVIOUS
<1>2. \A i : i \in 1..(Len(s) + 1) <=> i \in 1..Len(s) \/ i = Len(s) + 1
  BY <1>1
<1>3. m.id # r => About(Append(s, m), r) = About(s, r)
  BY <1>1, <1>2 DEF About
<1>4. m.id = r => About(Append(s, m), r) = About(s, r) \cup {m}
  BY <1>1, <1>2 DEF About
<1>5. m.id # r /\ Once(s, r) => Once(Append(s, m), r)
  BY <1>1, <1>2 DEF Once
<1>6. About(s, r) = {} => Once(Append(s, m), r)
  BY <1>1, <1>2, ZenonT(60) DEF About, Once
<1> QED BY <1>3, <1>4, <1>5, <1>6

\* The first message of a socket taken off it.
LEMMA AboutTail ==
    ASSUME NEW S, NEW s \in Seq(S), s # <<>>, NEW r
    PROVE  /\ Head(s) \in S /\ Tail(s) \in Seq(S)
           /\ Head(s).id # r => About(Tail(s), r) = About(s, r) /\ (Once(s, r) => Once(Tail(s), r))
           /\ Head(s).id = r => Head(s) \in About(s, r)
           /\ Head(s).id = r /\ Once(s, r) => About(Tail(s), r) = {} /\ Once(Tail(s), r)
<1>1. /\ Len(s) \in Nat /\ Len(s) >= 1 /\ Len(Tail(s)) = Len(s) - 1 /\ Head(s) = s[1]
      /\ \A i \in 1..(Len(s) - 1) : Tail(s)[i] = s[i + 1]
      /\ Head(s) \in S /\ Tail(s) \in Seq(S)
  OBVIOUS
<1>2. /\ \A i \in 1..(Len(s) - 1) : i + 1 \in 1..Len(s) /\ i + 1 # 1
      /\ \A i \in 1..Len(s) : i = 1 \/ (i - 1 \in 1..(Len(s) - 1) /\ (i - 1) + 1 = i)
      /\ \A i, j \in 1..(Len(s) - 1) : i + 1 = j + 1 => i = j
      /\ 1 \in 1..Len(s)
  BY <1>1
<1>3. ASSUME Head(s).id # r PROVE About(Tail(s), r) = About(s, r)
  <2>1. About(Tail(s), r) \subseteq About(s, r)
    BY <1>1, <1>2 DEF About
  <2>2. ASSUME NEW i \in 1..Len(s), s[i].id = r PROVE s[i] \in About(Tail(s), r)
    <3>1. i # 1
      BY <1>1, <1>3, <2>2
    <3>2. i - 1 \in 1..(Len(s) - 1) /\ Tail(s)[i - 1] = s[i]
      BY <1>1, <1>2, <3>1
    <3> QED BY <1>1, <2>2, <3>2 DEF About
  <2>3. About(s, r) \subseteq About(Tail(s), r)
    BY <2>2 DEF About
  <2> QED BY <2>1, <2>3
<1>4. Once(s, r) => Once(Tail(s), r)
  BY <1>1, <1>2 DEF Once
<1>5. Head(s).id = r => Head(s) \in About(s, r)
  BY <1>1, <1>2 DEF About
<1>6. Head(s).id = r /\ Once(s, r) => About(Tail(s), r) = {}
  BY <1>1, <1>2 DEF About, Once
<1> QED BY <1>1, <1>3, <1>4, <1>5, <1>6

LEMMA TailAbout ==
    ASSUME NEW S, NEW s \in Seq(S), s # <<>>, NEW r
    PROVE  About(Tail(s), r) \subseteq About(s, r)
<1>1. /\ Len(s) \in Nat /\ Len(Tail(s)) = Len(s) - 1
      /\ \A i \in 1..(Len(s) - 1) : Tail(s)[i] = s[i + 1]
  OBVIOUS
<1>2. \A i \in 1..(Len(s) - 1) : i + 1 \in 1..Len(s)
  BY <1>1
<1> QED BY <1>1, <1>2 DEF About

\* One entry of a table of tables.
LEMMA SetEntry ==
    ASSUME NEW A, NEW B, NEW V, NEW f \in [A -> [B -> V]], NEW a \in A, NEW b \in B, NEW v \in V,
           NEW g, g = [f EXCEPT ![a][b] = v]
    PROVE  /\ g \in [A -> [B -> V]] /\ g[a][b] = v
           /\ \A x \in A, y \in B : x # a \/ y # b => g[x][y] = f[x][y]
OBVIOUS

-----------------------------------------------------------------------------
(* Asynchronous lookup: the proof                                          *)

\* What a step leaves alone stays as it is; the chunks of a request may go
\* while it has no lookup.
LEMMA Undisturbed ==
    ASSUME AsyncTypeOK, NEW r \in Lookups, LookupInv(r), async_setup' = async_setup,
           Active(r)' => /\ Active(r) /\ r \notin aborted_lookups'
                         /\ request'[r].stage = request[r].stage \/ reqs_status[r] = Absent,
           reqs_status'[r] = reqs_status[r],
           lookup_answer'[r] = lookup_answer[r] \/ lookup_answer'[r] = reqs_status[r],
           res_for_each_worker'[r] = res_for_each_worker[r],
           \A w \in AWorkers :
               /\ About(to_worker'[w], r) = About(to_worker[w], r)
               /\ Once(to_worker[w], r) => Once(to_worker'[w], r)
               /\ About(to_scheduler'[w], r) = About(to_scheduler[w], r)
               /\ Once(to_scheduler[w], r) => Once(to_scheduler'[w], r)
               /\ ongoing'[w][r] = ongoing[w][r]
               /\ \A n \in 1..MaxRounds : future'[w][<<r, n>>].stage = future[w][<<r, n>>].stage
               /\ reqs_status[r] # Absent =>
                     /\ done'[w][r] = done[w][r]
                     /\ \A n \in 1..MaxRounds : future'[w][<<r, n>>] = future[w][<<r, n>>]
    PROVE  LookupInv(r)'
<1> SUFFICES ASSUME Active(r)' PROVE LookupInv(r)'
  BY DEF LookupInv
<1>1. Active(r)
  OBVIOUS
<1>2. AWorkers' = AWorkers /\ MaxRounds' = MaxRounds
  BY DEF AWorkers, MaxRounds
<1>3. ASSUME NEW w \in AWorkers PROVE Loading(w, r)' <=> Loading(w, r)
  BY <1>2 DEF Loading
<1>4. ASSUME NEW w \in AWorkers PROVE Quiet(w, r)' <=> Quiet(w, r)
  BY <1>3 DEF Quiet
<1>5. ASSUME NEW w \in AWorkers, NEW n \in Int, reqs_status[r] # Absent
      PROVE  Covered(w, r, n)' <=> Covered(w, r, n)
  <2>1. done[w][r] \in 0..MaxRounds /\ done'[w][r] = done[w][r]
    BY <1>5 DEF AsyncTypeOK
  <2>2. done[w][r] # 0 => future'[w][<<r, done[w][r]>>] = future[w][<<r, done[w][r]>>]
    <3>1. done[w][r] # 0 => done[w][r] \in 1..MaxRounds
      BY <2>1
    <3> QED BY <1>5, <3>1
  <2> QED BY <2>1, <2>2 DEF Covered
<1>6. ASSUME NEW w \in AWorkers, OneCall(w, r), reqs_status[r] = Ongoing PROVE OneCall(w, r)'
  <2>1. reqs_status[r] # Absent
    BY <1>6 DEF Absent, Ongoing
  <2>2. \A a \in About(to_scheduler[w], r) : a.hit \in Int
    <3>1. to_scheduler[w] \in Seq(Answers)
      BY DEF AsyncTypeOK
    <3>2. About(to_scheduler[w], r) \subseteq Answers
      BY <3>1, AboutIn
    <3> QED BY <3>2 DEF Answers
  <2>3. \A a \in About(to_scheduler[w], r) : Covered(w, r, a.hit)'
    BY <1>5, <1>6, <2>1, <2>2 DEF OneCall
  <2>4. Loading(w, r)' <=> Loading(w, r)
    BY <1>3
  <2> HIDE DEF Loading
  <2> QED BY <1>2, <1>6, <2>3, <2>4 DEF OneCall
<1>7. ASSUME Collected(r), reqs_status[r] = Ongoing PROVE Collected(r)'
  <2>1. reqs_status[r] # Absent
    BY <1>7 DEF Absent, Ongoing
  <2>2. PICK C \in SUBSET AWorkers :
            /\ Cardinality(C) = Len(res_for_each_worker[r])
            /\ \A w \in C : Quiet(w, r) /\ \E i \in 1..Len(res_for_each_worker[r]) :
                                               Covered(w, r, res_for_each_worker[r][i])
    BY <1>7 DEF Collected
  <2>3. \A i \in 1..Len(res_for_each_worker[r]) : res_for_each_worker[r][i] \in Int
    BY DEF AsyncTypeOK
  <2>4. \A w \in C : Quiet(w, r)' /\ \E i \in 1..Len(res_for_each_worker[r]) :
                                         Covered(w, r, res_for_each_worker[r][i])'
    BY <1>4, <1>5, <2>1, <2>2, <2>3
  <2> QED BY <1>2, <2>2, <2>4 DEF Collected
<1>8. ASSUME reqs_status[r] # Ongoing, NEW w \in AWorkers
      PROVE  Quiet(w, r)' /\ Covered(w, r, reqs_status[r])'
  <2>1. Quiet(w, r) /\ Covered(w, r, reqs_status[r]) /\ reqs_status[r] \in Int
    BY <1>1, <1>8 DEF LookupInv, AsyncTypeOK
  <2>2. CASE reqs_status[r] = Absent
    BY <1>4, <2>1, <2>2 DEF Covered, Absent
  <2>3. CASE reqs_status[r] # Absent
    BY <1>4, <1>5, <2>1, <2>3
  <2> QED BY <2>2, <2>3
<1> QED
  BY <1>1, <1>2, <1>6, <1>7, <1>8 DEF LookupInv

LEMMA SetupKept ==
    ASSUME async_setup' = async_setup
    PROVE  UNCHANGED <<AWorkers, NChunks, MaxRounds, LoadChunks, Pairs, AsyncMsgs, Answers, Futures, LookupIds>>
BY DEF AWorkers, NChunks, MaxRounds, LoadChunks, Pairs, AsyncMsgs, Answers, Futures, LookupIds

LEMMA LookupInvInit == AsyncInit => AsyncInv
<1> SUFFICES ASSUME AsyncInit PROVE AsyncInv
  OBVIOUS
<1>1. async_setup \in AsyncSetups /\ NChunks \in Nat /\ MaxRounds \in Nat
  BY AsyncAssumption DEF AsyncInit, NChunks, MaxRounds
<1>2. <<0, 0>> \in Pairs
  BY <1>1 DEF Pairs
<1>3. NoFuture \in Futures /\ NoFuture.stage = "none"
  BY <1>1, <1>2 DEF NoFuture, Futures
<1>4. \A w \in AWorkers : /\ to_worker[w] = <<>> /\ to_scheduler[w] = <<>>
                          /\ \A i \in LookupIds : future[w][i] = NoFuture
  BY DEF AsyncInit, LookupIds
<1>5. future \in [AWorkers -> [LookupIds -> Futures]]
  BY <1>3 DEF AsyncInit, LookupIds
<1>6. AsyncTypeOK
  <2>1. request \in [Lookups -> [stage : Stages, computed : Int, asked : Int, left : SUBSET AWorkers]]
    BY DEF AsyncInit, Stages
  <2> QED BY <1>1, <1>5, <2>1 DEF AsyncInit, AsyncTypeOK, Absent, Ongoing
<1>7. ASSUME NEW r \in Lookups PROVE LookupInv(r)
  <2>1. \A w \in AWorkers : About(to_worker[w], r) = {} /\ About(to_scheduler[w], r) = {}
    BY <1>4 DEF About
  <2>2. \A w \in AWorkers : ~Loading(w, r)
    BY <1>3, <1>4 DEF Loading, LookupIds
  <2>3. \A w \in AWorkers : Quiet(w, r) /\ Covered(w, r, Absent)
    BY <2>1, <2>2 DEF Quiet, Covered, Absent
  <2>4. reqs_status[r] = Absent /\ lookup_answer[r] = Ongoing /\ res_for_each_worker[r] = <<>>
        /\ aborted_lookups = {}
    BY DEF AsyncInit
  <2> QED BY <2>1, <2>3, <2>4 DEF LookupInv, Absent, Ongoing
<1> QED BY <1>6, <1>7 DEF AsyncInv

\* The cleanup of an id whose lookup was given up or aborted.
LEMMA CleanupKeeps ==
    ASSUME AsyncInv, NEW q \in Lookups, CleanupAborted(q)
    PROVE  AsyncInv'
<1> DEFINE msg == [type |-> "cleanup", id |-> q, round |-> 0]
<1>1. /\ AsyncTypeOK /\ q \in aborted_lookups /\ aborted_lookups' = aborted_lookups \ {q}
      /\ reqs_status' = [reqs_status EXCEPT ![q] = Absent]
      /\ to_worker' = [w \in AWorkers |-> Append(to_worker[w], msg)]
      /\ UNCHANGED <<async_setup, res_for_each_worker, lookup_answer, round, request, to_scheduler, gave_up,
                     ongoing, done, future>>
  BY DEF AsyncInv, CleanupAborted, Finished, servers
<1>2. UNCHANGED <<AWorkers, MaxRounds, AsyncMsgs, Answers, Futures, LookupIds>>
  BY <1>1, SetupKept
<1>3. msg \in AsyncMsgs /\ \A w \in AWorkers : to_worker[w] \in Seq(AsyncMsgs)
  BY <1>1 DEF AsyncMsgs, AsyncTypeOK
<1> HIDE DEF msg
<1>4. AsyncTypeOK'
  <2>1. to_worker' \in [AWorkers -> Seq(AsyncMsgs)]
    BY <1>1, <1>3
  <2> QED BY <1>1, <1>2, <2>1 DEF AsyncTypeOK, Absent
<1>5. ASSUME NEW r \in Lookups PROVE LookupInv(r)'
  <2>1. Active(r)' <=> Active(r)
    BY <1>1 DEF Active
  <2>2. CASE r = q
    <3>1. ~Active(r)
      BY <1>1, <2>2 DEF AsyncInv, LookupInv
    <3> QED BY <2>1, <3>1 DEF LookupInv
  <2>3. CASE r # q
    <3>1. msg.id # r
      BY <2>3 DEF msg
    <3>2. \A w \in AWorkers : /\ About(to_worker'[w], r) = About(to_worker[w], r)
                              /\ Once(to_worker[w], r) => Once(to_worker'[w], r)
      BY <1>1, <1>3, <3>1, AboutAppend
    <3>3. reqs_status'[r] = reqs_status[r] /\ LookupInv(r) /\ (Active(r) => r \notin aborted_lookups')
      BY <1>1, <2>3 DEF AsyncTypeOK, AsyncInv, LookupInv
    <3> QED BY <1>1, <2>1, <3>2, <3>3, Undisturbed
  <2> QED BY <2>2, <2>3
<1> QED BY <1>4, <1>5 DEF AsyncInv

\* A request is asked for once the workers have nothing to say about it.
LEMMA RequestKeeps ==
    ASSUME AsyncInv, NEW q \in Lookups, lookup_request(q)
    PROVE  AsyncInv'
<1> DEFINE msg == [type |-> "request", id |-> q, round |-> round[q] + 1]
<1>1. /\ AsyncTypeOK /\ reqs_status[q] = Absent /\ round[q] < MaxRounds /\ request[q].stage = "waiting"
      /\ reqs_status' = [reqs_status EXCEPT ![q] = Ongoing]
      /\ round' = [round EXCEPT ![q] = round[q] + 1]
      /\ lookup_answer' = [lookup_answer EXCEPT ![q] = Ongoing]
      /\ to_worker' = [w \in AWorkers |-> Append(to_worker[w], msg)]
      /\ UNCHANGED <<async_setup, res_for_each_worker, aborted_lookups, request, to_scheduler, gave_up,
                     ongoing, done, future>>
  BY DEF AsyncInv, lookup_request, Polls, servers
<1>2. UNCHANGED <<AWorkers, MaxRounds, AsyncMsgs, Answers, Futures, LookupIds>>
  BY <1>1, SetupKept
<1>3. MaxRounds \in Nat /\ round[q] + 1 \in 1..MaxRounds
  BY <1>1, AsyncAssumption DEF AsyncTypeOK, MaxRounds
<1>4. msg \in AsyncMsgs /\ \A w \in AWorkers : to_worker[w] \in Seq(AsyncMsgs)
  BY <1>1, <1>3 DEF AsyncMsgs, AsyncTypeOK
<1>5. msg.id = q /\ msg.type = "request"
  OBVIOUS
<1> HIDE DEF msg
<1>6. AsyncTypeOK'
  <2>1. to_worker' \in [AWorkers -> Seq(AsyncMsgs)]
    BY <1>1, <1>4
  <2>2. round' \in [Lookups -> 0..MaxRounds]
    BY <1>1, <1>3 DEF AsyncTypeOK
  <2> QED BY <1>1, <1>2, <2>1, <2>2 DEF AsyncTypeOK, Ongoing
<1>7. ASSUME NEW r \in Lookups PROVE LookupInv(r)'
  <2>1. Active(r)' <=> Active(r)
    BY <1>1 DEF Active
  <2>2. CASE r = q
    <3> SUFFICES ASSUME Active(q) PROVE LookupInv(q)'
      BY <2>1, <2>2 DEF LookupInv
    <3>1. /\ q \notin aborted_lookups /\ res_for_each_worker[q] = <<>>
          /\ \A w \in AWorkers : Quiet(w, q)
      BY <1>1 DEF AsyncInv, LookupInv, Absent, Ongoing
    <3>2. reqs_status'[q] = Ongoing /\ lookup_answer'[q] = Ongoing
      BY <1>1 DEF AsyncTypeOK
    <3>3. ASSUME NEW w \in AWorkers PROVE /\ About(to_worker'[w], q) = {msg} /\ Once(to_worker'[w], q)
                                         /\ About(to_scheduler'[w], q) = {} /\ ~Loading(w, q)'
      <4>1. Quiet(w, q)
        BY <3>1
      <4>2. About(to_worker[w], q) = {} /\ About(to_scheduler[w], q) = {} /\ ~Loading(w, q)
        BY <4>1 DEF Quiet
      <4>3. to_worker'[w] = Append(to_worker[w], msg)
        BY <1>1
      <4>4. About(Append(to_worker[w], msg), q) = {msg} /\ Once(Append(to_worker[w], msg), q)
        <5>1. About(Append(to_worker[w], msg), q) = About(to_worker[w], q) \cup {msg}
          <6>1. PICK s \in Seq(AsyncMsgs) : s = to_worker[w]
            BY <1>4
          <6>2. PICK m \in AsyncMsgs : m = msg /\ m.id = q
            BY <1>4, <1>5
          <6>3. About(Append(s, m), q) = About(s, q) \cup {m}
            BY <6>2, AboutAppend
          <6> QED BY <6>1, <6>2, <6>3
        <5>2. Once(Append(to_worker[w], msg), q)
          BY <1>4, <4>2, AboutAppend
        <5> QED BY <4>2, <5>1, <5>2
      <4>5. Loading(w, q)' <=> Loading(w, q)
        BY <1>1, <1>2 DEF Loading
      <4>6. About(to_worker'[w], q) = {msg} /\ Once(to_worker'[w], q)
        BY <4>3, <4>4
      <4>7. About(to_scheduler'[w], q) = {}
        BY <1>1, <4>2
      <4> QED BY <4>2, <4>5, <4>6, <4>7
    <3>4. ASSUME NEW w \in AWorkers PROVE OneCall(w, q)'
      <4>1. Once(to_scheduler'[w], q)
        BY <3>3, NoneOnce
      <4>2. \A n \in 1..MaxRounds' : future'[w][<<q, n>>].stage # "loading"
        BY <3>3 DEF Loading
      <4> QED BY <3>3, <4>1, <4>2 DEF OneCall
    <3>5. Collected(q)'
      <4>1. Cardinality({}) = 0 /\ Len(<<>>) = 0 /\ {} \in SUBSET AWorkers'
        BY FS_EmptySet
      <4> QED BY <1>1, <3>1, <4>1 DEF Collected
    <3> QED
      BY <1>1, <1>2, <1>5, <3>1, <3>2, <3>3, <3>4, <3>5 DEF LookupInv, Absent, Ongoing
  <2>3. CASE r # q
    <3>1. \A w \in AWorkers : /\ About(to_worker'[w], r) = About(to_worker[w], r)
                              /\ Once(to_worker[w], r) => Once(to_worker'[w], r)
      BY <1>1, <1>4, <1>5, <2>3, AboutAppend
    <3>2. /\ reqs_status'[r] = reqs_status[r] /\ lookup_answer'[r] = lookup_answer[r]
          /\ LookupInv(r) /\ (Active(r) => r \notin aborted_lookups')
      BY <1>1, <2>3 DEF AsyncTypeOK, AsyncInv, LookupInv
    <3> QED BY <1>1, <2>1, <3>1, <3>2, Undisturbed
  <2> QED BY <2>2, <2>3
<1> QED BY <1>6, <1>7 DEF AsyncInv

\* Giving up and aborting end the promise; the answer passed on is the one that came.
LEMMA SchedulerKeeps ==
    ASSUME AsyncInv, NEW q \in Lookups,
           lookup_timeout(q) \/ lookup_again(q) \/ lookup_answered(q) \/ request_finished(q) \/ preempted(q)
    PROVE  AsyncInv'
<1>1. /\ AsyncTypeOK
      /\ UNCHANGED <<async_setup, reqs_status, res_for_each_worker, round, to_worker, to_scheduler,
                     ongoing, done, future>>
  BY DEF AsyncInv, lookup_timeout, lookup_again, lookup_answered, request_finished, preempted, servers, client
<1>2. UNCHANGED <<AWorkers, MaxRounds, AsyncMsgs, Answers, Futures, LookupIds>>
  BY <1>1, SetupKept
<1>3. lookup_answer' \in [Lookups -> Int]
  BY <1>1 DEF AsyncTypeOK, lookup_timeout, lookup_again, lookup_answered, request_finished, preempted, client
<1>4. \/ UNCHANGED request
      \/ /\ request[q].stage = "done" /\ request' = [request EXCEPT ![q].stage = "waiting"]
         /\ UNCHANGED <<aborted_lookups, gave_up>>
      \/ request' = [request EXCEPT ![q].stage = "aborted"]
  BY DEF lookup_timeout, lookup_again, lookup_answered, request_finished, preempted, client
<1>5. request' \in [Lookups -> [stage : Stages, computed : Int, asked : Int, left : SUBSET AWorkers]]
  <2>1. /\ request \in [Lookups -> [stage : Stages, computed : Int, asked : Int, left : SUBSET AWorkers]]
        /\ "waiting" \in Stages /\ "aborted" \in Stages
    BY <1>1 DEF AsyncTypeOK, Stages
  <2>2. ASSUME NEW st \in Stages
        PROVE  [request[q] EXCEPT !.stage = st]
                  \in [stage : Stages, computed : Int, asked : Int, left : SUBSET AWorkers]
    BY <2>1
  <2> QED BY <1>4, <2>1, <2>2
<1>6. AsyncTypeOK'
  BY <1>1, <1>2, <1>3, <1>5 DEF AsyncTypeOK
<1>7. \A r \in Lookups : LookupInv(r)
  BY DEF AsyncInv
<1>8. ASSUME NEW r \in Lookups, Active(r)'
      PROVE  /\ Active(r) /\ r \notin aborted_lookups'
             /\ request'[r].stage = request[r].stage \/ reqs_status[r] = Absent
  <2>1. CASE lookup_timeout(q)
    BY <1>7, <1>8, <2>1 DEF lookup_timeout, Active, LookupInv
  <2>2. CASE lookup_again(q) \/ lookup_answered(q)
    BY <1>7, <1>8, <2>2 DEF lookup_again, lookup_answered, Active, LookupInv
  <2>3. CASE request_finished(q)
    <3>1. r # q /\ request'[r] = request[r]
      BY <1>1, <1>8, <2>3 DEF request_finished, Active, AsyncTypeOK
    <3> QED BY <1>7, <1>8, <2>3, <3>1 DEF request_finished, Active, LookupInv
  <2>4. CASE preempted(q)
    <3>1. r # q => request'[r] = request[r]
      BY <1>1, <2>4 DEF preempted, AsyncTypeOK
    <3>2. r = q => request[r].stage = "done"
      BY <2>4 DEF preempted
    <3>3. Active(r)
      BY <1>8, <2>4, <3>1, <3>2 DEF preempted, client, Active
    <3>4. r \notin aborted_lookups /\ (request[r].stage = "done" => reqs_status[r] = Absent)
      BY <1>7, <3>3 DEF LookupInv
    <3> QED BY <2>4, <3>1, <3>2, <3>3, <3>4 DEF preempted, client
  <2> QED BY <2>1, <2>2, <2>3, <2>4
<1>9. ASSUME NEW r \in Lookups, Active(r)'
      PROVE  lookup_answer'[r] = lookup_answer[r] \/ lookup_answer'[r] = reqs_status[r]
  <2>1. CASE lookup_timeout(q)
    <3>1. r # q
      BY <1>9, <2>1 DEF lookup_timeout, Active
    <3> QED BY <1>1, <2>1, <3>1 DEF lookup_timeout, AsyncTypeOK
  <2>2. CASE lookup_answered(q)
    BY <1>1, <2>2 DEF lookup_answered, AsyncTypeOK
  <2>3. CASE lookup_again(q) \/ request_finished(q) \/ preempted(q)
    BY <2>3 DEF lookup_again, request_finished, preempted, client
  <2> QED BY <2>1, <2>2, <2>3
<1>10. ASSUME NEW r \in Lookups PROVE LookupInv(r)'
  <2>1. CASE Active(r)'
    BY <1>1, <1>7, <1>8, <1>9, <2>1, Undisturbed
  <2>2. CASE ~Active(r)'
    BY <2>2 DEF LookupInv
  <2> QED BY <2>1, <2>2
<1> QED BY <1>6, <1>10 DEF AsyncInv

\* A request is admitted after its answer came, when its workers are quiet.
LEMMA AdmittedKeeps ==
    ASSUME AsyncInv, NEW q \in Lookups, NEW computed \in 0..NChunks, update_state_after_alloc(q, computed)
    PROVE  AsyncInv'
<1>1. /\ AsyncTypeOK /\ request[q].stage = "waiting" /\ lookup_answer[q] >= 0
      /\ request' = [request EXCEPT ![q] = [stage |-> "admitted", computed |-> computed,
                                            asked |-> lookup_answer[q], left |-> AWorkers]]
      /\ reqs_status' = [reqs_status EXCEPT ![q] = Absent]
      /\ lookup_answer' = [lookup_answer EXCEPT ![q] = Ongoing]
      /\ UNCHANGED <<async_setup, res_for_each_worker, aborted_lookups, round, to_worker, to_scheduler,
                     gave_up, ongoing, done, future>>
  BY DEF AsyncInv, update_state_after_alloc, servers
<1>2. UNCHANGED <<AWorkers, MaxRounds, AsyncMsgs, Answers, Futures, LookupIds>>
  BY <1>1, SetupKept
<1>3. AsyncTypeOK'
  <2>1. computed \in Int /\ lookup_answer[q] \in Int
    BY <1>1, AsyncAssumption DEF AsyncTypeOK, NChunks
  <2>2. [stage |-> "admitted", computed |-> computed, asked |-> lookup_answer[q], left |-> AWorkers]
           \in [stage : Stages, computed : Int, asked : Int, left : SUBSET AWorkers]
    BY <2>1 DEF Stages
  <2>3. request' \in [Lookups -> [stage : Stages, computed : Int, asked : Int, left : SUBSET AWorkers]]
    BY <1>1, <2>2 DEF AsyncTypeOK
  <2> QED BY <1>1, <1>2, <2>3 DEF AsyncTypeOK, Absent, Ongoing
<1>4. \A r \in Lookups : r # q => request'[r] = request[r] /\ reqs_status'[r] = reqs_status[r]
                                  /\ lookup_answer'[r] = lookup_answer[r]
  BY <1>1 DEF AsyncTypeOK
<1>5. reqs_status'[q] = Absent /\ lookup_answer'[q] = Ongoing /\ request'[q].stage = "admitted"
  BY <1>1 DEF AsyncTypeOK
<1>6. ASSUME NEW r \in Lookups PROVE LookupInv(r)'
  <2>1. LookupInv(r)
    BY DEF AsyncInv
  <2>2. CASE r = q
    <3> SUFFICES ASSUME Active(q)' PROVE LookupInv(q)'
      BY <2>2 DEF LookupInv
    <3>1. Active(q)
      BY <1>1 DEF Active
    <3>2. /\ q \notin aborted_lookups
          /\ \A w \in AWorkers : \A m \in About(to_worker[w], q) : m.type = "request"
          /\ res_for_each_worker[q] = <<>>
          /\ \A w \in AWorkers : Quiet(w, q)
      BY <1>1, <2>1, <2>2, <3>1 DEF LookupInv, Ongoing
    <3>3. \A w \in AWorkers : Loading(w, q)' <=> Loading(w, q)
      BY <1>1, <1>2 DEF Loading
    <3>4. ASSUME NEW w \in AWorkers PROVE Quiet(w, q)' /\ Covered(w, q, Absent)'
      <4>1. Quiet(w, q) /\ (Loading(w, q)' <=> Loading(w, q))
        BY <3>2, <3>3
      <4>2. Quiet(w, q)'
        BY <1>1, <4>1 DEF Quiet
      <4>3. Covered(w, q, Absent)'
        BY DEF Covered, Absent
      <4> QED BY <4>2, <4>3
    <3> QED
      BY <1>1, <1>2, <1>5, <3>2, <3>4 DEF LookupInv, Absent, Ongoing
  <2>3. CASE r # q
    <3>1. Active(r)' <=> Active(r)
      BY <1>1, <1>4, <2>3 DEF Active
    <3>2. Active(r) => r \notin aborted_lookups
      BY <2>1 DEF LookupInv
    <3> QED BY <1>1, <1>4, <2>1, <2>3, <3>1, <3>2, Undisturbed
  <2> QED BY <2>2, <2>3
<1> QED BY <1>3, <1>6 DEF AsyncInv

\* Releasing chunks changes the holds only.
LEMMA CountDownFuture ==
    ASSUME NEW f \in Futures, NEW chunks
    PROVE  RefCountDown(f, chunks) \in Futures /\ RefCountDown(f, chunks).stage = f.stage
<1>1. f.holds \in [LoadChunks -> Int]
  BY DEF Futures
<1>2. PICK h \in [LoadChunks -> Int] :
          h = [c \in LoadChunks |-> IF c \in chunks THEN f.holds[c] - 1 ELSE f.holds[c]]
  <2> DEFINE h == [c \in LoadChunks |-> IF c \in chunks THEN f.holds[c] - 1 ELSE f.holds[c]]
  <2>1. \A c \in LoadChunks : (IF c \in chunks THEN f.holds[c] - 1 ELSE f.holds[c]) \in Int
    BY <1>1
  <2>2. h \in [LoadChunks -> Int]
    BY <2>1
  <2> QED BY <2>2
<1>3. RefCountDown(f, chunks) = [f EXCEPT !.holds = h]
  BY <1>2 DEF RefCountDown
<1> QED BY <1>3 DEF Futures

\* cleanup_memory_objs leaves the other requests and the stages alone.
LEMMA CleanupIsLocal ==
    ASSUME AsyncTypeOK, NEW w \in AWorkers, NEW q \in Lookups, cleanup_memory_objs(w, q)
    PROVE  /\ done' \in [AWorkers -> [Lookups -> 0..MaxRounds]]
           /\ future' \in [AWorkers -> [LookupIds -> Futures]]
           /\ \A v \in AWorkers, i \in LookupIds : future'[v][i].stage = future[v][i].stage
           /\ \A v \in AWorkers, r \in Lookups : r # q =>
                 /\ done'[v][r] = done[v][r]
                 /\ \A n \in 1..MaxRounds : future'[v][<<r, n>>] = future[v][<<r, n>>]
<1> DEFINE n == done[w][q]
           i == <<q, n>>
<1>1. MaxRounds \in Nat /\ n \in 0..MaxRounds
  BY AsyncAssumption DEF AsyncTypeOK, MaxRounds
<1>2. CASE UNCHANGED <<done, future>>
  BY <1>2 DEF AsyncTypeOK
<1>3. CASE /\ n # 0 /\ done' = [done EXCEPT ![w][q] = 0]
           /\ future' = [future EXCEPT ![w][i] = RefCountDown(future[w][i], future[w][i].got)]
  <2>1. i \in LookupIds /\ 0 \in 0..MaxRounds
    BY <1>1, <1>3 DEF LookupIds
  <2>2. future[w][i] \in Futures
    BY <2>1 DEF AsyncTypeOK
  <2>3. PICK f \in Futures : f = RefCountDown(future[w][i], future[w][i].got) /\ f.stage = future[w][i].stage
    BY <2>2, CountDownFuture
  <2>4. /\ done' \in [AWorkers -> [Lookups -> 0..MaxRounds]]
        /\ \A v \in AWorkers, r \in Lookups : v # w \/ r # q => done'[v][r] = done[v][r]
    BY <1>3, <2>1, SetEntry DEF AsyncTypeOK
  <2> HIDE DEF i
  <2>5. /\ future' \in [AWorkers -> [LookupIds -> Futures]]
        /\ future'[w][i] = f
        /\ \A v \in AWorkers, j \in LookupIds : v # w \/ j # i => future'[v][j] = future[v][j]
    <3>1. future \in [AWorkers -> [LookupIds -> Futures]]
      BY DEF AsyncTypeOK
    <3>2. future' = [future EXCEPT ![w][i] = f]
      BY <1>3, <2>3
    <3> QED BY <2>1, <3>1, <3>2, SetEntry
  <2>6. \A r \in Lookups : r # q => \A m \in 1..MaxRounds : <<r, m>> \in LookupIds /\ <<r, m>> # i
    BY DEF i, LookupIds
  <2> QED BY <2>3, <2>4, <2>5, <2>6
<1> QED BY <1>2, <1>3 DEF cleanup_memory_objs

\* A request that is served has no lookup under way: what is done with its
\* chunks disturbs no promise.
LEMMA ServedKeeps ==
    ASSUME AsyncInv, NEW w \in AWorkers, NEW q \in Lookups,
           retrieve_async(w, q) \/ lookup_unpin_async(w, q)
    PROVE  AsyncInv'
<1>1. /\ AsyncTypeOK /\ request[q].stage \in {"admitted", "saving"}
      /\ UNCHANGED <<async_setup, reqs_status, res_for_each_worker, lookup_answer, aborted_lookups, gave_up,
                     round, to_worker, to_scheduler, ongoing>>
  BY DEF AsyncInv, retrieve_async, lookup_unpin_async, client
<1>2. UNCHANGED <<AWorkers, MaxRounds, AsyncMsgs, Answers, Futures, LookupIds>>
  BY <1>1, SetupKept
<1>3. PICK next \in {"saving", "done"} : request' = [request EXCEPT ![q] = StepDone(request[q], w, next)]
  BY DEF retrieve_async, lookup_unpin_async
<1>4. /\ request' \in [Lookups -> [stage : Stages, computed : Int, asked : Int, left : SUBSET AWorkers]]
      /\ request'[q].stage \in {"admitted", "saving", "done"}
      /\ \A r \in Lookups : r # q => request'[r] = request[r]
  <2> DEFINE Records == [stage : Stages, computed : Int, asked : Int, left : SUBSET AWorkers]
  <2>1. request \in [Lookups -> Records]
    BY <1>1 DEF AsyncTypeOK
  <2>2. PICK a \in Records : a = request[q]
    BY <2>1
  <2>3. PICK b : b = StepDone(a, w, next)
    OBVIOUS
  <2>4. b \in Records /\ b.stage \in {"admitted", "saving", "done"}
    BY <1>1, <2>2, <2>3 DEF StepDone, Stages
  <2>5. request' = [request EXCEPT ![q] = b]
    BY <1>3, <2>2, <2>3
  <2> HIDE DEF Records
  <2>6. request' \in [Lookups -> Records] /\ request'[q] = b /\ \A r \in Lookups : r # q => request'[r] = request[r]
    BY <2>1, <2>4, <2>5
  <2> QED BY <2>4, <2>6 DEF Records
<1>5. /\ done' \in [AWorkers -> [Lookups -> 0..MaxRounds]]
      /\ future' \in [AWorkers -> [LookupIds -> Futures]]
      /\ \A v \in AWorkers, i \in LookupIds : future'[v][i].stage = future[v][i].stage
      /\ \A v \in AWorkers, r \in Lookups : r # q =>
            /\ done'[v][r] = done[v][r]
            /\ \A n \in 1..MaxRounds : future'[v][<<r, n>>] = future[v][<<r, n>>]
  <2>1. CASE lookup_unpin_async(w, q)
    BY <1>1, <2>1, CleanupIsLocal DEF lookup_unpin_async
  <2>2. CASE retrieve_async(w, q) /\ UNCHANGED future
    BY <1>1, <2>2 DEF retrieve_async, AsyncTypeOK
  <2>3. CASE retrieve_async(w, q) /\ ~UNCHANGED future
    <3>1. MaxRounds \in Nat /\ done[w][q] \in 0..MaxRounds
      BY <1>1, AsyncAssumption DEF AsyncTypeOK, MaxRounds
    <3>2. PICK n, chunks : /\ n = done[w][q] /\ n # 0
                           /\ future' = [future EXCEPT ![w][<<q, n>>] = RefCountDown(future[w][<<q, n>>], chunks)]
      BY <2>3 DEF retrieve_async
    <3>3. PICK i \in LookupIds : i = <<q, n>>
      BY <3>1, <3>2 DEF LookupIds
    <3>4. future \in [AWorkers -> [LookupIds -> Futures]] /\ future[w][i] \in Futures
      BY <1>1 DEF AsyncTypeOK
    <3>5. PICK f \in Futures : f = RefCountDown(future[w][i], chunks) /\ f.stage = future[w][i].stage
      BY <3>4, CountDownFuture
    <3>6. future' = [future EXCEPT ![w][i] = f]
      BY <3>2, <3>3, <3>5
    <3>7. /\ future' \in [AWorkers -> [LookupIds -> Futures]]
          /\ future'[w][i] = f
          /\ \A v \in AWorkers, j \in LookupIds : v # w \/ j # i => future'[v][j] = future[v][j]
      BY <3>4, <3>6, SetEntry
    <3>8. \A r \in Lookups : r # q => \A m \in 1..MaxRounds : <<r, m>> \in LookupIds /\ <<r, m>> # i
      BY <3>3 DEF LookupIds
    <3>9. done' = done /\ done \in [AWorkers -> [Lookups -> 0..MaxRounds]]
      BY <1>1, <2>3 DEF retrieve_async, AsyncTypeOK
    <3> QED BY <3>5, <3>7, <3>8, <3>9
  <2> QED BY <2>1, <2>2, <2>3
<1>6. AsyncTypeOK'
  BY <1>1, <1>2, <1>4, <1>5 DEF AsyncTypeOK
<1>7. ASSUME NEW r \in Lookups PROVE LookupInv(r)'
  <2>1. LookupInv(r)
    BY DEF AsyncInv
  <2>2. \A n \in 1..MaxRounds : <<r, n>> \in LookupIds
    BY DEF LookupIds
  <2>3. Active(r)' => Active(r)
    BY <1>1, <1>4 DEF Active
  <2>4. Active(r) => r \notin aborted_lookups /\ (r = q => reqs_status[r] = Absent)
    BY <1>1, <2>1 DEF LookupInv
  <2>5. CASE r = q /\ Active(r)'
    BY <1>1, <1>5, <2>1, <2>2, <2>3, <2>4, <2>5, Undisturbed
  <2>6. CASE r # q
    BY <1>1, <1>4, <1>5, <2>1, <2>2, <2>3, <2>4, <2>6, Undisturbed
  <2> QED BY <2>5, <2>6 DEF LookupInv
<1> QED BY <1>6, <1>7 DEF AsyncInv

\* A cleanup message names a request that was given up or aborted.
LEMMA CleanupMessageKeeps ==
    ASSUME AsyncInv, NEW w \in AWorkers, cleanup_message(w)
    PROVE  AsyncInv'
<1> DEFINE msg == Head(to_worker[w])
           q == msg.id
<1>1. /\ AsyncTypeOK /\ to_worker[w] # <<>> /\ msg.type = "cleanup" /\ cleanup_memory_objs(w, q)
      /\ to_worker' = [to_worker EXCEPT ![w] = Tail(to_worker[w])]
      /\ UNCHANGED <<async_setup, reqs_status, res_for_each_worker, lookup_answer, aborted_lookups, gave_up,
                     round, request, to_scheduler, ongoing>>
  BY DEF AsyncInv, cleanup_message, client
<1>2. UNCHANGED <<AWorkers, MaxRounds, AsyncMsgs, Answers, Futures, LookupIds>>
  BY <1>1, SetupKept
<1>3. /\ to_worker[w] \in Seq(AsyncMsgs) /\ to_worker \in [AWorkers -> Seq(AsyncMsgs)]
      /\ msg \in AsyncMsgs /\ Tail(to_worker[w]) \in Seq(AsyncMsgs)
  <2>1. PICK s \in Seq(AsyncMsgs) : s = to_worker[w]
    BY <1>1 DEF AsyncTypeOK
  <2>2. Head(s) \in AsyncMsgs /\ Tail(s) \in Seq(AsyncMsgs)
    BY <1>1, <2>1
  <2> QED BY <1>1, <2>1, <2>2 DEF AsyncTypeOK
<1>4. q \in Lookups
  BY <1>3 DEF AsyncMsgs
<1>5. ~Active(q)
  <2>1. msg \in About(to_worker[w], q)
    BY <1>1, <1>3, AboutTail
  <2> QED BY <1>1, <1>4, <2>1 DEF AsyncInv, LookupInv
<1> HIDE DEF q, msg
<1>6. /\ done' \in [AWorkers -> [Lookups -> 0..MaxRounds]]
      /\ future' \in [AWorkers -> [LookupIds -> Futures]]
      /\ \A v \in AWorkers, i \in LookupIds : future'[v][i].stage = future[v][i].stage
      /\ \A v \in AWorkers, r \in Lookups : r # q =>
            /\ done'[v][r] = done[v][r]
            /\ \A n \in 1..MaxRounds : future'[v][<<r, n>>] = future[v][<<r, n>>]
  BY <1>1, <1>4, CleanupIsLocal
<1>7. AsyncTypeOK'
  <2>1. to_worker' \in [AWorkers -> Seq(AsyncMsgs)]
    BY <1>1, <1>3
  <2> QED BY <1>1, <1>2, <1>6, <2>1 DEF AsyncTypeOK
<1>8. ASSUME NEW r \in Lookups PROVE LookupInv(r)'
  <2>1. Active(r)' <=> Active(r)
    BY <1>1 DEF Active
  <2>2. CASE r = q
    BY <1>5, <2>1, <2>2 DEF LookupInv
  <2>3. CASE r # q
    <3>1. /\ About(Tail(to_worker[w]), r) = About(to_worker[w], r)
          /\ Once(to_worker[w], r) => Once(Tail(to_worker[w]), r)
      <4>1. msg.id # r /\ msg = Head(to_worker[w])
        BY <2>3 DEF q, msg
      <4> QED BY <1>1, <1>3, <4>1, AboutTail
    <3>2. \A v \in AWorkers : /\ About(to_worker'[v], r) = About(to_worker[v], r)
                              /\ Once(to_worker[v], r) => Once(to_worker'[v], r)
      BY <1>1, <1>3, <3>1
    <3>3. LookupInv(r) /\ (Active(r) => r \notin aborted_lookups)
      BY DEF AsyncInv, LookupInv
    <3>4. \A n \in 1..MaxRounds : <<r, n>> \in LookupIds
      BY DEF LookupIds
    <3> QED BY <1>1, <1>6, <2>1, <2>3, <3>2, <3>3, <3>4, Undisturbed
  <2> QED BY <2>2, <2>3
<1> QED BY <1>7, <1>8 DEF AsyncInv

\* A step of a worker that has something to say about a request: it says one
\* thing at a time, and the other workers keep what they said.
LEMMA WorkerSpeaks ==
    ASSUME AsyncTypeOK, NEW w \in AWorkers, NEW q \in Lookups, LookupInv(q), ~Quiet(w, q),
           UNCHANGED <<async_setup, reqs_status, res_for_each_worker, lookup_answer, aborted_lookups, gave_up, request>>,
           OneCall(w, q) => OneCall(w, q)',
           About(to_worker'[w], q) \subseteq About(to_worker[w], q),
           \A v \in AWorkers : v # w =>
               /\ to_worker'[v] = to_worker[v] /\ to_scheduler'[v] = to_scheduler[v]
               /\ ongoing'[v] = ongoing[v] /\ done'[v] = done[v] /\ future'[v] = future[v]
    PROVE  LookupInv(q)'
<1> SUFFICES ASSUME Active(q)' PROVE LookupInv(q)'
  BY DEF LookupInv
<1>1. Active(q)
  BY DEF Active
<1>2. reqs_status[q] = Ongoing /\ OneCall(w, q) /\ Collected(q)
  BY <1>1 DEF LookupInv
<1>3. AWorkers' = AWorkers /\ MaxRounds' = MaxRounds
  BY SetupKept
<1>4. ASSUME NEW v \in AWorkers, v # w
      PROVE  /\ Quiet(v, q)' <=> Quiet(v, q)
             /\ \A n : Covered(v, q, n)' <=> Covered(v, q, n)
             /\ OneCall(v, q)' <=> OneCall(v, q)
  <2>1. /\ to_worker'[v] = to_worker[v] /\ to_scheduler'[v] = to_scheduler[v]
        /\ ongoing'[v] = ongoing[v] /\ done'[v] = done[v] /\ future'[v] = future[v]
    BY <1>4
  <2>2. Loading(v, q)' <=> Loading(v, q)
    BY <1>3, <2>1 DEF Loading
  <2>3. \A n : Covered(v, q, n)' <=> Covered(v, q, n)
    BY <2>1 DEF Covered
  <2>4. Quiet(v, q)' <=> Quiet(v, q)
    BY <2>1, <2>2 DEF Quiet
  <2> HIDE DEF Loading
  <2>5. OneCall(v, q)' <=> OneCall(v, q)
    BY <1>3, <2>1, <2>2, <2>3 DEF OneCall
  <2> QED BY <2>3, <2>4, <2>5
<1>5. \A v \in AWorkers : OneCall(v, q)'
  <2>1. \A v \in AWorkers : OneCall(v, q)
    BY <1>1, <1>2 DEF LookupInv
  <2>2. OneCall(w, q)'
    BY <1>2
  <2>3. \A v \in AWorkers : v # w => OneCall(v, q)'
    BY <1>4, <2>1
  <2> QED BY <2>2, <2>3
<1>6. Collected(q)'
  <2>1. PICK C \in SUBSET AWorkers :
            /\ Cardinality(C) = Len(res_for_each_worker[q])
            /\ \A v \in C : Quiet(v, q) /\ \E i \in 1..Len(res_for_each_worker[q]) :
                                               Covered(v, q, res_for_each_worker[q][i])
    BY <1>2 DEF Collected
  <2>2. \A v \in C : v \in AWorkers /\ v # w
    BY <2>1
  <2>3. ASSUME NEW v \in C
        PROVE  Quiet(v, q)' /\ \E i \in 1..Len(res_for_each_worker[q]) :
                                    Covered(v, q, res_for_each_worker[q][i])'
    <3>1. v \in AWorkers /\ v # w /\ Quiet(v, q)
      BY <2>1, <2>2
    <3>2. PICK i \in 1..Len(res_for_each_worker[q]) : Covered(v, q, res_for_each_worker[q][i])
      BY <2>1
    <3> QED BY <1>4, <3>1, <3>2
  <2> QED BY <1>3, <2>1, <2>3 DEF Collected
<1>7. \A v \in AWorkers : \A m \in About(to_worker'[v], q) : m.type = "request"
  <2>1. \A v \in AWorkers : \A m \in About(to_worker[v], q) : m.type = "request"
    BY <1>1 DEF LookupInv
  <2>2. \A v \in AWorkers : About(to_worker'[v], q) \subseteq About(to_worker[v], q)
    OBVIOUS
  <2> QED BY <2>1, <2>2
<1>8. /\ q \notin aborted_lookups /\ reqs_status[q] # Absent /\ request[q].stage = "waiting"
      /\ lookup_answer[q] >= 0 => reqs_status[q] = lookup_answer[q]
  BY <1>1, <1>2 DEF LookupInv, Absent, Ongoing
<1> QED
  BY <1>2, <1>3, <1>5, <1>6, <1>7, <1>8 DEF LookupInv, Absent, Ongoing

\* A worker answers a request.
LEMMA RespondAppends ==
    ASSUME AsyncTypeOK, NEW w \in AWorkers, NEW q \in Lookups, NEW hit \in Nat, Respond(w, q, hit)
    PROVE  /\ to_scheduler' \in [AWorkers -> Seq(Answers)]
           /\ \A v \in AWorkers : v # w => to_scheduler'[v] = to_scheduler[v]
           /\ \A r \in Lookups \ {q} : /\ About(to_scheduler'[w], r) = About(to_scheduler[w], r)
                                       /\ Once(to_scheduler[w], r) => Once(to_scheduler'[w], r)
           /\ About(to_scheduler[w], q) = {} =>
                 /\ Once(to_scheduler'[w], q)
                 /\ \A a \in About(to_scheduler'[w], q) : a.hit = hit
<1> DEFINE m == [id |-> q, hit |-> hit]
<1>1. m \in Answers /\ m.id = q /\ m.hit = hit
  BY DEF Answers
<1>2. PICK s \in Seq(Answers) : s = to_scheduler[w]
  BY DEF AsyncTypeOK
<1>3. to_scheduler \in [AWorkers -> Seq(Answers)]
  BY DEF AsyncTypeOK
<1> HIDE DEF m
<1>4. PICK t \in Seq(Answers) : t = Append(s, m)
  <2>1. m \in Answers
    BY <1>1
  <2>2. Append(s, m) \in Seq(Answers)
    BY <2>1
  <2> QED BY <2>2
<1>5. to_scheduler' = [to_scheduler EXCEPT ![w] = t]
  BY <1>2, <1>4 DEF Respond, m
<1>6. /\ to_scheduler' \in [AWorkers -> Seq(Answers)]
      /\ to_scheduler'[w] = t
      /\ \A v \in AWorkers : v # w => to_scheduler'[v] = to_scheduler[v]
  BY <1>3, <1>5
<1>7. ASSUME NEW r \in Lookups, r # q PROVE About(t, r) = About(s, r) /\ (Once(s, r) => Once(t, r))
  <2>1. About(Append(s, m), r) = About(s, r) /\ (Once(s, r) => Once(Append(s, m), r))
    BY <1>1, <1>7, AboutAppend
  <2> QED BY <1>4, <2>1
<1>8. ASSUME About(s, q) = {} PROVE Once(t, q) /\ \A a \in About(t, q) : a.hit = hit
  <2>1. Once(t, q)
    <3>1. Once(Append(s, m), q)
      BY <1>1, <1>8, AboutAppend
    <3> QED BY <1>4, <3>1
  <2>2. About(t, q) = About(s, q) \cup {m}
    <3>1. About(Append(s, m), q) = About(s, q) \cup {m}
      BY <1>1, AboutAppend
    <3> QED BY <1>4, <3>1
  <2> QED BY <1>1, <1>8, <2>1, <2>2
<1> QED BY <1>2, <1>6, <1>7, <1>8

\* The load of a request ends with the future f, with an answer or without.
LoadEnded(w, q, n, i, f) ==
    /\ i = <<q, n>> /\ f.stage \in {"loaded", "failed"}
    /\ future[w][<<q, n>>].stage = "loading" /\ MoveEvent(w, q)
    /\ future' \in [AWorkers -> [LookupIds -> Futures]]
    /\ future'[w][i] = f
    /\ \A v \in AWorkers, j \in LookupIds : v # w \/ j # i => future'[v][j] = future[v][j]
    /\ UNCHANGED <<client, request, to_worker>>
    /\ \/ UNCHANGED to_scheduler
       \/ \E hit \in Nat : Respond(w, q, hit) /\ \A c \in 1..hit : c \in f.got /\ f.holds[c] = 1

LEMMA LoadEnds ==
    ASSUME AsyncInv, NEW w \in AWorkers, NEW q \in Lookups, NEW n \in 1..MaxRounds,
           NEW i \in LookupIds, NEW f \in Futures, LoadEnded(w, q, n, i, f)
    PROVE  AsyncInv'
<1> USE DEF LoadEnded
<1>1. /\ AsyncTypeOK
      /\ UNCHANGED <<async_setup, reqs_status, res_for_each_worker, lookup_answer, aborted_lookups, gave_up,
                     round, request, to_worker>>
  BY DEF AsyncInv, client
<1>2. UNCHANGED <<AWorkers, MaxRounds, AsyncMsgs, Answers, Futures, LookupIds>>
  BY <1>1, SetupKept
<1>3. MaxRounds \in Nat
  BY <1>1, AsyncAssumption DEF AsyncTypeOK, MaxRounds
<1>4. PICK d \in 0..MaxRounds : /\ d = IF ongoing[w][q] # 0 THEN ongoing[w][q] ELSE done[w][q]
                               /\ done' = [done EXCEPT ![w][q] = d]
  BY <1>1, ZenonT(60) DEF MoveEvent, AsyncTypeOK
<1>5. /\ done' \in [AWorkers -> [Lookups -> 0..MaxRounds]] /\ done'[w][q] = d
      /\ \A v \in AWorkers, r \in Lookups : v # w \/ r # q => done'[v][r] = done[v][r]
      /\ ongoing' \in [AWorkers -> [Lookups -> 0..MaxRounds]] /\ ongoing'[w][q] = 0
      /\ \A v \in AWorkers, r \in Lookups : v # w \/ r # q => ongoing'[v][r] = ongoing[v][r]
  <2>1. /\ done \in [AWorkers -> [Lookups -> 0..MaxRounds]] /\ ongoing \in [AWorkers -> [Lookups -> 0..MaxRounds]]
        /\ 0 \in 0..MaxRounds /\ ongoing' = [ongoing EXCEPT ![w][q] = 0]
    BY <1>1, <1>3 DEF AsyncTypeOK, MoveEvent
  <2> QED BY <1>4, <2>1, SetEntry
<1>6. /\ to_scheduler' \in [AWorkers -> Seq(Answers)]
      /\ \A v \in AWorkers : v # w => to_scheduler'[v] = to_scheduler[v]
      /\ \A r \in Lookups \ {q} : /\ About(to_scheduler'[w], r) = About(to_scheduler[w], r)
                                  /\ Once(to_scheduler[w], r) => Once(to_scheduler'[w], r)
      /\ About(to_scheduler[w], q) = {} =>
            /\ Once(to_scheduler'[w], q)
            /\ \A a \in About(to_scheduler'[w], q) : \A c \in 1..a.hit : c \in f.got /\ f.holds[c] = 1
  <2>1. CASE UNCHANGED to_scheduler
    <3>1. to_scheduler' \in [AWorkers -> Seq(Answers)]
      BY <1>1, <2>1 DEF AsyncTypeOK
    <3>2. About(to_scheduler[w], q) = {} => Once(to_scheduler[w], q)
      BY NoneOnce
    <3> QED BY <2>1, <3>1, <3>2
  <2>2. CASE ~UNCHANGED to_scheduler
    <3>1. PICK hit \in Nat : Respond(w, q, hit) /\ \A c \in 1..hit : c \in f.got /\ f.holds[c] = 1
      BY <2>2
    <3>2. /\ to_scheduler' \in [AWorkers -> Seq(Answers)]
          /\ \A v \in AWorkers : v # w => to_scheduler'[v] = to_scheduler[v]
          /\ \A r \in Lookups \ {q} : /\ About(to_scheduler'[w], r) = About(to_scheduler[w], r)
                                      /\ Once(to_scheduler[w], r) => Once(to_scheduler'[w], r)
          /\ About(to_scheduler[w], q) = {} =>
                /\ Once(to_scheduler'[w], q)
                /\ \A a \in About(to_scheduler'[w], q) : a.hit = hit
      BY <1>1, <3>1, RespondAppends
    <3> QED BY <3>1, <3>2
  <2> QED BY <2>1, <2>2
<1>7. AsyncTypeOK'
  BY <1>1, <1>2, <1>5, <1>6 DEF AsyncTypeOK
<1>8. LookupInv(q)'
  <2>1. Loading(w, q)
    BY DEF Loading
  <2>2. ASSUME OneCall(w, q) PROVE OneCall(w, q)'
    <3>1. /\ About(to_scheduler[w], q) = {} /\ About(to_worker[w], q) = {}
          /\ n = ongoing[w][q]
          /\ \A m \in 1..MaxRounds : future[w][<<q, m>>].stage = "loading" => m = n
      BY <2>1, <2>2 DEF OneCall
    <3>2. d = n /\ d # 0
      BY <1>4, <3>1
    <3>3. \A m \in 1..MaxRounds : future'[w][<<q, m>>].stage # "loading"
      <4>1. ASSUME NEW m \in 1..MaxRounds, m # n PROVE future'[w][<<q, m>>].stage # "loading"
        <5>1. <<q, m>> \in LookupIds /\ <<q, m>> # i
          BY <4>1 DEF LookupIds
        <5> QED BY <3>1, <4>1, <5>1
      <4>2. future'[w][<<q, n>>].stage # "loading"
        OBVIOUS
      <4> QED BY <4>1, <4>2
    <3>4. ~Loading(w, q)'
      BY <1>2, <3>3 DEF Loading
    <3>5. Once(to_scheduler'[w], q)
      BY <1>6, <3>1
    <3>6. ASSUME NEW a \in About(to_scheduler'[w], q) PROVE Covered(w, q, a.hit)'
      <4>1. \A c \in 1..a.hit : c \in f.got /\ f.holds[c] = 1
        BY <1>6, <3>1, <3>6
      <4>2. done'[w][q] = n /\ n # 0 /\ future'[w][<<q, n>>] = f
        BY <1>5, <3>2
      <4> QED BY <4>1, <4>2 DEF Covered
    <3>7. About(to_worker'[w], q) = {} /\ Once(to_worker'[w], q)
      BY <1>1, <3>1, NoneOnce
    <3> QED
      BY <1>2, <3>3, <3>4, <3>5, <3>6, <3>7 DEF OneCall
  <2>3. ~Quiet(w, q)
    BY <2>1 DEF Quiet
  <2>4. ASSUME NEW v \in AWorkers, v # w
        PROVE  ongoing'[v] = ongoing[v] /\ done'[v] = done[v] /\ future'[v] = future[v]
    <3>1. ongoing'[v] = ongoing[v] /\ done'[v] = done[v]
      BY <1>1, <1>4, <2>4 DEF MoveEvent, AsyncTypeOK
    <3>2. /\ future[v] \in [LookupIds -> Futures] /\ future'[v] \in [LookupIds -> Futures]
          /\ \A j \in LookupIds : future'[v][j] = future[v][j]
      BY <1>1, <2>4 DEF AsyncTypeOK
    <3> QED BY <3>1, <3>2
  <2>5. LookupInv(q)
    BY DEF AsyncInv
  <2> QED BY <1>1, <1>6, <2>2, <2>3, <2>4, <2>5, WorkerSpeaks
<1>9. ASSUME NEW r \in Lookups, r # q PROVE LookupInv(r)'
  <2>1. LookupInv(r) /\ (Active(r) => r \notin aborted_lookups) /\ (Active(r)' => Active(r))
    BY <1>1 DEF AsyncInv, LookupInv, Active
  <2>2. \A m \in 1..MaxRounds : <<r, m>> \in LookupIds /\ <<r, m>> # i
    BY <1>9 DEF LookupIds
  <2>3. \A v \in AWorkers : /\ About(to_scheduler'[v], r) = About(to_scheduler[v], r)
                            /\ Once(to_scheduler[v], r) => Once(to_scheduler'[v], r)
    <3>1. \A v \in AWorkers : v # w => to_scheduler'[v] = to_scheduler[v]
      BY <1>6
    <3>2. /\ About(to_scheduler'[w], r) = About(to_scheduler[w], r)
          /\ Once(to_scheduler[w], r) => Once(to_scheduler'[w], r)
      <4>1. r \in Lookups \ {q}
        BY <1>9
      <4> QED BY <1>6, <4>1
    <3> QED BY <3>1, <3>2
  <2>4. \A v \in AWorkers : /\ ongoing'[v][r] = ongoing[v][r] /\ done'[v][r] = done[v][r]
                            /\ \A m \in 1..MaxRounds : future'[v][<<r, m>>] = future[v][<<r, m>>]
    <3>1. \A v \in AWorkers : \A m \in 1..MaxRounds : future'[v][<<r, m>>] = future[v][<<r, m>>]
      BY <2>2
    <3>2. \A v \in AWorkers : ongoing'[v][r] = ongoing[v][r] /\ done'[v][r] = done[v][r]
      BY <1>5, <1>9
    <3> QED BY <3>1, <3>2
  <2> QED BY <1>1, <2>1, <2>3, <2>4, Undisturbed
<1> QED BY <1>7, <1>8, <1>9 DEF AsyncInv

LEMMA RaisesKeeps ==
    ASSUME AsyncInv, NEW w \in AWorkers, NEW i \in LookupIds, prefetch_raises(w, i)
    PROVE  AsyncInv'
<1>1. PICK q \in Lookups, n \in 1..MaxRounds : i = <<q, n>> /\ q = i[1]
  BY DEF LookupIds
<1>2. future \in [AWorkers -> [LookupIds -> Futures]] /\ future[w][i] \in Futures
  BY DEF AsyncInv, AsyncTypeOK
<1>3. PICK f : f = [future[w][i] EXCEPT !.stage = "failed"]
  OBVIOUS
<1>4. f \in Futures /\ f.stage = "failed"
  BY <1>2, <1>3 DEF Futures
<1>5. /\ future' \in [AWorkers -> [LookupIds -> Futures]]
      /\ future'[w][i] = f
      /\ \A v \in AWorkers, j \in LookupIds : v # w \/ j # i => future'[v][j] = future[v][j]
  <2>1. future' = [future EXCEPT ![w][i] = f]
    BY <1>3 DEF prefetch_raises
  <2> QED BY <1>2, <1>4, <2>1, SetEntry
<1>6. future[w][<<q, n>>].stage = "loading" /\ MoveEvent(w, q)
  BY <1>1 DEF prefetch_raises
<1>7. UNCHANGED <<client, request, to_worker>>
  BY DEF prefetch_raises
<1>8. \/ UNCHANGED to_scheduler
      \/ \E hit \in Nat : Respond(w, q, hit) /\ \A c \in 1..hit : c \in f.got /\ f.holds[c] = 1
  BY DEF prefetch_raises
<1>9. LoadEnded(w, q, n, i, f)
  BY <1>1, <1>4, <1>5, <1>6, <1>7, <1>8 DEF LoadEnded
<1> QED BY <1>4, <1>9, LoadEnds

\* The chunks an answer counts are the ones it leaves held.
LEMMA AllDoneKeeps ==
    ASSUME AsyncInv, NEW w \in AWorkers, NEW i \in LookupIds, NEW got \in Pairs, prefetch_all_done(w, i, got)
    PROVE  AsyncInv'
<1> DEFINE old == future[w][i]
           chunks == (1 .. got[1]) \cup (old.hits[1] + 1 .. old.hits[1] + got[2])
           holds == [c \in LoadChunks |-> IF c \in chunks THEN 1 ELSE 0]
           k == Retrieved(old.hits, got)
<1>1. PICK q \in Lookups, n \in 1..MaxRounds : i = <<q, n>> /\ q = i[1]
  BY DEF LookupIds
<1>2. /\ future \in [AWorkers -> [LookupIds -> Futures]] /\ old \in Futures
      /\ NChunks \in Nat
  BY AsyncAssumption DEF AsyncInv, AsyncTypeOK, NChunks
<1>3. /\ old.hits[1] \in Nat /\ old.hits[2] \in Nat /\ old.hits[1] + old.hits[2] <= NChunks
      /\ got[1] \in Nat /\ got[2] \in Nat
      /\ got[1] <= old.hits[1] /\ got[2] <= old.hits[2]
  <2>1. old.hits \in Pairs
    BY <1>2 DEF Futures
  <2> QED BY <1>2, <2>1 DEF Pairs, prefetch_all_done
<1>4. chunks \subseteq LoadChunks
  BY <1>2, <1>3 DEF LoadChunks
<1>5. k \in Nat /\ \A c \in 1..k : c \in chunks
  BY <1>3 DEF Retrieved
<1>6. holds \in [LoadChunks -> Int] /\ \A c \in chunks : holds[c] = 1
  BY <1>4
<1>7. PICK f : f = [old EXCEPT !.stage = "loaded", !.got = chunks, !.holds = holds]
  OBVIOUS
<1>8. /\ future' = [future EXCEPT ![w][i] = f] /\ old.stage = "loading" /\ MoveEvent(w, q)
      /\ UNCHANGED <<client, request, to_worker>>
      /\ UNCHANGED to_scheduler \/ Respond(w, q, k)
  BY <1>1, <1>7 DEF prefetch_all_done
<1> HIDE DEF old, chunks, holds, k
<1>9. f \in Futures /\ f.stage = "loaded" /\ f.got = chunks /\ f.holds = holds
  BY <1>2, <1>4, <1>6, <1>7 DEF Futures
<1>10. /\ future' \in [AWorkers -> [LookupIds -> Futures]]
       /\ future'[w][i] = f
       /\ \A v \in AWorkers, j \in LookupIds : v # w \/ j # i => future'[v][j] = future[v][j]
  BY <1>2, <1>8, <1>9, SetEntry
<1>11. \/ UNCHANGED to_scheduler
       \/ \E hit \in Nat : Respond(w, q, hit) /\ \A c \in 1..hit : c \in f.got /\ f.holds[c] = 1
  BY <1>5, <1>6, <1>8, <1>9
<1>12. future[w][<<q, n>>].stage = "loading"
  BY <1>1, <1>8 DEF old
<1>13. f.stage \in {"loaded", "failed"} /\ MoveEvent(w, q) /\ UNCHANGED <<client, request, to_worker>>
  BY <1>8, <1>9
<1>14. LoadEnded(w, q, n, i, f)
  BY <1>1, <1>10, <1>11, <1>12, <1>13 DEF LoadEnded
<1> QED BY <1>9, <1>14, LoadEnds

\* The first message of a worker's socket is taken off it.
LEMMA MessageTaken ==
    ASSUME AsyncTypeOK, NEW w \in AWorkers, to_worker[w] # <<>>,
           to_worker' = [to_worker EXCEPT ![w] = Tail(to_worker[w])]
    PROVE  /\ to_worker' \in [AWorkers -> Seq(AsyncMsgs)]
           /\ \A v \in AWorkers : v # w => to_worker'[v] = to_worker[v]
           /\ \A r \in Lookups : About(to_worker'[w], r) \subseteq About(to_worker[w], r)
           /\ \E m \in AsyncMsgs, q \in Lookups :
                 /\ m = Head(to_worker[w]) /\ q = m.id /\ m \in About(to_worker[w], q)
                 /\ \A r \in Lookups \ {q} : /\ About(to_worker'[w], r) = About(to_worker[w], r)
                                             /\ Once(to_worker[w], r) => Once(to_worker'[w], r)
                 /\ Once(to_worker[w], q) => About(to_worker'[w], q) = {} /\ Once(to_worker'[w], q)
<1>1. to_worker \in [AWorkers -> Seq(AsyncMsgs)]
  BY DEF AsyncTypeOK
<1>2. PICK s \in Seq(AsyncMsgs) : s = to_worker[w] /\ s # <<>>
  BY <1>1
<1>3. PICK t \in Seq(AsyncMsgs) : t = Tail(s)
  <2>1. \A S : \A u \in Seq(S) : u # <<>> => Tail(u) \in Seq(S)
    OBVIOUS
  <2> QED BY <1>2, <2>1
<1>4. PICK m \in AsyncMsgs, q \in Lookups : m = Head(s) /\ q = m.id
  <2>1. PICK m \in AsyncMsgs : m = Head(s)
    BY <1>2
  <2>2. m.id \in Lookups
    BY DEF AsyncMsgs
  <2> QED BY <2>1, <2>2
<1>5. /\ to_worker' \in [AWorkers -> Seq(AsyncMsgs)] /\ to_worker'[w] = t
      /\ \A v \in AWorkers : v # w => to_worker'[v] = to_worker[v]
  BY <1>1, <1>2, <1>3
<1>6. \A r : About(t, r) \subseteq About(s, r)
  BY <1>2, <1>3, TailAbout
<1>7. ASSUME NEW r \in Lookups \ {q} PROVE About(t, r) = About(s, r) /\ (Once(s, r) => Once(t, r))
  <2>1. Head(s).id # r
    BY <1>4, <1>7
  <2>2. About(Tail(s), r) = About(s, r) /\ (Once(s, r) => Once(Tail(s), r))
    BY <1>2, <2>1, AboutTail
  <2> QED BY <1>3, <2>2
<1>8. m \in About(s, q) /\ (Once(s, q) => About(t, q) = {} /\ Once(t, q))
  <2>1. Head(s).id = q
    BY <1>4
  <2>2. Head(s) \in About(s, q) /\ (Once(s, q) => About(Tail(s), q) = {} /\ Once(Tail(s), q))
    BY <1>2, <2>1, AboutTail
  <2> QED BY <1>3, <1>4, <2>2
<1> QED BY <1>2, <1>4, <1>5, <1>6, <1>7, <1>8

\* A worker takes a request up: it answers that it has nothing, or loads.
LEMMA PrefetchKeeps ==
    ASSUME AsyncInv, NEW w \in AWorkers, NEW hits \in Pairs, async_lookup_and_prefetch(w, hits)
    PROVE  AsyncInv'
<1>1. /\ AsyncTypeOK
      /\ UNCHANGED <<async_setup, reqs_status, res_for_each_worker, lookup_answer, aborted_lookups, gave_up,
                     round, request, done>>
  BY DEF AsyncInv, async_lookup_and_prefetch, client, servers
<1>2. UNCHANGED <<AWorkers, MaxRounds, AsyncMsgs, Answers, Futures, LookupIds>>
  BY <1>1, SetupKept
<1>3. /\ to_worker[w] # <<>> /\ Head(to_worker[w]).type = "request"
      /\ to_worker' = [to_worker EXCEPT ![w] = Tail(to_worker[w])]
  BY DEF async_lookup_and_prefetch
<1>4. /\ to_worker' \in [AWorkers -> Seq(AsyncMsgs)]
      /\ \A v \in AWorkers : v # w => to_worker'[v] = to_worker[v]
      /\ \A r \in Lookups : About(to_worker'[w], r) \subseteq About(to_worker[w], r)
  BY <1>1, <1>3, MessageTaken
<1>5. PICK msg \in AsyncMsgs, q \in Lookups :
           /\ msg = Head(to_worker[w]) /\ q = msg.id /\ msg \in About(to_worker[w], q)
           /\ \A r \in Lookups \ {q} : /\ About(to_worker'[w], r) = About(to_worker[w], r)
                                       /\ Once(to_worker[w], r) => Once(to_worker'[w], r)
           /\ Once(to_worker[w], q) => About(to_worker'[w], q) = {} /\ Once(to_worker'[w], q)
  BY <1>1, <1>3, MessageTaken
<1>6. PICK n : n = msg.round
  OBVIOUS
<1>7. msg.id = q /\ msg.round = n /\ msg.type = "request" /\ msg = Head(to_worker[w])
  BY <1>3, <1>5, <1>6
<1>8. q \in Lookups /\ n \in 1..MaxRounds
  BY <1>7 DEF AsyncMsgs
<1>9. MaxRounds \in Nat /\ NChunks \in Nat
  BY <1>1, AsyncAssumption DEF AsyncTypeOK, MaxRounds, NChunks
<1>10. About(to_worker[w], q) # {}
  BY <1>5
<1>11. ASSUME NEW r \in Lookups, r # q
       PROVE  /\ About(to_worker'[w], r) = About(to_worker[w], r)
              /\ Once(to_worker[w], r) => Once(to_worker'[w], r)
  <2>1. r \in Lookups \ {q}
    BY <1>11
  <2> QED BY <1>5, <2>1
<1>12. OneCall(w, q) => About(to_worker'[w], q) = {} /\ Once(to_worker'[w], q)
  <2>1. OneCall(w, q) => Once(to_worker[w], q)
    BY DEF OneCall
  <2> QED BY <1>5, <2>1
<1>13. PICK i \in LookupIds : i = <<q, n>>
  BY <1>8 DEF LookupIds
<1>14. \/ /\ Respond(w, q, 0) /\ UNCHANGED <<ongoing, future>>
       \/ /\ ongoing' = [ongoing EXCEPT ![w][q] = n]
          /\ future' = [future EXCEPT ![w][i] = [NoFuture EXCEPT !.stage = "loading", !.hits = hits]]
          /\ UNCHANGED to_scheduler
  BY <1>7, <1>13 DEF async_lookup_and_prefetch, servers
<1>15. CASE Respond(w, q, 0) /\ UNCHANGED <<ongoing, future>>
  <2>1. /\ to_scheduler' \in [AWorkers -> Seq(Answers)]
        /\ \A v \in AWorkers : v # w => to_scheduler'[v] = to_scheduler[v]
        /\ \A r \in Lookups \ {q} : /\ About(to_scheduler'[w], r) = About(to_scheduler[w], r)
                                     /\ Once(to_scheduler[w], r) => Once(to_scheduler'[w], r)
        /\ About(to_scheduler[w], q) = {} =>
              Once(to_scheduler'[w], q) /\ \A a \in About(to_scheduler'[w], q) : a.hit = 0
    BY <1>1, <1>8, <1>15, RespondAppends
  <2>2. ASSUME NEW r \in Lookups, r # q
        PROVE  /\ About(to_scheduler'[w], r) = About(to_scheduler[w], r)
               /\ Once(to_scheduler[w], r) => Once(to_scheduler'[w], r)
    <3>1. r \in Lookups \ {q}
      BY <2>2
    <3>2. 0 \in Nat
      OBVIOUS
    <3> QED BY <1>1, <1>8, <1>15, <3>1, <3>2, RespondAppends
  <2>3. AsyncTypeOK'
    BY <1>1, <1>2, <1>4, <1>15, <2>1 DEF AsyncTypeOK
  <2>4. LookupInv(q)'
    <3>1. ASSUME OneCall(w, q) PROVE OneCall(w, q)'
      <4>1. ~Loading(w, q) /\ About(to_scheduler[w], q) = {}
        BY <1>10, <3>1 DEF OneCall
      <4>2. Loading(w, q)' <=> Loading(w, q)
        BY <1>2, <1>15 DEF Loading
      <4>3. \A a \in About(to_scheduler'[w], q) : Covered(w, q, a.hit)'
        BY <2>1, <4>1 DEF Covered
      <4>4. \A m \in 1..MaxRounds : future'[w][<<q, m>>].stage = "loading" => m = ongoing'[w][q]
        BY <1>15, <3>1 DEF OneCall
      <4> HIDE DEF Loading
      <4> QED BY <1>2, <1>12, <2>1, <3>1, <4>1, <4>2, <4>3, <4>4 DEF OneCall
    <3>2. ~Quiet(w, q)
      BY <1>10 DEF Quiet
    <3>3. About(to_worker'[w], q) \subseteq About(to_worker[w], q)
      BY <1>4
    <3>4. LookupInv(q)
      BY <1>8 DEF AsyncInv
    <3> QED BY <1>1, <1>8, <1>4, <1>15, <2>1, <3>1, <3>2, <3>3, <3>4, WorkerSpeaks
  <2>5. ASSUME NEW r \in Lookups, r # q PROVE LookupInv(r)'
    <3>1. LookupInv(r) /\ (Active(r) => r \notin aborted_lookups) /\ (Active(r)' => Active(r))
      BY <1>1 DEF AsyncInv, LookupInv, Active
    <3>2. \A v \in AWorkers : /\ About(to_worker'[v], r) = About(to_worker[v], r)
                              /\ Once(to_worker[v], r) => Once(to_worker'[v], r)
      BY <1>4, <1>11, <2>5
    <3>3. \A v \in AWorkers : /\ About(to_scheduler'[v], r) = About(to_scheduler[v], r)
                              /\ Once(to_scheduler[v], r) => Once(to_scheduler'[v], r)
      <4>1. /\ About(to_scheduler'[w], r) = About(to_scheduler[w], r)
            /\ Once(to_scheduler[w], r) => Once(to_scheduler'[w], r)
        BY <2>5, <2>2
      <4>2. \A v \in AWorkers : v # w => to_scheduler'[v] = to_scheduler[v]
        BY <2>1
      <4> QED BY <4>1, <4>2
    <3> QED BY <1>1, <1>15, <3>1, <3>2, <3>3, Undisturbed
  <2> QED BY <1>8, <2>3, <2>4, <2>5 DEF AsyncInv
<1>16. CASE /\ ongoing' = [ongoing EXCEPT ![w][q] = n]
            /\ future' = [future EXCEPT ![w][i] = [NoFuture EXCEPT !.stage = "loading", !.hits = hits]]
            /\ UNCHANGED to_scheduler
  <2>1. PICK f : f = [NoFuture EXCEPT !.stage = "loading", !.hits = hits]
    OBVIOUS
  <2>2. f \in Futures
    <3>1. [c \in LoadChunks |-> 0] \in [LoadChunks -> Int]
      OBVIOUS
    <3> QED BY <2>1, <3>1 DEF Futures, NoFuture
  <2>3. /\ ongoing' \in [AWorkers -> [Lookups -> 0..MaxRounds]] /\ ongoing'[w][q] = n
        /\ \A v \in AWorkers, r \in Lookups : v # w \/ r # q => ongoing'[v][r] = ongoing[v][r]
    <3>1. ongoing \in [AWorkers -> [Lookups -> 0..MaxRounds]] /\ n \in 0..MaxRounds
      BY <1>1, <1>8, <1>9 DEF AsyncTypeOK
    <3> QED BY <1>8, <1>16, <3>1, SetEntry
  <2>4. /\ future' \in [AWorkers -> [LookupIds -> Futures]] /\ future'[w][i] = f
        /\ \A v \in AWorkers, j \in LookupIds : v # w \/ j # i => future'[v][j] = future[v][j]
    <3>1. future \in [AWorkers -> [LookupIds -> Futures]] /\ future' = [future EXCEPT ![w][i] = f]
      BY <1>1, <1>16, <2>1 DEF AsyncTypeOK
    <3> QED BY <2>2, <3>1, SetEntry
  <2>5. AsyncTypeOK'
    BY <1>1, <1>2, <1>4, <1>16, <2>3, <2>4 DEF AsyncTypeOK
  <2>6. LookupInv(q)'
    <3>1. ASSUME OneCall(w, q) PROVE OneCall(w, q)'
      <4>1. /\ ~Loading(w, q) /\ About(to_scheduler[w], q) = {} /\ Once(to_scheduler[w], q)
        BY <1>10, <3>1 DEF OneCall
      <4>2. ASSUME NEW m \in 1..MaxRounds, future'[w][<<q, m>>].stage = "loading" PROVE m = ongoing'[w][q]
        <5>1. CASE m = n
          BY <2>3, <5>1
        <5>2. CASE m # n
          <6>1. <<q, m>> \in LookupIds /\ <<q, m>> # i
            BY <1>8, <1>13, <5>2 DEF LookupIds
          <6>2. future'[w][<<q, m>>] = future[w][<<q, m>>]
            BY <2>4, <6>1
          <6> QED BY <4>1, <4>2, <6>2 DEF Loading
        <5> QED BY <5>1, <5>2
      <4>3. About(to_scheduler'[w], q) = {} /\ Once(to_scheduler'[w], q)
        BY <1>16, <4>1
      <4> QED BY <1>2, <1>12, <3>1, <4>2, <4>3 DEF OneCall
    <3>2. ~Quiet(w, q)
      BY <1>10 DEF Quiet
    <3>3. About(to_worker'[w], q) \subseteq About(to_worker[w], q)
      BY <1>4
    <3>4. LookupInv(q)
      BY <1>8 DEF AsyncInv
    <3>5. ASSUME NEW v \in AWorkers, v # w PROVE ongoing'[v] = ongoing[v] /\ future'[v] = future[v]
      <4>1. ongoing'[v] = ongoing[v]
        BY <1>1, <1>16, <3>5 DEF AsyncTypeOK
      <4>2. /\ future[v] \in [LookupIds -> Futures] /\ future'[v] \in [LookupIds -> Futures]
            /\ \A j \in LookupIds : future'[v][j] = future[v][j]
        BY <1>1, <2>4, <3>5 DEF AsyncTypeOK
      <4> QED BY <4>1, <4>2
    <3>6. \A v \in AWorkers : v # w =>
               /\ to_worker'[v] = to_worker[v] /\ to_scheduler'[v] = to_scheduler[v]
               /\ ongoing'[v] = ongoing[v] /\ done'[v] = done[v] /\ future'[v] = future[v]
      BY <1>1, <1>4, <1>16, <3>5
    <3> QED BY <1>1, <1>8, <3>1, <3>2, <3>3, <3>4, <3>6, WorkerSpeaks
  <2>7. ASSUME NEW r \in Lookups, r # q PROVE LookupInv(r)'
    <3>1. LookupInv(r) /\ (Active(r) => r \notin aborted_lookups) /\ (Active(r)' => Active(r))
      BY <1>1 DEF AsyncInv, LookupInv, Active
    <3>2. \A v \in AWorkers : /\ About(to_worker'[v], r) = About(to_worker[v], r)
                              /\ Once(to_worker[v], r) => Once(to_worker'[v], r)
      BY <1>4, <1>11, <2>7
    <3>3. \A m \in 1..MaxRounds : <<r, m>> \in LookupIds /\ <<r, m>> # i
      BY <1>13, <2>7 DEF LookupIds
    <3>4. \A v \in AWorkers : /\ ongoing'[v][r] = ongoing[v][r]
                              /\ \A m \in 1..MaxRounds : future'[v][<<r, m>>] = future[v][<<r, m>>]
      <4>1. \A v \in AWorkers : \A m \in 1..MaxRounds : future'[v][<<r, m>>] = future[v][<<r, m>>]
        BY <2>4, <3>3
      <4>2. \A v \in AWorkers : ongoing'[v][r] = ongoing[v][r]
        BY <2>3, <2>7
      <4> QED BY <4>1, <4>2
    <3>5. UNCHANGED to_scheduler
      BY <1>16
    <3> QED BY <1>1, <3>1, <3>2, <3>4, <3>5, Undisturbed
  <2> QED BY <1>8, <2>5, <2>6, <2>7 DEF AsyncInv
<1> QED BY <1>14, <1>15, <1>16

\* The first answer of a worker is taken off its socket.
LEMMA AnswerTaken ==
    ASSUME AsyncTypeOK, NEW w \in AWorkers, to_scheduler[w] # <<>>,
           to_scheduler' = [to_scheduler EXCEPT ![w] = Tail(@)]
    PROVE  /\ to_scheduler' \in [AWorkers -> Seq(Answers)]
           /\ \A v \in AWorkers : v # w => to_scheduler'[v] = to_scheduler[v]
           /\ \E m \in Answers, q \in Lookups, k \in Nat :
                 /\ m = Head(to_scheduler[w]) /\ q = m.id /\ k = m.hit /\ m \in About(to_scheduler[w], q)
                 /\ \A r \in Lookups \ {q} : /\ About(to_scheduler'[w], r) = About(to_scheduler[w], r)
                                             /\ Once(to_scheduler[w], r) => Once(to_scheduler'[w], r)
                 /\ Once(to_scheduler[w], q) => About(to_scheduler'[w], q) = {} /\ Once(to_scheduler'[w], q)
<1>1. to_scheduler \in [AWorkers -> Seq(Answers)]
  BY DEF AsyncTypeOK
<1>2. PICK s \in Seq(Answers) : s = to_scheduler[w] /\ s # <<>>
  BY <1>1
<1>3. PICK t \in Seq(Answers) : t = Tail(s)
  <2>1. \A S : \A u \in Seq(S) : u # <<>> => Tail(u) \in Seq(S)
    OBVIOUS
  <2> QED BY <1>2, <2>1
<1>4. PICK m \in Answers, q \in Lookups, k \in Nat : m = Head(s) /\ q = m.id /\ k = m.hit
  <2>1. PICK m \in Answers : m = Head(s)
    BY <1>2
  <2>2. m.id \in Lookups /\ m.hit \in Nat
    BY DEF Answers
  <2> QED BY <2>1, <2>2
<1>5. /\ to_scheduler' \in [AWorkers -> Seq(Answers)] /\ to_scheduler'[w] = t
      /\ \A v \in AWorkers : v # w => to_scheduler'[v] = to_scheduler[v]
  BY <1>1, <1>2, <1>3
<1>6. ASSUME NEW r \in Lookups \ {q} PROVE About(t, r) = About(s, r) /\ (Once(s, r) => Once(t, r))
  <2>1. Head(s).id # r
    BY <1>4, <1>6
  <2>2. About(Tail(s), r) = About(s, r) /\ (Once(s, r) => Once(Tail(s), r))
    BY <1>2, <2>1, AboutTail
  <2> QED BY <1>3, <2>2
<1>7. m \in About(s, q) /\ (Once(s, q) => About(t, q) = {} /\ Once(t, q))
  <2>1. Head(s).id = q
    BY <1>4
  <2>2. Head(s) \in About(s, q) /\ (Once(s, q) => About(Tail(s), q) = {} /\ Once(Tail(s), q))
    BY <1>2, <2>1, AboutTail
  <2> QED BY <1>3, <1>4, <2>2
<1> QED BY <1>2, <1>4, <1>5, <1>6, <1>7

\* The smallest answer is one every worker has loaded.
LEMMA SmallestAnswer ==
    ASSUME NEW res \in Seq(Nat), res # <<>>
    PROVE  AllAnswers(res) \in Nat /\ \A i \in 1..Len(res) : AllAnswers(res) <= res[i]
<1>1. Range(res) = {res[i] : i \in 1..Len(res)} /\ Len(res) \in Nat /\ Len(res) >= 1
  BY DEF Range
<1>2. Range(res) \in SUBSET Nat /\ Range(res) # {}
  BY <1>1
<1>3. \E x \in Range(res) : \A y \in Range(res) : x <= y
  BY <1>2, SmallestOf
<1>4. Min(Range(res)) \in Range(res) /\ \A y \in Range(res) : Min(Range(res)) <= y
  BY <1>3, Zenon DEF Min
<1> QED BY <1>1, <1>2, <1>4 DEF AllAnswers

\* The scheduler collects an answer; the last one settles the number of chunks.
LEMMA AnswerKeeps ==
    ASSUME AsyncInv, NEW w \in AWorkers, process_responses_from_workers(w)
    PROVE  AsyncInv'
<1>1. /\ AsyncTypeOK
      /\ UNCHANGED <<async_setup, lookup_answer, aborted_lookups, gave_up, round, request, to_worker,
                     ongoing, done, future>>
  BY DEF AsyncInv, process_responses_from_workers, servers
<1>2. UNCHANGED <<AWorkers, MaxRounds, AsyncMsgs, Answers, Futures, LookupIds>>
  BY <1>1, SetupKept
<1>3. to_scheduler[w] # <<>> /\ to_scheduler' = [to_scheduler EXCEPT ![w] = Tail(@)]
  BY DEF process_responses_from_workers
<1>4. /\ to_scheduler' \in [AWorkers -> Seq(Answers)]
      /\ \A v \in AWorkers : v # w => to_scheduler'[v] = to_scheduler[v]
  BY <1>1, <1>3, AnswerTaken
<1>5. PICK m \in Answers, q \in Lookups, k \in Nat :
           /\ m = Head(to_scheduler[w]) /\ q = m.id /\ k = m.hit /\ m \in About(to_scheduler[w], q)
           /\ \A r \in Lookups \ {q} : /\ About(to_scheduler'[w], r) = About(to_scheduler[w], r)
                                       /\ Once(to_scheduler[w], r) => Once(to_scheduler'[w], r)
           /\ Once(to_scheduler[w], q) => About(to_scheduler'[w], q) = {} /\ Once(to_scheduler'[w], q)
  BY <1>1, <1>3, AnswerTaken
<1>6. PICK old \in Seq(Nat) : old = res_for_each_worker[q]
  BY <1>1 DEF AsyncTypeOK
<1>7. PICK res \in Seq(Nat) : res = Append(old, k)
  <2>1. Append(old, k) \in Seq(Nat)
    OBVIOUS
  <2> QED BY <2>1
<1>8. /\ Len(old) \in Nat /\ Len(res) = Len(old) + 1 /\ res # <<>> /\ res[Len(res)] = k
      /\ \A i \in 1..Len(old) : i \in 1..Len(res) /\ res[i] = old[i]
      /\ Len(res) \in 1..Len(res)
  BY <1>7
<1>9. \/ /\ Len(res) = Cardinality(AWorkers)
         /\ res_for_each_worker' = [res_for_each_worker EXCEPT ![q] = <<>>]
         /\ reqs_status' = [reqs_status EXCEPT ![q] = AllAnswers(res)]
      \/ /\ Len(res) # Cardinality(AWorkers)
         /\ res_for_each_worker' = [res_for_each_worker EXCEPT ![q] = res]
         /\ UNCHANGED reqs_status
  BY <1>5, <1>6, <1>7 DEF process_responses_from_workers
<1>10. AllAnswers(res) \in Nat /\ \A i \in 1..Len(res) : AllAnswers(res) <= res[i]
  BY <1>8, SmallestAnswer
<1>11. /\ reqs_status' \in [Lookups -> Int] /\ res_for_each_worker' \in [Lookups -> Seq(Nat)]
       /\ \A r \in Lookups : r # q => reqs_status'[r] = reqs_status[r]
                                      /\ res_for_each_worker'[r] = res_for_each_worker[r]
       /\ \/ /\ Len(res) = Cardinality(AWorkers)
             /\ res_for_each_worker'[q] = <<>> /\ reqs_status'[q] = AllAnswers(res)
          \/ res_for_each_worker'[q] = res /\ reqs_status'[q] = reqs_status[q]
               /\ Len(res) # Cardinality(AWorkers)
  <2>1. <<>> \in Seq(Nat) /\ AllAnswers(res) \in Int
    BY <1>10
  <2>2. reqs_status \in [Lookups -> Int] /\ res_for_each_worker \in [Lookups -> Seq(Nat)]
    BY <1>1 DEF AsyncTypeOK
  <2> QED BY <1>9, <2>1, <2>2
<1>12. AsyncTypeOK'
  BY <1>1, <1>2, <1>4, <1>11 DEF AsyncTypeOK
<1>13. ASSUME NEW v \in AWorkers, NEW r \in Lookups
       PROVE  /\ Loading(v, r)' <=> Loading(v, r)
              /\ \A n : Covered(v, r, n)' <=> Covered(v, r, n)
  BY <1>1, <1>2 DEF Loading, Covered
<1>14. LookupInv(q)'
  <2> SUFFICES ASSUME Active(q)' PROVE LookupInv(q)'
    BY DEF LookupInv
  <2>1. Active(q) /\ LookupInv(q)
    BY <1>1 DEF Active, AsyncInv
  <2>2. ~Quiet(w, q)
    BY <1>5 DEF Quiet
  <2>3. reqs_status[q] = Ongoing /\ Collected(q) /\ \A v \in AWorkers : OneCall(v, q)
    BY <2>1, <2>2 DEF LookupInv
  <2>4. /\ q \notin aborted_lookups /\ request[q].stage = "waiting" /\ ~(lookup_answer[q] >= 0)
        /\ \A v \in AWorkers : \A a \in About(to_worker[v], q) : a.type = "request"
    BY <2>1, <2>3 DEF LookupInv, Absent, Ongoing
  <2>5. /\ About(to_worker[w], q) = {} /\ ~Loading(w, q) /\ Once(to_worker[w], q)
        /\ About(to_scheduler'[w], q) = {} /\ Once(to_scheduler'[w], q)
        /\ Covered(w, q, k)
    <3>1. OneCall(w, q)
      BY <2>3
    <3>2. m \in About(to_scheduler[w], q) /\ m.hit = k
      BY <1>5
    <3>3. About(to_worker[w], q) = {} /\ ~Loading(w, q)
      BY <3>1, <3>2 DEF OneCall
    <3>4. Once(to_worker[w], q) /\ Once(to_scheduler[w], q)
      BY <3>1 DEF OneCall
    <3>5. Covered(w, q, m.hit)
      BY <3>1, <3>2 DEF OneCall
    <3>6. About(to_scheduler'[w], q) = {} /\ Once(to_scheduler'[w], q)
      BY <1>5, <3>4
    <3> QED BY <3>2, <3>3, <3>4, <3>5, <3>6
  <2>6. \A v \in AWorkers : v = w \/ (Quiet(v, q)' <=> Quiet(v, q))
    BY <1>1, <1>4, <1>13 DEF Quiet
  <2>7. Quiet(w, q)'
    BY <1>1, <1>13, <2>5 DEF Quiet
  <2>8. PICK C \in SUBSET AWorkers :
            /\ Cardinality(C) = Len(old)
            /\ \A v \in C : Quiet(v, q) /\ \E i \in 1..Len(old) : Covered(v, q, old[i])
    BY <1>6, <2>3 DEF Collected
  <2>9. PICK D \in SUBSET AWorkers : D = C \cup {w}
    OBVIOUS
  <2>10. Cardinality(D) = Len(res) /\ (Cardinality(D) = Cardinality(AWorkers) => D = AWorkers)
    <3>1. IsFiniteSet(AWorkers)
      BY <1>1, AsyncAssumption DEF AsyncTypeOK, AWorkers
    <3>2. IsFiniteSet(C) /\ w \notin C
      BY <2>2, <2>8, <3>1, FS_Subset
    <3>3. Cardinality(D) = Cardinality(C) + 1
      BY <2>9, <3>2, FS_AddElement
    <3>4. Cardinality(D) = Cardinality(AWorkers) => D = AWorkers
      BY <3>1, FS_Subset
    <3> QED BY <1>8, <2>8, <3>3, <3>4
  <2>11. ASSUME NEW v \in D
         PROVE  Quiet(v, q)' /\ \E i \in 1..Len(res) : Covered(v, q, res[i])'
    <3>1. CASE v = w
      BY <1>8, <1>13, <2>5, <2>7, <3>1
    <3>2. CASE v # w
      <4>1. v \in C /\ v \in AWorkers
        BY <2>9, <3>2
      <4>2. PICK i \in 1..Len(old) : Covered(v, q, old[i])
        BY <2>8, <4>1
      <4>3. Covered(v, q, res[i])' /\ i \in 1..Len(res)
        BY <1>8, <1>13, <4>1, <4>2
      <4>4. Quiet(v, q)'
        BY <2>6, <2>8, <3>2, <4>1
      <4> QED BY <4>3, <4>4
    <3> QED BY <3>1, <3>2
  <2>12. CASE res_for_each_worker'[q] = res /\ reqs_status'[q] = reqs_status[q]
    <3>1. Collected(q)'
      BY <1>2, <2>10, <2>11, <2>12 DEF Collected
    <3>2. ASSUME NEW v \in AWorkers PROVE OneCall(v, q)'
      <4>1. OneCall(v, q) /\ (Loading(v, q)' <=> Loading(v, q))
        BY <1>13, <2>3
      <4>2. CASE v = w
        <5>1. \A n \in 1..MaxRounds : future'[w][<<q, n>>].stage = "loading" => n = ongoing'[w][q]
          BY <1>1, <4>1, <4>2 DEF OneCall
        <5>2. About(to_worker'[w], q) = {} /\ Once(to_worker'[w], q)
          BY <1>1, <2>5
        <5> QED BY <1>2, <2>5, <4>2, <5>1, <5>2 DEF OneCall
      <4>3. CASE v # w
        <5>1. to_scheduler'[v] = to_scheduler[v] /\ \A n : Covered(v, q, n)' <=> Covered(v, q, n)
          BY <1>4, <1>13, <4>3
        <5> HIDE DEF Loading, Covered
        <5> QED BY <1>1, <1>2, <4>1, <5>1 DEF OneCall
      <4> QED BY <4>2, <4>3
    <3> QED BY <1>1, <1>2, <2>3, <2>4, <2>12, <3>1, <3>2 DEF LookupInv, Absent, Ongoing
  <2>13. CASE /\ Len(res) = Cardinality(AWorkers)
              /\ res_for_each_worker'[q] = <<>> /\ reqs_status'[q] = AllAnswers(res)
    <3>1. PICK x \in Nat : x = AllAnswers(res) /\ \A i \in 1..Len(res) : x <= res[i]
      BY <1>10
    <3>2. ASSUME NEW v \in AWorkers PROVE Quiet(v, q)' /\ Covered(v, q, x)'
      <4>1. v \in D
        BY <2>10, <2>13
      <4>2. PICK i \in 1..Len(res) : Covered(v, q, res[i])'
        BY <2>11, <4>1
      <4>3. (x > 0 => res[i] > 0) /\ \A c \in 1..x : c \in 1..res[i]
        <5>1. x <= res[i] /\ res[i] \in Nat
          BY <3>1
        <5> QED BY <5>1
      <4>4. Covered(v, q, x)'
        <5>1. x > 0 => /\ done'[v][q] # 0
                       /\ \A c \in 1..res[i] : /\ c \in future'[v][<<q, done'[v][q]>>].got
                                             /\ future'[v][<<q, done'[v][q]>>].holds[c] = 1
          BY <4>2, <4>3 DEF Covered
        <5> QED BY <4>3, <5>1 DEF Covered
      <4> QED BY <2>11, <4>1, <4>4
    <3>3. reqs_status'[q] = x /\ res_for_each_worker'[q] = <<>>
      BY <2>13, <3>1
    <3> QED BY <1>1, <1>2, <2>4, <3>2, <3>3 DEF LookupInv, Absent, Ongoing
  <2> QED BY <1>11, <2>12, <2>13
<1>15. ASSUME NEW r \in Lookups, r # q PROVE LookupInv(r)'
  <2>1. LookupInv(r) /\ (Active(r) => r \notin aborted_lookups) /\ (Active(r)' => Active(r))
    BY <1>1 DEF AsyncInv, LookupInv, Active
  <2>2. \A v \in AWorkers : /\ About(to_scheduler'[v], r) = About(to_scheduler[v], r)
                            /\ Once(to_scheduler[v], r) => Once(to_scheduler'[v], r)
    <3>1. r \in Lookups \ {q}
      BY <1>15
    <3>2. /\ About(to_scheduler'[w], r) = About(to_scheduler[w], r)
          /\ Once(to_scheduler[w], r) => Once(to_scheduler'[w], r)
      BY <1>5, <3>1
    <3>3. \A v \in AWorkers : v # w => to_scheduler'[v] = to_scheduler[v]
      BY <1>4
    <3> QED BY <3>2, <3>3
  <2>3. reqs_status'[r] = reqs_status[r] /\ res_for_each_worker'[r] = res_for_each_worker[r]
    BY <1>11, <1>15
  <2> QED BY <1>1, <2>1, <2>2, <2>3, Undisturbed
<1> QED BY <1>12, <1>14, <1>15 DEF AsyncInv

LEMMA AsyncNextKeeps == AsyncInv /\ [AsyncNext]_async_vars => AsyncInv'
<1> SUFFICES ASSUME AsyncInv, [AsyncNext]_async_vars PROVE AsyncInv'
  OBVIOUS
<1>1. CASE UNCHANGED async_vars
  <2>1. AsyncTypeOK' /\ UNCHANGED <<AWorkers, MaxRounds>>
    <3>1. UNCHANGED <<AWorkers, MaxRounds, AsyncMsgs, Answers, Futures, LookupIds>>
      BY <1>1, SetupKept DEF async_vars
    <3> QED BY <1>1, <3>1 DEF AsyncInv, AsyncTypeOK, async_vars
  <2>2. ASSUME NEW r \in Lookups PROVE LookupInv(r)'
    <3>1. LookupInv(r) /\ (Active(r) => r \notin aborted_lookups) /\ (Active(r)' => Active(r))
      BY <1>1 DEF AsyncInv, LookupInv, Active, async_vars
    <3> QED BY <1>1, <3>1, Undisturbed DEF AsyncInv, async_vars
  <2> QED BY <2>1, <2>2 DEF AsyncInv
<1>2. ASSUME NEW r \in Lookups,
             \/ CleanupAborted(r) \/ lookup_request(r) \/ lookup_timeout(r) \/ lookup_again(r)
             \/ lookup_answered(r) \/ request_finished(r) \/ preempted(r)
      PROVE  AsyncInv'
  BY <1>2, CleanupKeeps, RequestKeeps, SchedulerKeeps
<1>3. ASSUME NEW r \in Lookups, NEW computed \in 0..NChunks, update_state_after_alloc(r, computed)
      PROVE  AsyncInv'
  BY <1>3, AdmittedKeeps
<1>4. ASSUME NEW r \in Lookups, NEW w \in AWorkers, retrieve_async(w, r) \/ lookup_unpin_async(w, r)
      PROVE  AsyncInv'
  BY <1>4, ServedKeeps
<1>5. ASSUME NEW w \in AWorkers, process_responses_from_workers(w) \/ cleanup_message(w)
      PROVE  AsyncInv'
  BY <1>5, AnswerKeeps, CleanupMessageKeeps
<1>6. ASSUME NEW w \in AWorkers, NEW p \in Pairs, async_lookup_and_prefetch(w, p)
      PROVE  AsyncInv'
  BY <1>6, PrefetchKeeps
<1>7. ASSUME NEW w \in AWorkers, NEW i \in LookupIds,
             prefetch_raises(w, i) \/ \E p \in Pairs : prefetch_all_done(w, i, p)
      PROVE  AsyncInv'
  BY <1>7, RaisesKeeps, AllDoneKeeps
<1> QED BY <1>1, <1>2, <1>3, <1>4, <1>5, <1>6, <1>7 DEF AsyncNext, LookupIds

\* AnswerIsLoaded: the scheduler is told a number of chunks only when every
\* worker has them loaded and held (lmcache_async_lookup_client.py:
\* process_responses_from_workers takes the smallest answer, and
\* storage_manager.py: prefetch_all_done_callback counts what it leaves held).
THEOREM AnswersAreLoaded == AsyncSpec => []AnswerIsLoaded
<1>1. AsyncInv => AnswerIsLoaded
  <2> SUFFICES ASSUME AsyncInv, NEW r \in Lookups, NEW w \in AWorkers,
                      reqs_status[r] > 0, request[r].stage = "waiting", r \notin gave_up
               PROVE  /\ done[w][r] # 0
                      /\ \A c \in 1 .. reqs_status[r] :
                            /\ c \in future[w][<<r, done[w][r]>>].got
                            /\ future[w][<<r, done[w][r]>>].holds[c] = 1
    BY DEF AnswerIsLoaded
  <2>1. Active(r) /\ reqs_status[r] # Ongoing
    BY DEF Active, Ongoing
  <2>2. Covered(w, r, reqs_status[r])
    BY <2>1 DEF AsyncInv, LookupInv
  <2> QED BY <2>2 DEF Covered
<1> QED BY <1>1, LookupInvInit, AsyncNextKeeps, PTL DEF AsyncSpec

=============================================================================
