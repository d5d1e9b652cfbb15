---------------------- MODULE AclNNExecutorCacheProofs ----------------------
(***************************************************************************)
(* Proofs about the executor cache, for any operations, names, tensors,    *)
(* cache objects and executors.                                            *)
(***************************************************************************)
EXTENDS AclNNExecutorCache, FiniteSetTheorems, SequenceTheorems,
        WellFoundedInduction, TLAPS

Heaps == [opCache : [Caches -> CacheContents], count : [Executors -> Nat],
          live : SUBSET Executors]

(* A repeatable cache object owns a live, counted executor of its own, and *)
(* every counted executor is owned.                                        *)
OwnsExecutor(h, c) ==
  /\ h.opCache[c].aclExecutor \in h.live
  /\ h.count[h.opCache[c].aclExecutor] > 0

WellFormed(h) ==
  /\ \A c \in Caches : h.opCache[c].executorRepeatable => OwnsExecutor(h, c)
  /\ \A c, d \in Caches :
       /\ h.opCache[c].executorRepeatable
       /\ h.opCache[d].executorRepeatable
       /\ h.opCache[c].aclExecutor = h.opCache[d].aclExecutor
       => c = d
  /\ \A e \in Executors : h.count[e] > 0 =>
       \E c \in Caches : h.opCache[c].executorRepeatable /\ h.opCache[c].aclExecutor = e

LEMMA EmptyCacheType == EmptyCache \in CacheContents
BY DEF EmptyCache, CacheContents

(* Destroy makes a heap of a heap.                                         *)
LEMMA DestroyType ==
  ASSUME NEW h \in Heaps, NEW c \in Caches
  PROVE  Destroy(h, c) \in Heaps
<1> DEFINE e == h.opCache[c].aclExecutor
<1>0. e \in Executors \cup {Null} BY DEF Heaps, CacheContents
<1>1. CASE e = Null BY <1>1 DEF Destroy
<1>2. CASE e # Null /\ ~h.opCache[c].executorRepeatable
  BY <1>2, EmptyCacheType DEF Destroy, Heaps
<1>3. CASE e # Null /\ h.opCache[c].executorRepeatable /\ DecreaseReference(h.count, e) # 0
  <2>1. e \in Executors BY <1>0, <1>3
  <2>2. DecreaseReference(h.count, e) \in Nat BY <2>1 DEF DecreaseReference, Heaps
  <2> QED BY <1>3, <2>1, <2>2 DEF Destroy, Heaps
<1>4. CASE e # Null /\ h.opCache[c].executorRepeatable /\ DecreaseReference(h.count, e) = 0
  BY <1>0, <1>4, EmptyCacheType DEF Destroy, Heaps
<1> QED BY <1>1, <1>2, <1>3, <1>4

(* Destroy leaves the other cache objects alone, and their counts.         *)
LEMMA DestroyFrame ==
  ASSUME NEW h \in Heaps, NEW c \in Caches, WellFormed(h), NEW d \in Caches, d # c
  PROVE  /\ Destroy(h, c).opCache[d] = h.opCache[d]
         /\ h.opCache[d].executorRepeatable =>
              Destroy(h, c).count[h.opCache[d].aclExecutor] = h.count[h.opCache[d].aclExecutor]
<1> DEFINE e == h.opCache[c].aclExecutor
<1>0. e \in Executors \cup {Null} BY DEF Heaps, CacheContents
<1>00. h.opCache[d].executorRepeatable => h.opCache[d].aclExecutor \in Executors
  BY DEF WellFormed, OwnsExecutor, Heaps
<1>1. CASE e = Null BY <1>1 DEF Destroy
<1>2. CASE e # Null /\ ~h.opCache[c].executorRepeatable
  BY <1>2 DEF Destroy, Heaps
<1>3. CASE e # Null /\ h.opCache[c].executorRepeatable /\ DecreaseReference(h.count, e) # 0
  <2>1. h.opCache[d].executorRepeatable => h.opCache[d].aclExecutor # e
    BY <1>3 DEF WellFormed
  <2> QED BY <1>3, <1>00, <2>1 DEF Destroy, Heaps
<1>4. CASE e # Null /\ h.opCache[c].executorRepeatable /\ DecreaseReference(h.count, e) = 0
  <2>1. h.opCache[d].executorRepeatable => h.opCache[d].aclExecutor # e
    BY <1>4 DEF WellFormed
  <2> QED BY <1>4, <1>00, <2>1 DEF Destroy, Heaps
<1> QED BY <1>1, <1>2, <1>3, <1>4

(* If Destroy leaves the cache object repeatable it has only taken one     *)
(* reference off its executor.                                             *)
LEMMA DestroySurvivor ==
  ASSUME NEW h \in Heaps, NEW c \in Caches, WellFormed(h),
         Destroy(h, c).opCache[c].executorRepeatable
  PROVE  LET e == h.opCache[c].aclExecutor IN
         /\ Destroy(h, c).opCache[c] = h.opCache[c]
         /\ h.opCache[c].executorRepeatable
         /\ e \in Executors
         /\ h.count[e] > 1
         /\ Destroy(h, c).count[e] = h.count[e] - 1
         /\ Destroy(h, c).live = h.live
<1> DEFINE e == h.opCache[c].aclExecutor
<1>1. CASE e = Null
  <2>1. Destroy(h, c) = h BY <1>1 DEF Destroy
  <2>2. e \in Executors BY <2>1 DEF WellFormed, OwnsExecutor, Heaps
  <2> QED BY <1>1, <2>2, NullAssumption
<1>2. CASE e # Null /\ ~h.opCache[c].executorRepeatable
  BY <1>2 DEF Destroy, Heaps, EmptyCache
<1>3. CASE e # Null /\ h.opCache[c].executorRepeatable /\ DecreaseReference(h.count, e) # 0
  <2>1. e \in Executors BY <1>3 DEF WellFormed, OwnsExecutor, Heaps
  <2>2. h.count[e] \in Nat BY <2>1 DEF Heaps
  <2>3. h.count[e] > 1 /\ DecreaseReference(h.count, e) = h.count[e] - 1
    BY <1>3, <2>2 DEF DecreaseReference
  <2> QED BY <1>3, <2>1, <2>3 DEF Destroy, Heaps
<1>4. CASE e # Null /\ h.opCache[c].executorRepeatable /\ DecreaseReference(h.count, e) = 0
  BY <1>4 DEF Destroy, Heaps, EmptyCache
<1> QED BY <1>1, <1>2, <1>3, <1>4

(* Destroy removes no executor another repeatable object owns, and keeps   *)
(* the heap well formed.                                                   *)
LEMMA DestroyWellFormed ==
  ASSUME NEW h \in Heaps, NEW c \in Caches, WellFormed(h)
  PROVE  WellFormed(Destroy(h, c))
<1> DEFINE e == h.opCache[c].aclExecutor
           g == Destroy(h, c)
<1>0. e \in Executors \cup {Null} BY DEF Heaps, CacheContents
<1>1. CASE e = Null BY <1>1 DEF Destroy
<1>2. CASE e # Null /\ ~h.opCache[c].executorRepeatable
  <2>1. g = [h EXCEPT !.opCache = [h.opCache EXCEPT ![c] = EmptyCache]] BY <1>2 DEF Destroy
  <2>2. \A d \in Caches : g.opCache[d].executorRepeatable =>
          h.opCache[d].executorRepeatable /\ g.opCache[d] = h.opCache[d]
    BY <2>1 DEF Heaps, EmptyCache
  <2>3. \A d \in Caches : h.opCache[d].executorRepeatable => g.opCache[d] = h.opCache[d]
    BY <2>1, <1>2 DEF Heaps
  <2>4. g.count = h.count /\ g.live = h.live BY <2>1 DEF Heaps
  <2> QED BY <2>2, <2>3, <2>4 DEF WellFormed, OwnsExecutor
<1>3. CASE e # Null /\ h.opCache[c].executorRepeatable /\ DecreaseReference(h.count, e) # 0
  <2>1. e \in Executors BY <1>0, <1>3
  <2>2. h.count[e] \in Nat BY <2>1 DEF Heaps
  <2>3. g = [h EXCEPT !.count = [h.count EXCEPT ![e] = DecreaseReference(h.count, e)]]
    BY <1>3 DEF Destroy
  <2>4. g.opCache = h.opCache /\ g.live = h.live BY <2>3 DEF Heaps
  <2>5. \A x \in Executors : g.count[x] > 0 <=> h.count[x] > 0
    BY <2>1, <2>2, <2>3, <1>3 DEF Heaps, DecreaseReference
  <2>6. \A d \in Caches : h.opCache[d].executorRepeatable => h.opCache[d].aclExecutor \in Executors
    BY DEF WellFormed, OwnsExecutor, Heaps
  <2> QED BY <2>4, <2>5, <2>6 DEF WellFormed, OwnsExecutor
<1>4. CASE e # Null /\ h.opCache[c].executorRepeatable /\ DecreaseReference(h.count, e) = 0
  <2>1. e \in Executors BY <1>0, <1>4
  <2>2. g = [opCache |-> [h.opCache EXCEPT ![c] = EmptyCache],
             count   |-> [h.count EXCEPT ![e] = 0],
             live    |-> h.live \ {e}]
    BY <1>4 DEF Destroy
  <2>3. \A d \in Caches : g.opCache[d].executorRepeatable =>
          d # c /\ h.opCache[d].executorRepeatable /\ g.opCache[d] = h.opCache[d]
    BY <2>2 DEF Heaps, EmptyCache
  <2>4. \A d \in Caches : h.opCache[d].executorRepeatable /\ d # c =>
          g.opCache[d] = h.opCache[d] /\ h.opCache[d].aclExecutor # e
    BY <2>2, <1>4 DEF Heaps, WellFormed
  <2>5. \A x \in Executors : x # e => g.count[x] = h.count[x] BY <2>2 DEF Heaps
  <2>6. g.count[e] = 0 BY <2>1, <2>2 DEF Heaps
  <2>7. \A d \in Caches : g.opCache[d].executorRepeatable => OwnsExecutor(g, d)
    BY <2>2, <2>3, <2>4, <2>5 DEF WellFormed, OwnsExecutor, Heaps
  <2>8. \A x \in Executors : g.count[x] > 0 =>
          \E d \in Caches : g.opCache[d].executorRepeatable /\ g.opCache[d].aclExecutor = x
    <3> TAKE x \in Executors
    <3> HAVE g.count[x] > 0
    <3>1. x # e BY <2>6
    <3>2. PICK d \in Caches : h.opCache[d].executorRepeatable /\ h.opCache[d].aclExecutor = x
      BY <3>1, <2>5 DEF WellFormed
    <3>3. d # c BY <3>1, <3>2
    <3> QED BY <3>2, <3>3, <2>4
  <2> QED BY <2>3, <2>7, <2>8 DEF WellFormed
<1> QED BY <1>1, <1>2, <1>3, <1>4

-----------------------------------------------------------------------------
HoldersIn(holding, c) == {op \in Ops : holding[op] = c}

(* No executor is counted more often than it is held; and exactly as often *)
(* if no destructor destroys twice.                                        *)
Counted(n, holders) ==
  /\ n <= Cardinality(holders)
  /\ DoubleDestroyOps = {} => n = Cardinality(holders)

CountsHolders(h, holding) ==
  \A c \in Caches : h.opCache[c].executorRepeatable =>
    Counted(h.count[h.opCache[c].aclExecutor], HoldersIn(holding, c))

(* The same, when op holds nothing any more.                               *)
CountsOthers(h, holding, op) ==
  \A c \in Caches : h.opCache[c].executorRepeatable =>
    Counted(h.count[h.opCache[c].aclExecutor], HoldersIn(holding, c) \ {op})

IInv == TypeOK /\ WellFormed(Heap) /\ CountsHolders(Heap, aclnnOpCache)

LEMMA HoldersFinite ==
  ASSUME NEW holding, NEW c
  PROVE  /\ IsFiniteSet(HoldersIn(holding, c))
         /\ Cardinality(HoldersIn(holding, c)) \in Nat
<1>1. HoldersIn(holding, c) \subseteq Ops BY DEF HoldersIn
<1> QED BY <1>1, OpsAssumption, FS_Subset, FS_CardinalityType

LEMMA HeapType == TypeOK => Heap \in Heaps
BY DEF TypeOK, Heap, Heaps

(* Once op has had its cache object destroyed, it need not be counted.     *)
LEMMA ReleaseCountsOthers ==
  ASSUME NEW h \in Heaps, NEW holding \in [Ops -> Caches \cup {Null}], NEW op \in Ops,
         WellFormed(h), CountsHolders(h, holding), holding[op] # Null
  PROVE  CountsOthers(Destroy(h, holding[op]), holding, op)
<1> DEFINE c == holding[op]
           g == Destroy(h, c)
<1>0. c \in Caches OBVIOUS
<1> SUFFICES ASSUME NEW d \in Caches, g.opCache[d].executorRepeatable
             PROVE  Counted(g.count[g.opCache[d].aclExecutor], HoldersIn(holding, d) \ {op})
  BY DEF CountsOthers
<1>1. CASE d = c
  <2> DEFINE e == h.opCache[c].aclExecutor
  <2>1. /\ g.opCache[c] = h.opCache[c]
        /\ h.opCache[c].executorRepeatable
        /\ e \in Executors
        /\ g.count[e] = h.count[e] - 1
    BY <1>0, <1>1, DestroySurvivor
  <2>2. h.count[e] \in Nat BY <2>1 DEF Heaps
  <2>3. Counted(h.count[e], HoldersIn(holding, c)) BY <1>0, <2>1 DEF CountsHolders
  <2>4. op \in HoldersIn(holding, c) BY DEF HoldersIn
  <2>5. Cardinality(HoldersIn(holding, c) \ {op}) = Cardinality(HoldersIn(holding, c)) - 1
    BY <2>4, HoldersFinite, FS_RemoveElement
  <2> QED BY <1>1, <2>1, <2>2, <2>3, <2>5, HoldersFinite DEF Counted
<1>2. CASE d # c
  <2>1. op \notin HoldersIn(holding, d) BY <1>2 DEF HoldersIn
  <2>2. HoldersIn(holding, d) \ {op} = HoldersIn(holding, d) BY <2>1
  <2>3. g.opCache[d] = h.opCache[d] BY <1>0, <1>2, DestroyFrame
  <2>4. h.opCache[d].executorRepeatable BY <2>3
  <2>5. g.count[h.opCache[d].aclExecutor] = h.count[h.opCache[d].aclExecutor]
    BY <1>0, <1>2, <2>4, DestroyFrame
  <2> QED BY <2>2, <2>3, <2>4, <2>5 DEF CountsHolders
<1> QED BY <1>1, <1>2

(* Destroying once more can only lower the count.                          *)
LEMMA ReleaseAgain ==
  ASSUME NEW h \in Heaps, NEW holding \in [Ops -> Caches \cup {Null}], NEW op \in Ops,
         NEW c \in Caches, WellFormed(h), CountsOthers(h, holding, op), DoubleDestroyOps # {}
  PROVE  CountsOthers(Destroy(h, c), holding, op)
<1> DEFINE g == Destroy(h, c)
<1> SUFFICES ASSUME NEW d \in Caches, g.opCache[d].executorRepeatable
             PROVE  Counted(g.count[g.opCache[d].aclExecutor], HoldersIn(holding, d) \ {op})
  BY DEF CountsOthers
<1>1. CASE d = c
  <2> DEFINE e == h.opCache[c].aclExecutor
  <2>1. /\ g.opCache[c] = h.opCache[c]
        /\ h.opCache[c].executorRepeatable
        /\ e \in Executors
        /\ g.count[e] = h.count[e] - 1
    BY <1>1, DestroySurvivor
  <2>2. h.count[e] \in Nat BY <2>1 DEF Heaps
  <2>3. Counted(h.count[e], HoldersIn(holding, c) \ {op}) BY <2>1 DEF CountsOthers
  <2>4. Cardinality(HoldersIn(holding, c) \ {op}) \in Nat
    BY HoldersFinite, FS_RemoveElement, FS_CardinalityType
  <2> QED BY <1>1, <2>1, <2>2, <2>3, <2>4 DEF Counted
<1>2. CASE d # c
  <2>3. g.opCache[d] = h.opCache[d] BY <1>2, DestroyFrame
  <2>4. h.opCache[d].executorRepeatable BY <2>3
  <2>5. g.count[h.opCache[d].aclExecutor] = h.count[h.opCache[d].aclExecutor]
    BY <1>2, <2>4, DestroyFrame
  <2> QED BY <2>3, <2>4, <2>5 DEF CountsOthers
<1> QED BY <1>1, <1>2

(* What an operation's release leaves, all together.                       *)
LEMMA Release ==
  ASSUME IInv, NEW op \in Ops, aclnnOpCache[op] # Null
  PROVE  LET g == Destroy(Heap, aclnnOpCache[op]) IN
         /\ aclnnOpCache[op] \in Caches
         /\ g \in Heaps
         /\ WellFormed(g)
         /\ CountsOthers(g, aclnnOpCache, op)
<1>1. aclnnOpCache[op] \in Caches BY DEF IInv, TypeOK
<1>2. Heap \in Heaps BY HeapType DEF IInv
<1>3. aclnnOpCache \in [Ops -> Caches \cup {Null}] BY DEF IInv, TypeOK
<1> QED BY <1>1, <1>2, <1>3, DestroyType, DestroyWellFormed, ReleaseCountsOthers DEF IInv

(* Objects that are freed own no executor, so freeing them loses nothing.  *)
LEMMA ReclaimKeeps ==
  ASSUME NEW g \in Heaps, WellFormed(g), NEW holding \in [Ops -> Caches \cup {Null}],
         NEW globalCache, CountsHolders(g, holding),
         NEW contents, contents = Reclaim(g.opCache, holding, globalCache),
         NEW h, h = [opCache |-> contents, count |-> g.count, live |-> g.live]
  PROVE  h \in Heaps /\ WellFormed(h) /\ CountsHolders(h, holding)
<1>1. contents \in [Caches -> CacheContents] BY EmptyCacheType DEF Reclaim, Heaps
<1>2. \A c \in Caches : g.opCache[c].executorRepeatable => contents[c] = g.opCache[c]
  <2> TAKE c \in Caches
  <2> HAVE g.opCache[c].executorRepeatable
  <2> DEFINE e == g.opCache[c].aclExecutor
  <2>1. e \in Executors /\ g.count[e] > 0 BY DEF WellFormed, OwnsExecutor, Heaps
  <2>2. g.count[e] \in Nat BY <2>1 DEF Heaps
  <2>3. Cardinality(HoldersIn(holding, c)) # 0
    BY <2>1, <2>2, HoldersFinite DEF CountsHolders, Counted
  <2>4. HoldersIn(holding, c) # {} BY <2>3, FS_EmptySet
  <2>5. c \in Referenced(holding, globalCache) BY <2>4 DEF HoldersIn, Referenced
  <2> QED BY <2>5 DEF Reclaim
<1>3. \A c \in Caches : contents[c].executorRepeatable => contents[c] = g.opCache[c]
  BY DEF Reclaim, EmptyCache
<1>4. h.opCache = contents /\ h.count = g.count /\ h.live = g.live OBVIOUS
<1>5. h \in Heaps BY <1>1 DEF Heaps
<1>6. WellFormed(h) BY <1>2, <1>3, <1>4 DEF WellFormed, OwnsExecutor
<1>7. CountsHolders(h, holding) BY <1>3, <1>4 DEF CountsHolders
<1> QED BY <1>5, <1>6, <1>7

-----------------------------------------------------------------------------
LEMMA SmallestNat ==
  ASSUME NEW S \in SUBSET Nat, S # {}
  PROVE  \E i \in S : \A j \in S : i <= j
<1>1. IsWellFoundedOn(OpToRel(<, Nat), Nat) BY NatLessThanWellFounded
<1>2. PICK i \in S : \A j \in S : ~(<<j, i>> \in OpToRel(<, Nat)) BY <1>1, WFMin
<1>3. \A j \in S : ~(j < i) BY <1>2 DEF OpToRel
<1> QED BY <1>3

(* What the global cache returns is an object that fits.                   *)
LEMMA FirstHitFits ==
  ASSUME TypeOK, NEW n \in Names, NEW p, GlobalHits(n, p) # {}
  PROVE  FirstHit(n, p) \in Caches /\ Hit(FirstHit(n, p), p)
<1>1. aclnnGlobalCache[n] \in Seq(Caches) BY DEF TypeOK
<1>2. GlobalHits(n, p) \subseteq Nat BY <1>1 DEF GlobalHits
<1>3. \E i \in GlobalHits(n, p) : \A j \in GlobalHits(n, p) : i <= j BY <1>2, SmallestNat
<1> DEFINE i == CHOOSE i \in GlobalHits(n, p) : \A j \in GlobalHits(n, p) : i <= j
<1>4. i \in GlobalHits(n, p) BY <1>3
<1>5. FirstHit(n, p) = aclnnGlobalCache[n][i] BY DEF FirstHit
<1>6. i \in DOMAIN aclnnGlobalCache[n] /\ Hit(aclnnGlobalCache[n][i], p)
  BY <1>4 DEF GlobalHits
<1>7. aclnnGlobalCache[n][i] \in Caches BY <1>1, <1>6, ElementOfSeq
<1> HIDE DEF i
<1> QED BY <1>5, <1>6, <1>7

LEMMA FreshCacheIsFree ==
  ASSUME FreshCaches # {}
  PROVE  /\ FreshCache \in Caches
         /\ \A op \in Ops : aclnnOpCache[op] # FreshCache
BY DEF FreshCache, FreshCaches, Referenced

LEMMA CardinalityWithout ==
  ASSUME NEW S, IsFiniteSet(S), NEW x
  PROVE  /\ Cardinality(S \ {x}) \in Nat
         /\ Cardinality((S \ {x}) \cup {x}) = Cardinality(S \ {x}) + 1
<1>1. IsFiniteSet(S \ {x}) BY FS_RemoveElement
<1> QED BY <1>1, FS_AddElement, FS_CardinalityType

(* From a heap g to the next state: it is enough that g is well formed,    *)
(* and counts at most the new holders.                                     *)
LEMMA NextHeap ==
  ASSUME NEW g \in Heaps, WellFormed(g), CountsHolders(g, aclnnOpCache'),
         aclnnOpCache' \in [Ops -> Caches \cup {Null}],
         opCache' = Reclaim(g.opCache, aclnnOpCache', aclnnGlobalCache'),
         executorCount' = g.count, live' = g.live
  PROVE  /\ Heap' \in Heaps
         /\ WellFormed(Heap)'
         /\ CountsHolders(Heap, aclnnOpCache)'
<1>1. Heap' = [opCache |-> opCache', count |-> g.count, live |-> g.live] BY DEF Heap
<1>2. Heap' \in Heaps /\ WellFormed(Heap') /\ CountsHolders(Heap', aclnnOpCache')
  BY <1>1, ReclaimKeeps
<1> QED BY <1>2 DEF WellFormed, OwnsExecutor, CountsHolders, HoldersIn

(* What typing asks of the rest of the state.                              *)
CacheType ==
  /\ aclnnGlobalCache \in [Names -> Seq(Caches)]
  /\ \A n \in Names : Len(aclnnGlobalCache[n]) <= GlobalCacheCountMax
  /\ nextUpdateIndex \in 0 .. 99
  /\ GlobalCacheCountMax > 0 => nextUpdateIndex < GlobalCacheCountMax

LEMMA AssembleType ==
  ASSUME aclnnOpCache \in [Ops -> Caches \cup {Null}], Heap \in Heaps, CacheType,
         setupPack \in [Ops -> Packs \cup {Null}]
  PROVE  TypeOK
BY DEF TypeOK, CacheType, Heap, Heaps

LEMMA UpdateGlobalCacheType ==
  ASSUME CacheType, NEW n \in Names, NEW c \in Caches, UpdateGlobalCache(n, c)
  PROVE  CacheType'
<1> DEFINE list == aclnnGlobalCache[n]
<1>0. GlobalCacheCountMax \in 0 .. 99 BY SizeAssumption
<1>00. list \in Seq(Caches) /\ Len(list) \in Nat /\ Len(list) <= GlobalCacheCountMax
  BY DEF CacheType
<1>1. CASE GlobalCacheCountMax = 0 BY <1>1 DEF UpdateGlobalCache, CacheType
<1>2. CASE GlobalCacheCountMax > 0 /\ Len(list) < GlobalCacheCountMax
  <2>1. /\ aclnnGlobalCache' = [aclnnGlobalCache EXCEPT ![n] = Append(list, c)]
        /\ nextUpdateIndex' = nextUpdateIndex
    BY <1>2, <1>0 DEF UpdateGlobalCache
  <2>2. Append(list, c) \in Seq(Caches) /\ Len(Append(list, c)) = Len(list) + 1 BY <1>00
  <2>3. Len(Append(list, c)) <= GlobalCacheCountMax BY <1>0, <1>00, <1>2, <2>2
  <2> QED BY <2>1, <2>2, <2>3 DEF CacheType
<1>3. CASE GlobalCacheCountMax > 0 /\ ~(Len(list) < GlobalCacheCountMax)
  <2> DEFINE i == nextUpdateIndex + 1
             replaced == [list EXCEPT ![i] = c]
  <2>1. /\ aclnnGlobalCache' = [aclnnGlobalCache EXCEPT ![n][i] = c]
        /\ nextUpdateIndex' = i % GlobalCacheCountMax
    BY <1>3, <1>0 DEF UpdateGlobalCache
  <2>2. aclnnGlobalCache' = [aclnnGlobalCache EXCEPT ![n] = replaced] BY <2>1
  <2>0. i \in 1 .. Len(list) BY <1>0, <1>00, <1>3 DEF CacheType
  <2>3. replaced \in Seq(Caches) /\ Len(replaced) = Len(list) BY <1>00, <2>0, ExceptSeq
  <2>4. nextUpdateIndex' \in 0 .. 99 /\ nextUpdateIndex' < GlobalCacheCountMax
    BY <1>0, <1>3, <2>1 DEF CacheType
  <2> QED BY <1>00, <2>2, <2>3, <2>4 DEF CacheType
<1> QED BY <1>0, <1>1, <1>2, <1>3

-----------------------------------------------------------------------------
(* The inductive step, one lemma per action.                               *)
LEMMA InitInv == Init => IInv
<1> SUFFICES ASSUME Init PROVE IInv OBVIOUS
<1>1. Heap \in Heaps BY EmptyCacheType DEF Init, Heap, Heaps
<1>2. CacheType BY SizeAssumption DEF Init, CacheType
<1>3. TypeOK BY <1>1, <1>2, AssembleType DEF Init
<1>4. \A c \in Caches : ~Heap.opCache[c].executorRepeatable BY DEF Init, Heap, EmptyCache
<1>5. \A e \in Executors : Heap.count[e] = 0 BY DEF Init, Heap
<1> QED BY <1>3, <1>4, <1>5 DEF IInv, WellFormed, CountsHolders

LEMMA SetupLocalHitInv ==
  ASSUME IInv, NEW op \in Ops, NEW p \in Packs, SetupLocalHit(op, p)
  PROVE  IInv'
<1>1. /\ Heap' = Heap
      /\ UNCHANGED <<aclnnOpCache, opCache, executorCount, aclnnGlobalCache, nextUpdateIndex, live>>
  BY DEF SetupLocalHit, Heap
<1>2. setupPack' \in [Ops -> Packs \cup {Null}] BY DEF SetupLocalHit, IInv, TypeOK
<1>3. TypeOK' BY <1>1, <1>2 DEF IInv, TypeOK
<1>4. WellFormed(Heap)' BY <1>1 DEF IInv, WellFormed, OwnsExecutor
<1>5. CountsHolders(Heap, aclnnOpCache)' BY <1>1 DEF IInv, CountsHolders, HoldersIn
<1> QED BY <1>3, <1>4, <1>5 DEF IInv

(* One more reference to the executor of an object op now holds as well.   *)
LEMMA ShareHeap ==
  ASSUME NEW g \in Heaps, WellFormed(g), NEW holding \in [Ops -> Caches \cup {Null}],
         NEW op \in Ops, CountsOthers(g, holding, op),
         NEW c \in Caches, g.opCache[c].executorRepeatable,
         NEW e, e = g.opCache[c].aclExecutor,
         NEW h, h = [g EXCEPT !.count = [g.count EXCEPT ![e] = IncreaseReference(g.count, e)]]
  PROVE  /\ h \in Heaps
         /\ WellFormed(h)
         /\ CountsHolders(h, [holding EXCEPT ![op] = c])
<1>1. e \in Executors /\ g.count[e] \in Nat BY DEF WellFormed, OwnsExecutor, Heaps
<1>2. h.opCache = g.opCache /\ h.live = g.live BY DEF Heaps
<1>3. h.count[e] = g.count[e] + 1 BY <1>1 DEF Heaps, IncreaseReference
<1>4. \A x \in Executors : x # e => h.count[x] = g.count[x] BY DEF Heaps
<1>5. h \in Heaps
  <2>1. [g.count EXCEPT ![e] = g.count[e] + 1] \in [Executors -> Nat] BY <1>1 DEF Heaps
  <2> QED BY <2>1 DEF Heaps, IncreaseReference
<1>6. \A x \in Executors : h.count[x] > 0 <=> g.count[x] > 0
  BY <1>1, <1>3, <1>4 DEF WellFormed, OwnsExecutor
<1>7. \A d \in Caches : g.opCache[d].executorRepeatable => g.opCache[d].aclExecutor \in Executors
  BY DEF WellFormed, OwnsExecutor, Heaps
<1>8. WellFormed(h) BY <1>2, <1>6, <1>7 DEF WellFormed, OwnsExecutor
<1> DEFINE taken == [holding EXCEPT ![op] = c]
<1>t. ASSUME NEW d \in Caches
      PROVE  HoldersIn(taken, d) = IF d = c THEN (HoldersIn(holding, d) \ {op}) \cup {op}
                                   ELSE HoldersIn(holding, d) \ {op}
  BY DEF HoldersIn
<1> HIDE DEF taken
<1>9. ASSUME NEW d \in Caches, h.opCache[d].executorRepeatable
      PROVE  Counted(h.count[h.opCache[d].aclExecutor], HoldersIn(taken, d))
  <2>1. Counted(g.count[g.opCache[d].aclExecutor], HoldersIn(holding, d) \ {op})
    BY <1>2, <1>9 DEF CountsOthers
  <2>2. CASE d = c
    <3>1. HoldersIn(taken, d) = (HoldersIn(holding, d) \ {op}) \cup {op}
      BY <2>2, <1>t
    <3>0. Cardinality((HoldersIn(holding, d) \ {op}) \cup {op}) =
            Cardinality(HoldersIn(holding, d) \ {op}) + 1
      BY HoldersFinite, CardinalityWithout
    <3>2. Cardinality(HoldersIn(taken, d)) = Cardinality(HoldersIn(holding, d) \ {op}) + 1
      BY <3>0, <3>1, Zenon
    <3>3. Cardinality(HoldersIn(holding, d) \ {op}) \in Nat
      BY HoldersFinite, CardinalityWithout
    <3> QED BY <1>1, <1>2, <1>3, <2>1, <2>2, <3>2, <3>3 DEF Counted
  <2>3. CASE d # c
    <3>1. HoldersIn(taken, d) = HoldersIn(holding, d) \ {op} BY <2>3, <1>t
    <3>2. g.opCache[d].aclExecutor # e BY <1>2, <1>9, <2>3 DEF WellFormed
    <3> QED BY <1>2, <1>4, <1>7, <1>9, <2>1, <3>1, <3>2
  <2> QED BY <2>2, <2>3
<1>10. CountsHolders(h, taken) BY <1>9 DEF CountsHolders
<1> QED BY <1>5, <1>8, <1>10 DEF taken

LEMMA SetupGlobalHitInv ==
  ASSUME IInv, NEW op \in Ops, NEW p \in Packs, SetupGlobalHit(op, p)
  PROVE  IInv'
<1> DEFINE own   == aclnnOpCache[op]
           found == FirstHit(OpName(op), p)
           g     == Destroy(Heap, own)
           e     == g.opCache[found].aclExecutor
           h     == [g EXCEPT !.count = [g.count EXCEPT ![e] = IncreaseReference(g.count, e)]]
<1>0. /\ own # Null
      /\ aclnnOpCache' = [aclnnOpCache EXCEPT ![op] = found]
      /\ executorCount' = [g.count EXCEPT ![e] = IncreaseReference(g.count, e)]
      /\ live' = g.live
      /\ opCache' = Reclaim(g.opCache, aclnnOpCache', aclnnGlobalCache)
      /\ UNCHANGED <<aclnnGlobalCache, nextUpdateIndex>>
      /\ setupPack' = [setupPack EXCEPT ![op] = p]
  BY DEF SetupGlobalHit
<1>00. aclnnOpCache \in [Ops -> Caches \cup {Null}] BY DEF IInv, TypeOK
<1>1. own \in Caches /\ g \in Heaps /\ WellFormed(g) /\ CountsOthers(g, aclnnOpCache, op)
  BY <1>0, Release
<1>2. found \in Caches /\ Hit(found, p)
  <2>1. OpName(op) \in Names BY DEF Names
  <2> QED BY <2>1, FirstHitFits DEF SetupGlobalHit, IInv
<1>3. found # own BY <1>2 DEF SetupGlobalHit
<1>4. g.opCache[found].executorRepeatable
  <2>1. Heap \in Heaps /\ WellFormed(Heap) BY HeapType DEF IInv
  <2>2. g.opCache[found] = Heap.opCache[found] BY <1>1, <1>2, <1>3, <2>1, DestroyFrame
  <2> QED BY <1>2, <2>2 DEF Hit, Heap
<1> HIDE DEF g, own, found
<1>5. h \in Heaps /\ WellFormed(h) /\ CountsHolders(h, aclnnOpCache')
  BY <1>0, <1>00, <1>1, <1>2, <1>4, ShareHeap
<1>6. h.count = executorCount' /\ h.live = live' /\ h.opCache = g.opCache BY <1>0, <1>1 DEF Heaps
<1>7. aclnnOpCache' \in [Ops -> Caches \cup {Null}] BY <1>0, <1>00, <1>2
<1>8. /\ Heap' \in Heaps
      /\ WellFormed(Heap)'
      /\ CountsHolders(Heap, aclnnOpCache)'
  BY <1>0, <1>5, <1>6, <1>7, NextHeap
<1>9. CacheType' /\ setupPack' \in [Ops -> Packs \cup {Null}]
  BY <1>0 DEF IInv, TypeOK, CacheType
<1>10. TypeOK' BY <1>7, <1>8, <1>9 DEF TypeOK, CacheType, Heap, Heaps
<1> QED BY <1>8, <1>10 DEF IInv

(* An object nobody but op holds is not repeatable once op has released    *)
(* what it held.                                                           *)
LEMMA FreeNotRepeatable ==
  ASSUME NEW g \in Heaps, WellFormed(g), NEW holding, NEW op,
         CountsOthers(g, holding, op),
         NEW c \in Caches, \A o \in Ops : holding[o] # c
  PROVE  ~g.opCache[c].executorRepeatable
<1> SUFFICES ASSUME g.opCache[c].executorRepeatable PROVE FALSE OBVIOUS
<1> DEFINE e == g.opCache[c].aclExecutor
<1>1. e \in Executors /\ g.count[e] > 0 BY DEF WellFormed, OwnsExecutor, Heaps
<1>2. g.count[e] \in Nat BY <1>1 DEF Heaps
<1>3. HoldersIn(holding, c) \ {op} = {} BY DEF HoldersIn
<1>4. Counted(g.count[e], HoldersIn(holding, c) \ {op}) BY DEF CountsOthers
<1>5. Cardinality(HoldersIn(holding, c) \ {op}) = 0 BY <1>3, FS_EmptySet
<1> QED BY <1>1, <1>2, <1>4, <1>5 DEF Counted

(* A new executor e in the free object c, which op takes.                  *)
LEMMA CreateHeap ==
  ASSUME NEW g \in Heaps, WellFormed(g), NEW holding \in [Ops -> Caches \cup {Null}],
         NEW op \in Ops, CountsOthers(g, holding, op),
         NEW c \in Caches, \A o \in Ops : holding[o] # c,
         NEW e \in Executors \ g.live,
         NEW made \in CacheContents, made.aclExecutor = e,
         NEW h, h = [opCache |-> [g.opCache EXCEPT ![c] = made],
                     count   |-> IF made.executorRepeatable
                                 THEN [g.count EXCEPT ![e] = RegisterReference(g.count, e)]
                                 ELSE g.count,
                     live    |-> g.live \cup {e}]
  PROVE  /\ h \in Heaps
         /\ WellFormed(h)
         /\ CountsHolders(h, [holding EXCEPT ![op] = c])
<1> DEFINE taken == [holding EXCEPT ![op] = c]
<1>1. ~g.opCache[c].executorRepeatable BY FreeNotRepeatable
<1>2. h \in Heaps BY DEF Heaps, RegisterReference
<1>3. h.opCache[c] = made /\ \A d \in Caches : d # c => h.opCache[d] = g.opCache[d] BY DEF Heaps
<1>4. \A d \in Caches : g.opCache[d].executorRepeatable =>
        g.opCache[d].aclExecutor \in Executors /\ g.opCache[d].aclExecutor # e
  BY DEF WellFormed, OwnsExecutor, Heaps
<1>5. \A x \in Executors : x # e => h.count[x] = g.count[x] BY DEF Heaps
<1>6. made.executorRepeatable => h.count[e] = 1 BY DEF Heaps, RegisterReference
<1>7. ~made.executorRepeatable => h.count = g.count OBVIOUS
<1>8. ~(g.count[e] > 0) BY <1>4 DEF WellFormed
<1>9. h.live = g.live \cup {e} OBVIOUS
<1>10. WellFormed(h)
  <2>1. \A d \in Caches : h.opCache[d].executorRepeatable => OwnsExecutor(h, d)
    <3> SUFFICES ASSUME NEW d \in Caches, h.opCache[d].executorRepeatable
                 PROVE  OwnsExecutor(h, d)
      OBVIOUS
    <3>1. CASE d = c BY <3>1, <1>3, <1>6, <1>9 DEF OwnsExecutor
    <3>2. CASE d # c BY <3>2, <1>3, <1>4, <1>5, <1>9 DEF OwnsExecutor, WellFormed
    <3> QED BY <3>1, <3>2
  <2>2. ASSUME NEW b \in Caches, NEW d \in Caches,
               h.opCache[b].executorRepeatable, h.opCache[d].executorRepeatable,
               h.opCache[b].aclExecutor = h.opCache[d].aclExecutor
        PROVE  b = d
    <3>1. CASE b = c \/ d = c BY <3>1, <2>2, <1>3, <1>4
    <3>2. CASE b # c /\ d # c BY <3>2, <2>2, <1>3 DEF WellFormed
    <3> QED BY <3>1, <3>2
  <2>3. ASSUME NEW x \in Executors, h.count[x] > 0
        PROVE  \E d \in Caches : h.opCache[d].executorRepeatable /\ h.opCache[d].aclExecutor = x
    <3>1. CASE x = e
      <4>1. made.executorRepeatable BY <3>1, <2>3, <1>7, <1>8
      <4> QED BY <3>1, <4>1, <1>3
    <3>2. CASE x # e
      <4>1. PICK d \in Caches : g.opCache[d].executorRepeatable /\ g.opCache[d].aclExecutor = x
        BY <3>2, <2>3, <1>5 DEF WellFormed
      <4> QED BY <4>1, <1>1, <1>3
    <3> QED BY <3>1, <3>2
  <2> QED BY <2>1, <2>2, <2>3 DEF WellFormed
<1>11. HoldersIn(taken, c) = {op} BY DEF HoldersIn
<1>12. \A d \in Caches : d # c => HoldersIn(taken, d) = HoldersIn(holding, d) \ {op} BY DEF HoldersIn
<1> HIDE DEF taken
<1>13. CountsHolders(h, taken)
  <2> SUFFICES ASSUME NEW d \in Caches, h.opCache[d].executorRepeatable
               PROVE  Counted(h.count[h.opCache[d].aclExecutor], HoldersIn(taken, d))
    BY DEF CountsHolders
  <2>1. CASE d = c
    <3>1. Cardinality(HoldersIn(taken, c)) = 1 BY <1>11, FS_Singleton
    <3> QED BY <2>1, <3>1, <1>3, <1>6, <1>11 DEF Counted
  <2>2. CASE d # c
    <3>1. Counted(g.count[g.opCache[d].aclExecutor], HoldersIn(holding, d) \ {op})
      BY <2>2, <1>3 DEF CountsOthers
    <3>2. h.opCache[d] = g.opCache[d] /\ g.opCache[d].executorRepeatable BY <2>2, <1>3
    <3>3. h.count[h.opCache[d].aclExecutor] = g.count[g.opCache[d].aclExecutor]
      BY <3>2, <1>4, <1>5
    <3>4. HoldersIn(taken, d) = HoldersIn(holding, d) \ {op} BY <2>2, <1>12
    <3> QED BY <3>1, <3>3, <3>4
  <2> QED BY <2>1, <2>2
<1> QED BY <1>2, <1>10, <1>13 DEF taken

LEMMA SetupCreateInv ==
  ASSUME IInv, NEW op \in Ops, NEW p \in Packs, SetupCreate(op, p)
  PROVE  IInv'
<1> DEFINE c == FreshCache
           g == Destroy(Heap, aclnnOpCache[op])
<1>0. /\ FreshCaches # {}
      /\ aclnnOpCache[op] # Null
  BY DEF SetupCreate, Miss
<1>1. PICK e \in Executors \ g.live, repeatable \in BOOLEAN :
        LET made == [aclExecutor |-> e, executorRepeatable |-> repeatable,
                     pack |-> p, kind |-> OpKind(op)]
        IN  /\ aclnnOpCache' = [aclnnOpCache EXCEPT ![op] = c]
            /\ live' = g.live \cup {e}
            /\ IF repeatable
               THEN /\ executorCount' = [g.count EXCEPT ![e] = RegisterReference(g.count, e)]
                    /\ UpdateGlobalCache(OpName(op), c)
               ELSE /\ executorCount' = g.count
                    /\ UNCHANGED <<aclnnGlobalCache, nextUpdateIndex>>
            /\ opCache' = Reclaim([g.opCache EXCEPT ![c] = made], aclnnOpCache', aclnnGlobalCache')
  BY DEF SetupCreate
<1> DEFINE made == [aclExecutor |-> e, executorRepeatable |-> repeatable,
                    pack |-> p, kind |-> OpKind(op)]
           h == [opCache |-> [g.opCache EXCEPT ![c] = made],
                 count   |-> IF made.executorRepeatable
                             THEN [g.count EXCEPT ![e] = RegisterReference(g.count, e)]
                             ELSE g.count,
                 live    |-> g.live \cup {e}]
<1>2. c \in Caches /\ \A o \in Ops : aclnnOpCache[o] # c BY <1>0, FreshCacheIsFree
<1>3. g \in Heaps /\ WellFormed(g) /\ CountsOthers(g, aclnnOpCache, op) BY <1>0, Release
<1>4. aclnnOpCache \in [Ops -> Caches \cup {Null}] BY DEF IInv, TypeOK
<1>5. made \in CacheContents BY DEF CacheContents
<1>6. aclnnOpCache' = [aclnnOpCache EXCEPT ![op] = c] BY <1>1
<1>7. opCache' = Reclaim(h.opCache, aclnnOpCache', aclnnGlobalCache') BY <1>1
<1>8. executorCount' = h.count /\ live' = h.live BY <1>1
<1>9. CacheType'
  <2>1. CacheType /\ OpName(op) \in Names BY DEF IInv, TypeOK, CacheType, Names
  <2>2. CASE repeatable BY <1>1, <1>2, <2>1, <2>2, UpdateGlobalCacheType
  <2>3. CASE ~repeatable BY <1>1, <2>1, <2>3 DEF CacheType
  <2> QED BY <2>2, <2>3
<1> HIDE DEF g, c
<1>10. h \in Heaps /\ WellFormed(h) /\ CountsHolders(h, [aclnnOpCache EXCEPT ![op] = c])
  BY <1>2, <1>3, <1>4, <1>5, CreateHeap
<1> HIDE DEF h
<1>11. CountsHolders(h, aclnnOpCache') BY <1>6, <1>10
<1>12. aclnnOpCache' \in [Ops -> Caches \cup {Null}] BY <1>2, <1>4, <1>6
<1>13. /\ Heap' \in Heaps
       /\ WellFormed(Heap)'
       /\ CountsHolders(Heap, aclnnOpCache)'
  BY <1>7, <1>8, <1>10, <1>11, <1>12, NextHeap
<1>14. setupPack' \in [Ops -> Packs \cup {Null}] BY DEF SetupCreate, IInv, TypeOK
<1>15. TypeOK' BY <1>9, <1>12, <1>13, <1>14 DEF TypeOK, CacheType, Heap, Heaps
<1> QED BY <1>13, <1>15 DEF IInv

(* Contents that are not repeatable may replace others that are not.       *)
LEMMA OverwriteHeap ==
  ASSUME NEW g \in Heaps, WellFormed(g), NEW holding, NEW op,
         CountsOthers(g, holding, op),
         NEW c \in Caches, ~g.opCache[c].executorRepeatable,
         NEW made \in CacheContents, ~made.executorRepeatable,
         NEW h, h = [g EXCEPT !.opCache = [g.opCache EXCEPT ![c] = made]]
  PROVE  h \in Heaps /\ WellFormed(h) /\ CountsOthers(h, holding, op)
<1>1. h \in Heaps BY DEF Heaps
<1>2. h.count = g.count /\ h.live = g.live BY DEF Heaps
<1>3. h.opCache[c] = made /\ \A d \in Caches : d # c => h.opCache[d] = g.opCache[d] BY DEF Heaps
<1>4. \A d \in Caches : h.opCache[d].executorRepeatable =>
        g.opCache[d].executorRepeatable /\ h.opCache[d] = g.opCache[d]
  BY <1>3
<1>5. \A d \in Caches : g.opCache[d].executorRepeatable => h.opCache[d] = g.opCache[d] BY <1>3
<1> QED BY <1>1, <1>2, <1>4, <1>5 DEF WellFormed, OwnsExecutor, CountsOthers

(* op takes an object that is not repeatable, or none.                     *)
LEMMA TakeUncounted ==
  ASSUME NEW g \in Heaps, NEW holding \in [Ops -> Caches \cup {Null}], NEW op \in Ops,
         CountsOthers(g, holding, op), NEW c,
         c \in Caches => ~g.opCache[c].executorRepeatable
  PROVE  CountsHolders(g, [holding EXCEPT ![op] = c])
<1> DEFINE taken == [holding EXCEPT ![op] = c]
<1>1. \A d \in Caches : d # c => HoldersIn(taken, d) = HoldersIn(holding, d) \ {op} BY DEF HoldersIn
<1> HIDE DEF taken
<1>2. CountsHolders(g, taken) BY <1>1 DEF CountsHolders, CountsOthers
<1> QED BY <1>2 DEF taken

(* Destroying what is not repeatable at most empties the object.           *)
LEMMA DestroyUncountedObject ==
  ASSUME NEW g \in Heaps, WellFormed(g), NEW holding, NEW op,
         CountsOthers(g, holding, op),
         NEW c \in Caches, ~g.opCache[c].executorRepeatable
  PROVE  CountsOthers(Destroy(g, c), holding, op)
<1>1. CASE g.opCache[c].aclExecutor = Null BY <1>1 DEF Destroy
<1>2. CASE g.opCache[c].aclExecutor # Null
  <2>1. Destroy(g, c) = [g EXCEPT !.opCache = [g.opCache EXCEPT ![c] = EmptyCache]]
    BY <1>2 DEF Destroy
  <2>2. ~EmptyCache.executorRepeatable BY DEF EmptyCache
  <2> QED BY <2>1, <2>2, EmptyCacheType, OverwriteHeap
<1> QED BY <1>1, <1>2

LEMMA ConstructInv ==
  ASSUME IInv, NEW op \in Ops, Construct(op)
  PROVE  IInv'
<1>1. Heap' = Heap /\ Heap \in Heaps BY HeapType DEF Construct, Heap, IInv
<1>2. /\ FreshCache \in Caches
      /\ \A o \in Ops : aclnnOpCache[o] # FreshCache
      /\ aclnnOpCache' = [aclnnOpCache EXCEPT ![op] = FreshCache]
  BY FreshCacheIsFree DEF Construct
<1>3. aclnnOpCache \in [Ops -> Caches \cup {Null}] BY DEF IInv, TypeOK
<1>4. \A d \in Caches : HoldersIn(aclnnOpCache, d) \ {op} = HoldersIn(aclnnOpCache, d)
  BY NullAssumption DEF Construct, HoldersIn
<1>5. CountsOthers(Heap, aclnnOpCache, op) BY <1>4 DEF IInv, CountsHolders, CountsOthers
<1>6. ~Heap.opCache[FreshCache].executorRepeatable
  BY <1>1, <1>2, <1>5, FreeNotRepeatable DEF IInv
<1>7. CountsHolders(Heap, aclnnOpCache') BY <1>1, <1>2, <1>3, <1>5, <1>6, TakeUncounted
<1>8. CountsHolders(Heap, aclnnOpCache)' BY <1>1, <1>7 DEF CountsHolders, HoldersIn
<1>9. TypeOK' BY <1>2, <1>3 DEF IInv, TypeOK, Construct
<1> QED BY <1>1, <1>8, <1>9 DEF IInv, WellFormed, OwnsExecutor

LEMMA SetupFailInv ==
  ASSUME IInv, NEW op \in Ops, NEW p \in Packs, SetupFail(op, p)
  PROVE  IInv'
<1> DEFINE c == FreshCache
           given == Destroy(Heap, aclnnOpCache[op])
           made == [given.opCache[c] EXCEPT !.pack = p, !.kind = OpKind(op)]
           partial == [given EXCEPT !.opCache[c].pack = p, !.opCache[c].kind = OpKind(op)]
           g == Destroy(partial, c)
<1>0. /\ FreshCaches # {}
      /\ aclnnOpCache[op] # Null
      /\ aclnnOpCache' = [aclnnOpCache EXCEPT ![op] = c]
      /\ executorCount' = g.count
      /\ live' = g.live
      /\ opCache' = Reclaim(g.opCache, aclnnOpCache', aclnnGlobalCache)
      /\ UNCHANGED <<aclnnGlobalCache, nextUpdateIndex>>
      /\ setupPack' = [setupPack EXCEPT ![op] = Null]
  BY DEF SetupFail, Miss
<1>1. c \in Caches /\ \A o \in Ops : aclnnOpCache[o] # c BY <1>0, FreshCacheIsFree
<1>2. given \in Heaps /\ WellFormed(given) /\ CountsOthers(given, aclnnOpCache, op)
  BY <1>0, Release
<1>3. aclnnOpCache \in [Ops -> Caches \cup {Null}] BY DEF IInv, TypeOK
<1>4. ~given.opCache[c].executorRepeatable BY <1>1, <1>2, FreeNotRepeatable
<1>5. given.opCache[c] \in CacheContents BY <1>1, <1>2 DEF Heaps
<1>6. made \in CacheContents /\ ~made.executorRepeatable BY <1>4, <1>5 DEF CacheContents
<1>7. partial = [given EXCEPT !.opCache = [given.opCache EXCEPT ![c] = made]]
  BY <1>1, <1>2, <1>5 DEF Heaps, CacheContents
<1> HIDE DEF given, made, c
<1>8. partial \in Heaps /\ WellFormed(partial) /\ CountsOthers(partial, aclnnOpCache, op)
  BY <1>1, <1>2, <1>4, <1>6, <1>7, OverwriteHeap
<1>9. ~partial.opCache[c].executorRepeatable BY <1>1, <1>2, <1>6, <1>7 DEF Heaps
<1> HIDE DEF partial
<1>10. g \in Heaps /\ WellFormed(g) /\ CountsOthers(g, aclnnOpCache, op)
  BY <1>1, <1>8, <1>9, DestroyType, DestroyWellFormed, DestroyUncountedObject
<1>11. ~g.opCache[c].executorRepeatable BY <1>1, <1>8, <1>9, DestroySurvivor
<1> HIDE DEF g
<1>12. CountsHolders(g, aclnnOpCache') BY <1>0, <1>3, <1>10, <1>11, TakeUncounted
<1>13. aclnnOpCache' \in [Ops -> Caches \cup {Null}] BY <1>0, <1>1, <1>3
<1>14. /\ Heap' \in Heaps
       /\ WellFormed(Heap)'
       /\ CountsHolders(Heap, aclnnOpCache)'
  BY <1>0, <1>10, <1>12, <1>13, NextHeap
<1>15. CacheType' /\ setupPack' \in [Ops -> Packs \cup {Null}]
  BY <1>0 DEF IInv, TypeOK, CacheType
<1>16. TypeOK' BY <1>13, <1>14, <1>15 DEF TypeOK, CacheType, Heap, Heaps
<1> QED BY <1>14, <1>16 DEF IInv

LEMMA DestructInv ==
  ASSUME IInv, NEW op \in Ops, Destruct(op)
  PROVE  IInv'
<1> DEFINE c    == aclnnOpCache[op]
           once == Destroy(Heap, c)
           g    == IF op \in DoubleDestroyOps THEN Destroy(once, c) ELSE once
<1>0. /\ c # Null
      /\ aclnnOpCache' = [aclnnOpCache EXCEPT ![op] = Null]
      /\ executorCount' = g.count
      /\ live' = g.live
      /\ opCache' = Reclaim(g.opCache, aclnnOpCache', aclnnGlobalCache)
      /\ UNCHANGED <<aclnnGlobalCache, nextUpdateIndex>>
      /\ setupPack' = [setupPack EXCEPT ![op] = Null]
  BY DEF Destruct
<1>1. /\ c \in Caches /\ once \in Heaps /\ WellFormed(once)
      /\ CountsOthers(once, aclnnOpCache, op)
  BY <1>0, Release
<1>2. aclnnOpCache \in [Ops -> Caches \cup {Null}] BY DEF IInv, TypeOK
<1> HIDE DEF once
<1>3. g \in Heaps /\ WellFormed(g) /\ CountsOthers(g, aclnnOpCache, op)
  <2>1. CASE op \in DoubleDestroyOps
    <3>1. LET twice == Destroy(once, c) IN
          twice \in Heaps /\ WellFormed(twice) /\ CountsOthers(twice, aclnnOpCache, op)
      BY <1>1, <1>2, <2>1, DestroyType, DestroyWellFormed, ReleaseAgain
    <3> QED BY <2>1, <3>1
  <2>2. CASE op \notin DoubleDestroyOps BY <1>1, <2>2
  <2> QED BY <2>1, <2>2
<1> HIDE DEF g
<1>4. CountsHolders(g, [aclnnOpCache EXCEPT ![op] = Null])
  BY <1>2, <1>3, NullAssumption, TakeUncounted
<1>5. aclnnOpCache' \in [Ops -> Caches \cup {Null}] BY <1>0, <1>2
<1>6. /\ Heap' \in Heaps
      /\ WellFormed(Heap)'
      /\ CountsHolders(Heap, aclnnOpCache)'
  BY <1>0, <1>3, <1>4, <1>5, NextHeap
<1>7. CacheType' /\ setupPack' \in [Ops -> Packs \cup {Null}]
  BY <1>0 DEF IInv, TypeOK, CacheType
<1>8. TypeOK' BY <1>5, <1>6, <1>7 DEF TypeOK, CacheType, Heap, Heaps
<1> QED BY <1>6, <1>8 DEF IInv

-----------------------------------------------------------------------------
(***************************************************************************)
(* The executors of operations that are between Setup and Execute, and     *)
(* with them the invariants of the whole executor cache.                   *)
(***************************************************************************)

(* op is set up with an executor that CANN will release when it has run.   *)
Pending(h, holding, packs, op) ==
  /\ packs[op] # Null
  /\ ~h.opCache[holding[op]].executorRepeatable
  /\ h.opCache[holding[op]].aclExecutor # Null

ExecutorOf(h, holding, op) == h.opCache[holding[op]].aclExecutor

(* Releasing the executor of a pending operation takes it from nobody: it  *)
(* is live, no repeatable object owns it and nobody else has it pending.   *)
PendingAlone(h, holding, packs) ==
  /\ \A op \in Ops : packs[op] # Null => holding[op] \in Caches
  /\ \A op \in Ops : Pending(h, holding, packs, op) =>
       /\ ExecutorOf(h, holding, op) \in h.live
       /\ \A d \in Caches : h.opCache[d].executorRepeatable =>
            h.opCache[d].aclExecutor # ExecutorOf(h, holding, op)
  /\ \A o1, o2 \in Ops :
       /\ Pending(h, holding, packs, o1)
       /\ Pending(h, holding, packs, o2)
       /\ ExecutorOf(h, holding, o1) = ExecutorOf(h, holding, o2)
       => o1 = o2

(* Destroy only empties objects and only takes executors that repeatable   *)
(* objects own out of the live ones.                                       *)
LEMMA DestroyShrinks ==
  ASSUME NEW h \in Heaps, NEW c \in Caches, WellFormed(h)
  PROVE  LET g == Destroy(h, c) IN
         /\ \A d \in Caches : g.opCache[d] = h.opCache[d] \/ g.opCache[d] = EmptyCache
         /\ \A x \in h.live \ g.live :
              h.opCache[c].executorRepeatable /\ h.opCache[c].aclExecutor = x
<1> DEFINE e == h.opCache[c].aclExecutor
<1>1. CASE e = Null BY <1>1 DEF Destroy
<1>2. CASE e # Null /\ ~h.opCache[c].executorRepeatable BY <1>2 DEF Destroy, Heaps
<1>3. CASE e # Null /\ h.opCache[c].executorRepeatable /\ DecreaseReference(h.count, e) # 0
  BY <1>3 DEF Destroy, Heaps
<1>4. CASE e # Null /\ h.opCache[c].executorRepeatable /\ DecreaseReference(h.count, e) = 0
  BY <1>4 DEF Destroy, Heaps
<1> QED BY <1>1, <1>2, <1>3, <1>4

LEMMA DestroyPendingAlone ==
  ASSUME NEW h \in Heaps, NEW c \in Caches, WellFormed(h), NEW holding, NEW packs,
         PendingAlone(h, holding, packs)
  PROVE  PendingAlone(Destroy(h, c), holding, packs)
<1> DEFINE g == Destroy(h, c)
<1>1. \A d \in Caches : g.opCache[d] = h.opCache[d] \/ g.opCache[d] = EmptyCache
  BY DestroyShrinks
<1>2. \A x \in h.live \ g.live : h.opCache[c].executorRepeatable /\ h.opCache[c].aclExecutor = x
  BY DestroyShrinks
<1> HIDE DEF g
<1>3. ASSUME NEW op \in Ops, Pending(g, holding, packs, op)
      PROVE  /\ Pending(h, holding, packs, op)
             /\ ExecutorOf(g, holding, op) = ExecutorOf(h, holding, op)
  BY <1>1, <1>3 DEF PendingAlone, Pending, ExecutorOf, EmptyCache
<1>4. \A d \in Caches : g.opCache[d].executorRepeatable =>
        h.opCache[d].executorRepeatable /\ g.opCache[d] = h.opCache[d]
  BY <1>1 DEF EmptyCache
<1>5. ASSUME NEW op \in Ops, Pending(g, holding, packs, op)
      PROVE  /\ ExecutorOf(g, holding, op) \in g.live
             /\ \A d \in Caches : g.opCache[d].executorRepeatable =>
                  g.opCache[d].aclExecutor # ExecutorOf(g, holding, op)
  <2>1. Pending(h, holding, packs, op) /\ ExecutorOf(g, holding, op) = ExecutorOf(h, holding, op)
    BY <1>3, <1>5
  <2>2. /\ ExecutorOf(h, holding, op) \in h.live
        /\ \A d \in Caches : h.opCache[d].executorRepeatable =>
             h.opCache[d].aclExecutor # ExecutorOf(h, holding, op)
    BY <2>1 DEF PendingAlone
  <2> QED BY <1>2, <1>4, <2>1, <2>2
<1>6. ASSUME NEW o1 \in Ops, NEW o2 \in Ops,
             Pending(g, holding, packs, o1), Pending(g, holding, packs, o2),
             ExecutorOf(g, holding, o1) = ExecutorOf(g, holding, o2)
      PROVE  o1 = o2
  BY <1>3, <1>6 DEF PendingAlone
<1>7. \A op \in Ops : packs[op] # Null => holding[op] \in Caches BY DEF PendingAlone
<1>8. PendingAlone(g, holding, packs) BY <1>5, <1>6, <1>7 DEF PendingAlone
<1> QED BY <1>8 DEF g

(* Freeing what nothing refers to does not touch a pending operation.      *)
LEMMA ReclaimPendingAlone ==
  ASSUME NEW g, NEW holding, NEW packs, NEW globalCache, PendingAlone(g, holding, packs),
         NEW h, h.opCache = Reclaim(g.opCache, holding, globalCache), h.live = g.live
  PROVE  PendingAlone(h, holding, packs)
<1>1. \A op \in Ops : holding[op] \in Caches => h.opCache[holding[op]] = g.opCache[holding[op]]
  BY DEF Reclaim, Referenced
<1>2. \A d \in Caches : h.opCache[d].executorRepeatable =>
        g.opCache[d].executorRepeatable /\ h.opCache[d] = g.opCache[d]
  BY DEF Reclaim, EmptyCache
<1>3. ASSUME NEW op \in Ops, Pending(h, holding, packs, op)
      PROVE  /\ Pending(g, holding, packs, op)
             /\ ExecutorOf(h, holding, op) = ExecutorOf(g, holding, op)
  BY <1>1, <1>3 DEF PendingAlone, Pending, ExecutorOf
<1>4. ASSUME NEW op \in Ops, Pending(h, holding, packs, op)
      PROVE  /\ ExecutorOf(h, holding, op) \in h.live
             /\ \A d \in Caches : h.opCache[d].executorRepeatable =>
                  h.opCache[d].aclExecutor # ExecutorOf(h, holding, op)
  BY <1>2, <1>3, <1>4 DEF PendingAlone
<1>5. ASSUME NEW o1 \in Ops, NEW o2 \in Ops,
             Pending(h, holding, packs, o1), Pending(h, holding, packs, o2),
             ExecutorOf(h, holding, o1) = ExecutorOf(h, holding, o2)
      PROVE  o1 = o2
  BY <1>3, <1>5 DEF PendingAlone
<1>6. \A op \in Ops : packs[op] # Null => holding[op] \in Caches BY DEF PendingAlone
<1> QED BY <1>4, <1>5, <1>6 DEF PendingAlone

(* op turns to an object, or none, without having an executor pending.     *)
LEMMA TurnPendingAlone ==
  ASSUME NEW h, NEW holding \in [Ops -> Caches \cup {Null}],
         NEW packs \in [Ops -> Packs \cup {Null}], PendingAlone(h, holding, packs),
         NEW op \in Ops, NEW c \in Caches \cup {Null}, NEW p \in Packs \cup {Null},
         p # Null => c \in Caches /\ h.opCache[c].executorRepeatable
  PROVE  PendingAlone(h, [holding EXCEPT ![op] = c], [packs EXCEPT ![op] = p])
<1> DEFINE taken == [holding EXCEPT ![op] = c]
           newPacks == [packs EXCEPT ![op] = p]
<1>1. \A o \in Ops : newPacks[o] # Null => taken[o] \in Caches BY DEF PendingAlone
<1>2. ~Pending(h, taken, newPacks, op) BY DEF Pending
<1>3. ASSUME NEW o \in Ops, Pending(h, taken, newPacks, o)
      PROVE  Pending(h, holding, packs, o) /\ ExecutorOf(h, taken, o) = ExecutorOf(h, holding, o)
  <2>1. o # op BY <1>2, <1>3
  <2> QED BY <1>3, <2>1 DEF Pending, ExecutorOf
<1> HIDE DEF taken, newPacks
<1>4. PendingAlone(h, taken, newPacks) BY <1>1, <1>3 DEF PendingAlone
<1> QED BY <1>4 DEF taken, newPacks

LEMMA NextPendingAlone ==
  ASSUME NEW g, PendingAlone(g, aclnnOpCache', setupPack'),
         opCache' = Reclaim(g.opCache, aclnnOpCache', aclnnGlobalCache'), live' = g.live
  PROVE  PendingAlone(Heap, aclnnOpCache, setupPack)'
<1>1. Heap'.opCache = opCache' /\ Heap'.live = live' BY DEF Heap
<1>2. PendingAlone(Heap', aclnnOpCache', setupPack') BY <1>1, ReclaimPendingAlone
<1> QED BY <1>2 DEF PendingAlone, Pending, ExecutorOf

(* An object nobody holds may be filled with anything not repeatable.      *)
LEMMA OverwritePendingAlone ==
  ASSUME NEW g \in Heaps, NEW holding, NEW packs, PendingAlone(g, holding, packs),
         NEW c \in Caches, \A o \in Ops : holding[o] # c,
         NEW made, ~made.executorRepeatable,
         NEW h, h = [g EXCEPT !.opCache = [g.opCache EXCEPT ![c] = made]]
  PROVE  PendingAlone(h, holding, packs)
<1>1. h.live = g.live /\ h.opCache[c] = made BY DEF Heaps
<1>2. \A d \in Caches : d # c => h.opCache[d] = g.opCache[d] BY DEF Heaps
<1>3. ASSUME NEW op \in Ops, Pending(h, holding, packs, op)
      PROVE  /\ Pending(g, holding, packs, op)
             /\ ExecutorOf(h, holding, op) = ExecutorOf(g, holding, op)
  BY <1>2, <1>3 DEF PendingAlone, Pending, ExecutorOf
<1>4. ASSUME NEW op \in Ops, Pending(h, holding, packs, op)
      PROVE  /\ ExecutorOf(h, holding, op) \in h.live
             /\ \A d \in Caches : h.opCache[d].executorRepeatable =>
                  h.opCache[d].aclExecutor # ExecutorOf(h, holding, op)
  BY <1>1, <1>2, <1>3, <1>4 DEF PendingAlone
<1>5. ASSUME NEW o1 \in Ops, NEW o2 \in Ops,
             Pending(h, holding, packs, o1), Pending(h, holding, packs, o2),
             ExecutorOf(h, holding, o1) = ExecutorOf(h, holding, o2)
      PROVE  o1 = o2
  BY <1>3, <1>5 DEF PendingAlone
<1>6. \A op \in Ops : packs[op] # Null => holding[op] \in Caches BY DEF PendingAlone
<1> QED BY <1>4, <1>5, <1>6 DEF PendingAlone

(* op gets a new executor: its address is that of no live one.             *)
LEMMA CreatePendingAlone ==
  ASSUME NEW g \in Heaps, WellFormed(g), NEW holding \in [Ops -> Caches \cup {Null}],
         NEW packs \in [Ops -> Packs \cup {Null}], PendingAlone(g, holding, packs),
         NEW op \in Ops, NEW c \in Caches, \A o \in Ops : holding[o] # c,
         NEW p \in Packs, NEW e \in Executors \ g.live, NEW made, made.aclExecutor = e,
         NEW h, h.opCache = [g.opCache EXCEPT ![c] = made], h.live = g.live \cup {e}
  PROVE  PendingAlone(h, [holding EXCEPT ![op] = c], [packs EXCEPT ![op] = p])
<1> DEFINE taken == [holding EXCEPT ![op] = c]
           newPacks == [packs EXCEPT ![op] = p]
<1>1. h.opCache[c] = made /\ \A d \in Caches : d # c => h.opCache[d] = g.opCache[d] BY DEF Heaps
<1>2. taken[op] = c /\ \A o \in Ops : o # op => taken[o] = holding[o] /\ newPacks[o] = packs[o]
  OBVIOUS
<1>3. \A o \in Ops : newPacks[o] # Null => taken[o] \in Caches BY DEF PendingAlone
<1> HIDE DEF taken, newPacks
<1>4. ASSUME NEW o \in Ops, Pending(h, taken, newPacks, o), o # op
      PROVE  /\ Pending(g, holding, packs, o)
             /\ ExecutorOf(h, taken, o) = ExecutorOf(g, holding, o)
  <2>1. packs[o] # Null /\ holding[o] \in Caches BY <1>2, <1>4 DEF Pending, PendingAlone
  <2>2. h.opCache[holding[o]] = g.opCache[holding[o]] BY <1>1, <2>1
  <2> QED BY <1>2, <1>4, <2>1, <2>2 DEF Pending, ExecutorOf
<1>5. ExecutorOf(h, taken, op) = e BY <1>1, <1>2 DEF ExecutorOf
<1>6. \A d \in Caches : g.opCache[d].executorRepeatable => g.opCache[d].aclExecutor \in g.live
  BY DEF WellFormed, OwnsExecutor
<1>7. ASSUME NEW o \in Ops, Pending(h, taken, newPacks, o)
      PROVE  /\ ExecutorOf(h, taken, o) \in h.live
             /\ \A d \in Caches : h.opCache[d].executorRepeatable =>
                  h.opCache[d].aclExecutor # ExecutorOf(h, taken, o)
  <2>1. CASE o = op
    <3>1. ~made.executorRepeatable BY <1>1, <1>2, <1>7, <2>1 DEF Pending
    <3> QED BY <1>1, <1>5, <1>6, <2>1, <3>1
  <2>2. CASE o # op
    <3>1. /\ Pending(g, holding, packs, o)
          /\ ExecutorOf(h, taken, o) = ExecutorOf(g, holding, o)
      BY <1>4, <1>7, <2>2
    <3>2. /\ ExecutorOf(g, holding, o) \in g.live
          /\ \A d \in Caches : g.opCache[d].executorRepeatable =>
               g.opCache[d].aclExecutor # ExecutorOf(g, holding, o)
      BY <3>1 DEF PendingAlone
    <3> QED BY <1>1, <3>1, <3>2
  <2> QED BY <2>1, <2>2
<1>8. ASSUME NEW o1 \in Ops, NEW o2 \in Ops,
             Pending(h, taken, newPacks, o1), Pending(h, taken, newPacks, o2),
             ExecutorOf(h, taken, o1) = ExecutorOf(h, taken, o2)
      PROVE  o1 = o2
  <2>1. ASSUME NEW o \in Ops, Pending(h, taken, newPacks, o), o # op
        PROVE  ExecutorOf(h, taken, o) \in g.live
    BY <1>4, <2>1 DEF PendingAlone
  <2>2. CASE o1 = op \/ o2 = op BY <1>5, <1>8, <2>1, <2>2
  <2>3. CASE o1 # op /\ o2 # op BY <1>4, <1>8, <2>3 DEF PendingAlone
  <2> QED BY <2>2, <2>3
<1>9. PendingAlone(h, taken, newPacks) BY <1>3, <1>7, <1>8 DEF PendingAlone
<1> QED BY <1>9 DEF taken, newPacks

-----------------------------------------------------------------------------
Inv == IInv /\ PendingAlone(Heap, aclnnOpCache, setupPack)

(* What every step lemma below starts from.                                *)
LEMMA Types ==
  ASSUME IInv
  PROVE  /\ Heap \in Heaps /\ WellFormed(Heap)
         /\ aclnnOpCache \in [Ops -> Caches \cup {Null}]
         /\ setupPack \in [Ops -> Packs \cup {Null}]
BY HeapType DEF IInv, TypeOK

(* Execute takes the executor it releases from nobody.                     *)
LEMMA ExecuteInv ==
  ASSUME Inv, NEW op \in Ops, Execute(op)
  PROVE  Inv'
<1> DEFINE c == opCache[aclnnOpCache[op]]
<1>0. /\ UNCHANGED <<aclnnOpCache, opCache, executorCount, aclnnGlobalCache, nextUpdateIndex>>
      /\ setupPack' = [setupPack EXCEPT ![op] = Null]
      /\ live' = IF c.executorRepeatable THEN live ELSE live \ {c.aclExecutor}
  BY DEF Execute
<1>1. Heap \in Heaps /\ WellFormed(Heap) /\ setupPack \in [Ops -> Packs \cup {Null}]
  BY Types DEF Inv
<1>2. Heap'.opCache = Heap.opCache /\ Heap'.count = Heap.count /\ Heap'.live = live'
  BY <1>0 DEF Heap
<1>3. \A d \in Caches : Heap.opCache[d].executorRepeatable => Heap.opCache[d].aclExecutor \in live'
  <2>1. SUFFICES ASSUME NEW d \in Caches, Heap.opCache[d].executorRepeatable,
                        ~c.executorRepeatable
                 PROVE  Heap.opCache[d].aclExecutor # c.aclExecutor
    BY <1>0, <1>1 DEF WellFormed, OwnsExecutor, Heap
  <2>2. Heap.opCache[d].aclExecutor # Null
    BY <1>1, <2>1, NullAssumption DEF WellFormed, OwnsExecutor, Heaps
  <2>3. CASE c.aclExecutor = Null BY <2>2, <2>3
  <2>4. CASE c.aclExecutor # Null
    <3>1. Pending(Heap, aclnnOpCache, setupPack, op)
      BY <2>1, <2>4 DEF Pending, Heap, Execute
    <3> QED BY <2>1, <3>1 DEF Inv, PendingAlone, ExecutorOf, Heap
  <2> QED BY <2>3, <2>4
<1>4. WellFormed(Heap') BY <1>1, <1>2, <1>3 DEF WellFormed, OwnsExecutor
<1>5. WellFormed(Heap)' BY <1>4 DEF WellFormed, OwnsExecutor
<1>6. CountsHolders(Heap, aclnnOpCache)'
  BY <1>0, <1>2 DEF Inv, IInv, CountsHolders, HoldersIn
<1>7. TypeOK' BY <1>0, <1>1 DEF Inv, IInv, TypeOK
<1>8. ASSUME NEW o \in Ops, Pending(Heap', aclnnOpCache', setupPack', o)
      PROVE  /\ o # op
             /\ Pending(Heap, aclnnOpCache, setupPack, o)
             /\ ExecutorOf(Heap', aclnnOpCache', o) = ExecutorOf(Heap, aclnnOpCache, o)
  BY <1>0, <1>1, <1>2, <1>8 DEF Pending, ExecutorOf
<1>9. ASSUME NEW o \in Ops, Pending(Heap', aclnnOpCache', setupPack', o)
      PROVE  ExecutorOf(Heap, aclnnOpCache, o) \in live'
  <2>1. SUFFICES ASSUME ~c.executorRepeatable
                 PROVE  ExecutorOf(Heap, aclnnOpCache, o) # c.aclExecutor
    BY <1>0, <1>8, <1>9 DEF Inv, PendingAlone, Heap
  <2>2. CASE c.aclExecutor = Null BY <1>8, <1>9, <2>2 DEF Pending, ExecutorOf
  <2>3. CASE c.aclExecutor # Null
    <3>1. Pending(Heap, aclnnOpCache, setupPack, op)
      BY <2>1, <2>3 DEF Pending, Heap, Execute
    <3>2. ExecutorOf(Heap, aclnnOpCache, op) = c.aclExecutor BY DEF ExecutorOf, Heap
    <3> QED BY <1>8, <1>9, <3>1, <3>2 DEF Inv, PendingAlone
  <2> QED BY <2>2, <2>3
<1>10. \A o \in Ops : setupPack'[o] # Null => aclnnOpCache'[o] \in Caches
  BY <1>0, <1>1 DEF Inv, PendingAlone
<1>11. PendingAlone(Heap', aclnnOpCache', setupPack')
  BY <1>2, <1>8, <1>9, <1>10 DEF Inv, PendingAlone
<1>12. PendingAlone(Heap, aclnnOpCache, setupPack)' BY <1>11 DEF PendingAlone, Pending, ExecutorOf
<1> QED BY <1>5, <1>6, <1>7, <1>12 DEF Inv, IInv

LEMMA ConstructPending ==
  ASSUME Inv, NEW op \in Ops, Construct(op)
  PROVE  PendingAlone(Heap, aclnnOpCache, setupPack)'
<1>1. Heap' = Heap BY DEF Construct, Heap
<1>2. /\ FreshCache \in Caches
      /\ aclnnOpCache' = [aclnnOpCache EXCEPT ![op] = FreshCache]
      /\ setupPack' = setupPack
  BY FreshCacheIsFree DEF Construct
<1>3. setupPack[op] = Null BY NullAssumption DEF Construct, Inv, PendingAlone
<1>4. setupPack' = [setupPack EXCEPT ![op] = Null] BY <1>2, <1>3, Types DEF Inv
<1>5. /\ aclnnOpCache \in [Ops -> Caches \cup {Null}]
      /\ setupPack \in [Ops -> Packs \cup {Null}]
  BY DEF Inv, IInv, TypeOK
<1>6. PendingAlone(Heap, aclnnOpCache, setupPack) BY DEF Inv
<1> HIDE DEF Inv
<1>7. PendingAlone(Heap, [aclnnOpCache EXCEPT ![op] = FreshCache],
                         [setupPack EXCEPT ![op] = Null])
  BY <1>2, <1>5, <1>6, TurnPendingAlone
<1>8. PendingAlone(Heap, aclnnOpCache', setupPack') BY <1>2, <1>4, <1>7
<1> QED BY <1>1, <1>8 DEF PendingAlone, Pending, ExecutorOf

LEMMA SetupLocalHitPending ==
  ASSUME Inv, NEW op \in Ops, NEW p \in Packs, SetupLocalHit(op, p)
  PROVE  PendingAlone(Heap, aclnnOpCache, setupPack)'
<1> DEFINE c == aclnnOpCache[op]
<1>1. Heap' = Heap /\ aclnnOpCache' = aclnnOpCache BY DEF SetupLocalHit, Heap
<1>2. c \in Caches /\ Heap.opCache[c].executorRepeatable
  BY Types DEF Inv, SetupLocalHit, Hit, Heap
<1>3. aclnnOpCache' = [aclnnOpCache EXCEPT ![op] = c] BY <1>1, Types DEF Inv
<1>4. setupPack' = [setupPack EXCEPT ![op] = p] BY DEF SetupLocalHit
<1> HIDE DEF c
<1>5. PendingAlone(Heap, aclnnOpCache', setupPack')
  BY <1>2, <1>3, <1>4, Types, TurnPendingAlone DEF Inv
<1> QED BY <1>1, <1>5 DEF PendingAlone, Pending, ExecutorOf

LEMMA SetupGlobalHitPending ==
  ASSUME Inv, NEW op \in Ops, NEW p \in Packs, SetupGlobalHit(op, p)
  PROVE  PendingAlone(Heap, aclnnOpCache, setupPack)'
<1> DEFINE own   == aclnnOpCache[op]
           found == FirstHit(OpName(op), p)
           g     == Destroy(Heap, own)
<1>0. /\ own # Null
      /\ aclnnOpCache' = [aclnnOpCache EXCEPT ![op] = found]
      /\ live' = g.live
      /\ opCache' = Reclaim(g.opCache, aclnnOpCache', aclnnGlobalCache')
      /\ setupPack' = [setupPack EXCEPT ![op] = p]
  BY DEF SetupGlobalHit
<1>1. own \in Caches BY <1>0, Types DEF Inv
<1>2. found \in Caches /\ Hit(found, p)
  <2>1. OpName(op) \in Names BY DEF Names
  <2> QED BY <2>1, FirstHitFits DEF SetupGlobalHit, Inv, IInv
<1>3. found # own BY <1>2 DEF SetupGlobalHit
<1>4. g.opCache[found].executorRepeatable
  BY <1>1, <1>2, <1>3, Types, DestroyFrame DEF Hit, Heap, Inv
<1>5. PendingAlone(g, aclnnOpCache, setupPack) BY <1>1, Types, DestroyPendingAlone DEF Inv
<1> HIDE DEF g, own, found
<1>6. PendingAlone(g, aclnnOpCache', setupPack')
  BY <1>0, <1>2, <1>4, <1>5, Types, TurnPendingAlone DEF Inv
<1> QED BY <1>0, <1>6, NextPendingAlone

LEMMA SetupCreatePending ==
  ASSUME Inv, NEW op \in Ops, NEW p \in Packs, SetupCreate(op, p)
  PROVE  PendingAlone(Heap, aclnnOpCache, setupPack)'
<1> DEFINE c == FreshCache
           g == Destroy(Heap, aclnnOpCache[op])
<1>0. FreshCaches # {} /\ aclnnOpCache[op] # Null BY DEF SetupCreate, Miss
<1>1. PICK e \in Executors \ g.live, repeatable \in BOOLEAN :
        /\ aclnnOpCache' = [aclnnOpCache EXCEPT ![op] = c]
        /\ live' = g.live \cup {e}
        /\ opCache' = Reclaim([g.opCache EXCEPT
                                 ![c] = [aclExecutor |-> e, executorRepeatable |-> repeatable,
                                         pack |-> p, kind |-> OpKind(op)]],
                              aclnnOpCache', aclnnGlobalCache')
  BY DEF SetupCreate
<1> DEFINE made == [aclExecutor |-> e, executorRepeatable |-> repeatable,
                    pack |-> p, kind |-> OpKind(op)]
           h == [opCache |-> [g.opCache EXCEPT ![c] = made], live |-> g.live \cup {e}]
<1>2. c \in Caches /\ \A o \in Ops : aclnnOpCache[o] # c BY <1>0, FreshCacheIsFree
<1>3. g \in Heaps /\ WellFormed(g) BY <1>0, Release DEF Inv
<1>4. PendingAlone(g, aclnnOpCache, setupPack)
  BY <1>0, Types, DestroyPendingAlone DEF Inv
<1>5. setupPack' = [setupPack EXCEPT ![op] = p] BY DEF SetupCreate
<1>6. made.aclExecutor = e OBVIOUS
<1>7. h.opCache = [g.opCache EXCEPT ![c] = made] /\ h.live = g.live \cup {e} OBVIOUS
<1>8. opCache' = Reclaim(h.opCache, aclnnOpCache', aclnnGlobalCache') /\ live' = h.live
  BY <1>1, <1>7
<1>9. aclnnOpCache' = [aclnnOpCache EXCEPT ![op] = c] BY <1>1
<1> HIDE DEF g, c, made, h
<1>10. PendingAlone(h, aclnnOpCache', setupPack')
  BY <1>2, <1>3, <1>4, <1>5, <1>6, <1>7, <1>9, Types, CreatePendingAlone DEF Inv
<1> QED BY <1>8, <1>10, NextPendingAlone

LEMMA SetupFailPending ==
  ASSUME Inv, NEW op \in Ops, NEW p \in Packs, SetupFail(op, p)
  PROVE  PendingAlone(Heap, aclnnOpCache, setupPack)'
<1> DEFINE c == FreshCache
           given == Destroy(Heap, aclnnOpCache[op])
           made == [given.opCache[c] EXCEPT !.pack = p, !.kind = OpKind(op)]
           partial == [given EXCEPT !.opCache[c].pack = p, !.opCache[c].kind = OpKind(op)]
           g == Destroy(partial, c)
<1>0. /\ FreshCaches # {}
      /\ aclnnOpCache[op] # Null
      /\ aclnnOpCache' = [aclnnOpCache EXCEPT ![op] = c]
      /\ live' = g.live
      /\ opCache' = Reclaim(g.opCache, aclnnOpCache', aclnnGlobalCache')
      /\ setupPack' = [setupPack EXCEPT ![op] = Null]
  BY DEF SetupFail, Miss
<1>1. c \in Caches /\ \A o \in Ops : aclnnOpCache[o] # c BY <1>0, FreshCacheIsFree
<1>2. given \in Heaps /\ WellFormed(given) /\ CountsOthers(given, aclnnOpCache, op)
  BY <1>0, Release DEF Inv
<1>3. PendingAlone(given, aclnnOpCache, setupPack) BY <1>0, Types, DestroyPendingAlone DEF Inv
<1>4. ~given.opCache[c].executorRepeatable BY <1>1, <1>2, FreeNotRepeatable
<1>5. given.opCache[c] \in CacheContents BY <1>1, <1>2 DEF Heaps
<1>6. made \in CacheContents /\ ~made.executorRepeatable BY <1>4, <1>5 DEF CacheContents
<1>7. partial = [given EXCEPT !.opCache = [given.opCache EXCEPT ![c] = made]]
  BY <1>1, <1>2, <1>5 DEF Heaps, CacheContents
<1> HIDE DEF given, made, c
<1>8. partial \in Heaps /\ WellFormed(partial)
  BY <1>1, <1>2, <1>4, <1>6, <1>7, OverwriteHeap
<1>9. PendingAlone(partial, aclnnOpCache, setupPack)
  BY <1>1, <1>2, <1>3, <1>6, <1>7, OverwritePendingAlone
<1> HIDE DEF partial
<1>10. PendingAlone(g, aclnnOpCache, setupPack) BY <1>1, <1>8, <1>9, DestroyPendingAlone
<1> HIDE DEF g
<1>11. PendingAlone(g, aclnnOpCache', setupPack')
  BY <1>0, <1>1, <1>10, Types, TurnPendingAlone DEF Inv
<1> QED BY <1>0, <1>11, NextPendingAlone

LEMMA ExecuteFailInv ==
  ASSUME Inv, NEW op \in Ops, ExecuteFail(op)
  PROVE  Inv'
<1> DEFINE c == aclnnOpCache[op]
<1>1. Heap' = Heap BY DEF ExecuteFail, Heap
<1>2. UNCHANGED <<aclnnOpCache, opCache, executorCount, aclnnGlobalCache, nextUpdateIndex, live>>
  BY DEF ExecuteFail
<1>3. setupPack' = [setupPack EXCEPT ![op] = Null] /\ setupPack' \in [Ops -> Packs \cup {Null}]
  BY Types DEF ExecuteFail, Inv
<1>4. aclnnOpCache' = [aclnnOpCache EXCEPT ![op] = c] /\ c \in Caches \cup {Null}
  BY <1>2, Types DEF Inv
<1> HIDE DEF c
<1>5. PendingAlone(Heap, aclnnOpCache', setupPack')
  BY <1>3, <1>4, Types, TurnPendingAlone DEF Inv
<1>6. PendingAlone(Heap, aclnnOpCache, setupPack)'
  BY <1>1, <1>5 DEF PendingAlone, Pending, ExecutorOf
<1>7. TypeOK' BY <1>2, <1>3 DEF Inv, IInv, TypeOK
<1>8. WellFormed(Heap)' BY <1>1 DEF Inv, IInv, WellFormed, OwnsExecutor
<1>9. CountsHolders(Heap, aclnnOpCache)' BY <1>1, <1>2 DEF Inv, IInv, CountsHolders, HoldersIn
<1> QED BY <1>6, <1>7, <1>8, <1>9 DEF Inv, IInv

LEMMA DestructPending ==
  ASSUME Inv, NEW op \in Ops, Destruct(op)
  PROVE  PendingAlone(Heap, aclnnOpCache, setupPack)'
<1> DEFINE c    == aclnnOpCache[op]
           once == Destroy(Heap, c)
           g    == IF op \in DoubleDestroyOps THEN Destroy(once, c) ELSE once
<1>0. /\ c # Null
      /\ aclnnOpCache' = [aclnnOpCache EXCEPT ![op] = Null]
      /\ live' = g.live
      /\ opCache' = Reclaim(g.opCache, aclnnOpCache', aclnnGlobalCache')
      /\ setupPack' = [setupPack EXCEPT ![op] = Null]
  BY DEF Destruct
<1>1. c \in Caches /\ once \in Heaps /\ WellFormed(once) BY <1>0, Release DEF Inv
<1>2. PendingAlone(once, aclnnOpCache, setupPack) BY <1>1, Types, DestroyPendingAlone DEF Inv
<1> HIDE DEF once
<1>3. PendingAlone(g, aclnnOpCache, setupPack)
  <2>1. CASE op \in DoubleDestroyOps BY <1>1, <1>2, <2>1, DestroyPendingAlone
  <2>2. CASE op \notin DoubleDestroyOps BY <1>2, <2>2
  <2> QED BY <2>1, <2>2
<1> HIDE DEF g
<1>4. PendingAlone(g, aclnnOpCache', setupPack') BY <1>0, <1>3, Types, TurnPendingAlone DEF Inv
<1> QED BY <1>0, <1>4, NextPendingAlone

LEMMA InitPending == Init => PendingAlone(Heap, aclnnOpCache, setupPack)
BY DEF Init, PendingAlone, Pending

LEMMA StutterInv ==
  ASSUME Inv, UNCHANGED vars
  PROVE  Inv'
<1>1. Heap' = Heap /\ aclnnOpCache' = aclnnOpCache /\ setupPack' = setupPack
  BY DEF vars, Heap
<1>2. TypeOK' BY DEF vars, Inv, IInv, TypeOK
<1>3. WellFormed(Heap)' BY <1>1 DEF Inv, IInv, WellFormed, OwnsExecutor
<1>4. CountsHolders(Heap, aclnnOpCache)' BY <1>1 DEF Inv, IInv, CountsHolders, HoldersIn
<1>5. PendingAlone(Heap, aclnnOpCache, setupPack)'
  BY <1>1 DEF Inv, PendingAlone, Pending, ExecutorOf
<1> QED BY <1>2, <1>3, <1>4, <1>5 DEF Inv, IInv

LEMMA NextInv == Inv /\ [Next]_vars => Inv'
<1> SUFFICES ASSUME Inv, [Next]_vars PROVE Inv' OBVIOUS
<1>0. IInv BY DEF Inv
<1>1. ASSUME NEW op \in Ops, Construct(op) PROVE Inv'
  BY <1>0, <1>1, ConstructInv, ConstructPending DEF Inv
<1>2. ASSUME NEW op \in Ops, NEW p \in Packs, Setup(op, p) PROVE Inv'
  <2>1. CASE SetupLocalHit(op, p)
    BY <1>0, <2>1, SetupLocalHitInv, SetupLocalHitPending DEF Inv
  <2>2. CASE SetupGlobalHit(op, p)
    BY <1>0, <2>2, SetupGlobalHitInv, SetupGlobalHitPending DEF Inv
  <2>3. CASE SetupCreate(op, p)
    BY <1>0, <2>3, SetupCreateInv, SetupCreatePending DEF Inv
  <2>4. CASE SetupFail(op, p)
    BY <1>0, <2>4, SetupFailInv, SetupFailPending DEF Inv
  <2> QED BY <1>2, <2>1, <2>2, <2>3, <2>4 DEF Setup
<1>3. ASSUME NEW op \in Ops, Execute(op) PROVE Inv' BY <1>3, ExecuteInv
<1>4. ASSUME NEW op \in Ops, ExecuteFail(op) PROVE Inv' BY <1>4, ExecuteFailInv
<1>5. ASSUME NEW op \in Ops, Destruct(op) PROVE Inv'
  BY <1>0, <1>5, DestructInv, DestructPending DEF Inv
<1>6. CASE UNCHANGED vars BY <1>6, StutterInv
<1> QED BY <1>1, <1>2, <1>3, <1>4, <1>5, <1>6 DEF Next

\* The executor cache is well formed, counts its holders, and a pending operation shares no executor
\* that is not repeatable.
THEOREM Invariance == Spec => []Inv
<1>1. Init => Inv BY InitInv, InitPending DEF Inv
<1> QED BY <1>1, NextInv, PTL DEF Spec

-----------------------------------------------------------------------------
(* The state of the executor cache has its type in every reachable state.  *)
THEOREM TypeCorrect == Spec => []TypeOK
<1>1. Inv => TypeOK BY DEF Inv, IInv
<1> QED BY <1>1, Invariance, PTL

(* A lookup, in the local or the global cache, only ever hits a live       *)
(* executor that belongs to the object found: for any operations, even     *)
(* those that destroy their cache twice.                                   *)
THEOREM LookupSafe == Spec => []HitIsLiveAndUnique
<1>1. Inv => HitIsLiveAndUnique
  BY DEF Inv, IInv, WellFormed, OwnsExecutor, HitIsLiveAndUnique, Shared, Heap
<1> QED BY <1>1, Invariance, PTL

(* What is counted is held.                                                *)
LEMMA CountedIsHeld ==
  ASSUME Inv, NEW e \in Executors, executorCount[e] > 0
  PROVE  e \in live /\ HoldersOf(e) # {}
<1>1. Heap \in Heaps /\ WellFormed(Heap) BY Types DEF Inv
<1>2. PICK c \in Caches : Heap.opCache[c].executorRepeatable /\ Heap.opCache[c].aclExecutor = e
  BY <1>1 DEF WellFormed, Heap
<1>3. Heap.count[e] \in Nat /\ Heap.count[e] > 0 /\ e \in live
  BY <1>1, <1>2 DEF WellFormed, OwnsExecutor, Heaps, Heap
<1>4. Heap.count[e] <= Cardinality(HoldersIn(aclnnOpCache, c))
  BY <1>2 DEF Inv, IInv, CountsHolders, Counted
<1>5. Cardinality(HoldersIn(aclnnOpCache, c)) # 0 BY <1>3, <1>4, HoldersFinite
<1>6. HoldersIn(aclnnOpCache, c) # {} BY <1>5, FS_EmptySet
<1>7. PICK op \in Ops : aclnnOpCache[op] = c BY <1>6 DEF HoldersIn
<1>8. op \in HoldersOf(e) BY <1>2, <1>7, NullAssumption DEF HoldersOf, Shared, Heap
<1> QED BY <1>3, <1>8

(* An executor that is counted is live and held: none is leaked, whatever  *)
(* the destructors do.                                                     *)
THEOREM NoLeak == Spec => []NoSharedExecutorLeak
<1>1. Inv => NoSharedExecutorLeak BY CountedIsHeld DEF NoSharedExecutorLeak
<1> QED BY <1>1, Invariance, PTL

(* When no destructor destroys twice, an executor is counted once for each *)
(* operation that holds it.                                                *)
THEOREM CountCorrect ==
  ASSUME DoubleDestroyOps = {}
  PROVE  Spec => []CountIsHolders
<1>1. Inv => CountIsHolders
  BY DEF Inv, IInv, CountsHolders, Counted, CountIsHolders, Shared, Holders, HoldersIn, Heap
<1> QED BY <1>1, Invariance, PTL

-----------------------------------------------------------------------------
(***************************************************************************)
(* What an operation that is set up finds when it executes, and that the   *)
(* executor cache implements SharedExecutors.  Both rest on one fact: as   *)
(* long as no destructor destroys twice, a step of one operation never     *)
(* alters what another one holds (OthersKeep).                             *)
(***************************************************************************)

Held(op) == opCache[aclnnOpCache[op]]
Entries(n) == {aclnnGlobalCache[n][i] : i \in DOMAIN aclnnGlobalCache[n]}

(* What make_shared returns is empty.                                      *)
FreeIsEmpty ==
  \A c \in Caches : c \notin Referenced(aclnnOpCache, aclnnGlobalCache) => opCache[c] = EmptyCache

(* An executor that is not repeatable has one holder.                      *)
Unshared ==
  \A o1, o2 \in Ops :
    /\ aclnnOpCache[o1] # Null
    /\ aclnnOpCache[o1] = aclnnOpCache[o2]
    /\ Held(o1).aclExecutor # Null
    /\ ~Held(o1).executorRepeatable
    => o1 = o2

(* Operations and the lists of the global cache hold executors of their    *)
(* own kind.                                                               *)
OfKind(contents, op) == contents.aclExecutor # Null => contents.kind = OpKind(op)
KindsFit ==
  NameFixesKind =>
    \A op \in Ops :
      /\ aclnnOpCache[op] # Null => OfKind(Held(op), op)
      /\ \A c \in Entries(OpName(op)) : OfKind(opCache[c], op)

(* An operation that is set up has what it was set up with.                *)
Ready ==
  \A op \in Ops : setupPack[op] # Null =>
    Held(op).aclExecutor # Null /\ Held(op).pack = setupPack[op]

FitInv == Inv /\ FreeIsEmpty /\ Unshared /\ KindsFit /\ Ready

-----------------------------------------------------------------------------
(* A step of op, as far as it matters here: it leaves the others alone ... *)
OthersKeep(op) ==
  \A o \in Ops \ {op} :
    /\ aclnnOpCache'[o] = aclnnOpCache[o]
    /\ setupPack'[o] = setupPack[o]
    /\ aclnnOpCache[o] # Null => Held(o)' = Held(o)

(* ... and op keeps its executor, has none, shares one of its list, or has *)
(* a new one to itself.                                                    *)
Keeps(op)   == aclnnOpCache'[op] = aclnnOpCache[op] /\ Held(op)' = Held(op)
HasNone(op) == aclnnOpCache'[op] = Null \/ Held(op)'.aclExecutor = Null
Shares(op)  == \E c \in Entries(OpName(op)) :
                 /\ aclnnOpCache'[op] = c
                 /\ opCache'[c] = opCache[c]
                 /\ opCache[c].executorRepeatable
IsMade(op)  == /\ \A o \in Ops \ {op} : aclnnOpCache[o] # aclnnOpCache'[op]
               /\ Held(op)'.kind = OpKind(op)

(* The lists take what op has made, and nothing else; what is in them is   *)
(* left alone or emptied.                                                  *)
ListsKeep(op) ==
  \A n \in Names : \A c \in Entries(n)' :
    \/ c \in Entries(n) /\ opCache'[c] \in {opCache[c], EmptyCache}
    \/ n = OpName(op) /\ opCache'[c].kind = OpKind(op)

StepOf(op) ==
  /\ OthersKeep(op)
  /\ Keeps(op) \/ HasNone(op) \/ Shares(op) \/ IsMade(op)
  /\ setupPack'[op] # Null =>
       Held(op)'.aclExecutor # Null /\ Held(op)'.pack = setupPack'[op]
  /\ ListsKeep(op)
  /\ FreeIsEmpty'

LEMMA StepKeepsFit ==
  ASSUME FitInv, Inv', NEW op \in Ops, StepOf(op)
  PROVE  FitInv'
<1>1. Unshared'
  <2> SUFFICES ASSUME NEW o1 \in Ops, NEW o2 \in Ops,
                      aclnnOpCache'[o1] # Null, aclnnOpCache'[o1] = aclnnOpCache'[o2],
                      Held(o1)'.aclExecutor # Null, ~Held(o1)'.executorRepeatable,
                      o1 # o2
               PROVE  FALSE
    BY DEF Unshared
  <2>1. PICK o \in Ops \ {op} : /\ aclnnOpCache'[o] = aclnnOpCache'[op] \/ op \notin {o1, o2}
                                /\ o \in {o1, o2}
    OBVIOUS
  <2>2. Held(o1)' = Held(o2)'
    BY DEF Held
  <2>3. CASE op \notin {o1, o2}
    BY <2>3 DEF StepOf, OthersKeep, FitInv, Unshared
  <2>4. CASE op \in {o1, o2}
    <3>1. /\ aclnnOpCache'[o] = aclnnOpCache[o]
          /\ aclnnOpCache[o] = aclnnOpCache'[op]
          /\ Held(op)' = Held(o)
          /\ Held(op)' = Held(o1)'
          /\ aclnnOpCache[o] # Null
      BY <2>1, <2>4 DEF StepOf, OthersKeep, Held
    <3>2. ~HasNone(op) /\ ~IsMade(op)
      BY <2>1, <2>4, <3>1 DEF HasNone, IsMade
    <3>3. ~Shares(op)
      BY <3>1 DEF Shares, Held
    <3>4. Keeps(op)
      BY <3>2, <3>3 DEF StepOf
    <3>5. aclnnOpCache[op] = aclnnOpCache[o] /\ Held(op) = Held(o)
      BY <3>1, <3>4 DEF Keeps
    <3> QED
      BY <2>1, <3>1, <3>5 DEF FitInv, Unshared
  <2> QED
    BY <2>3, <2>4
<1>2. KindsFit'
  <2> SUFFICES ASSUME NameFixesKind, NEW o \in Ops
               PROVE  /\ aclnnOpCache'[o] # Null => OfKind(Held(o)', o)
                      /\ \A c \in Entries(OpName(o))' : OfKind(opCache'[c], o)
    BY DEF KindsFit, OfKind
  <2>1. /\ aclnnOpCache[o] # Null => OfKind(Held(o), o)
        /\ \A c \in Entries(OpName(o)) : OfKind(opCache[c], o)
    BY DEF FitInv, KindsFit
  <2>2. aclnnOpCache'[o] # Null => OfKind(Held(o)', o)
    <3>1. CASE o # op
      BY <2>1, <3>1 DEF StepOf, OthersKeep
    <3>2. CASE o = op
      BY <2>1, <3>2 DEF StepOf, Keeps, HasNone, Shares, IsMade, OfKind, Held
    <3> QED
      BY <3>1, <3>2
  <2>3. ASSUME NEW c \in Entries(OpName(o))'
        PROVE  OfKind(opCache'[c], o)
    <3>1. OpName(o) \in Names
      BY DEF Names
    <3>2. CASE c \in Entries(OpName(o)) /\ opCache'[c] \in {opCache[c], EmptyCache}
      BY <2>1, <3>2 DEF OfKind, EmptyCache
    <3>3. CASE OpName(o) = OpName(op) /\ opCache'[c].kind = OpKind(op)
      BY <3>3 DEF NameFixesKind, OfKind
    <3> QED
      BY <2>3, <3>1, <3>2, <3>3 DEF StepOf, ListsKeep
  <2> QED
    BY <2>2, <2>3
<1>3. Ready'
  <2> SUFFICES ASSUME NEW o \in Ops, setupPack'[o] # Null
               PROVE  Held(o)'.aclExecutor # Null /\ Held(o)'.pack = setupPack'[o]
    BY DEF Ready
  <2>1. CASE o = op
    BY <2>1 DEF StepOf
  <2>2. CASE o # op
    <3>1. aclnnOpCache[o] # Null
      BY <2>2, NullAssumption DEF StepOf, OthersKeep, FitInv, Inv, PendingAlone
    <3> QED
      BY <2>2, <3>1 DEF StepOf, OthersKeep, FitInv, Ready
  <2> QED
    BY <2>1, <2>2
<1> QED
  BY <1>1, <1>2, <1>3 DEF FitInv, StepOf

-----------------------------------------------------------------------------
(* Destroy by op does not alter what another operation holds: an executor  *)
(* that is not repeatable has no second holder, and a repeatable one is    *)
(* counted for both.                                                       *)
LEMMA DestroyKeepsOthers ==
  ASSUME FitInv, DoubleDestroyOps = {}, NEW op \in Ops, aclnnOpCache[op] # Null,
         NEW o \in Ops \ {op}, aclnnOpCache[o] # Null
  PROVE  Destroy(Heap, aclnnOpCache[op]).opCache[aclnnOpCache[o]] = Held(o)
<1> DEFINE c == aclnnOpCache[op]
           d == aclnnOpCache[o]
           e == Heap.opCache[c].aclExecutor
<1>0. /\ Heap \in Heaps /\ WellFormed(Heap)
      /\ c \in Caches /\ d \in Caches
      /\ Heap.opCache[d] = Held(o)
      /\ Heap.opCache = opCache
  BY Types DEF FitInv, Inv, Held, Heap
<1>1. CASE d # c
  BY <1>0, <1>1, DestroyFrame
<1>2. CASE d = c /\ e = Null
  BY <1>0, <1>2 DEF Destroy
<1>3. CASE d = c /\ e # Null
  <2>1. Heap.opCache[c].executorRepeatable
    BY <1>0, <1>3 DEF FitInv, Unshared, Held
  <2>2. Counted(Heap.count[e], HoldersIn(aclnnOpCache, c))
    BY <1>0, <2>1 DEF FitInv, Inv, IInv, CountsHolders
  <2>3. Heap.count[e] = Cardinality(HoldersIn(aclnnOpCache, c))
    BY <2>2 DEF Counted
  <2>4. o \in HoldersIn(aclnnOpCache, c) \ {op} /\ op \in HoldersIn(aclnnOpCache, c)
    BY <1>3 DEF HoldersIn
  <2>5. /\ IsFiniteSet(HoldersIn(aclnnOpCache, c) \ {op})
        /\ Cardinality(HoldersIn(aclnnOpCache, c) \ {op}) = Cardinality(HoldersIn(aclnnOpCache, c)) - 1
    BY <2>4, HoldersFinite, FS_RemoveElement
  <2>6. Cardinality(HoldersIn(aclnnOpCache, c) \ {op}) # 0
    BY <2>4, <2>5, FS_EmptySet
  <2>7. Cardinality(HoldersIn(aclnnOpCache, c)) \in Nat /\ Cardinality(HoldersIn(aclnnOpCache, c) \ {op}) \in Nat
    BY <2>5, HoldersFinite, FS_CardinalityType
  <2>8. DecreaseReference(Heap.count, e) # 0
    BY <2>3, <2>5, <2>6, <2>7 DEF DecreaseReference
  <2>9. Destroy(Heap, c) = [Heap EXCEPT !.count = [Heap.count EXCEPT ![e] = DecreaseReference(Heap.count, e)]]
    BY <1>3, <2>1, <2>8 DEF Destroy
  <2> QED
    BY <1>0, <1>3, <2>9 DEF Heaps
<1> QED
  BY <1>1, <1>2, <1>3

LEMMA EntriesAreListed ==
  ASSUME TypeOK, NEW n \in Names, NEW c \in Entries(n)
  PROVE  c \in Caches /\ c \in Listed(aclnnGlobalCache)
<1>1. aclnnGlobalCache[n] \in Seq(Caches)
  BY DEF TypeOK
<1>2. PICK i \in DOMAIN aclnnGlobalCache[n] : c = aclnnGlobalCache[n][i]
  BY DEF Entries
<1> QED
  BY <1>1, <1>2, ElementOfSeq DEF Listed

LEMMA IsEntry ==
  ASSUME NEW n, NEW i \in DOMAIN aclnnGlobalCache[n]
  PROVE  aclnnGlobalCache[n][i] \in Entries(n)
BY DEF Entries

(* The list of op's name gets the new object, by append or by replacement. *)
LEMMA ListGrows ==
  ASSUME TypeOK, NEW n \in Names, NEW c \in Caches, UpdateGlobalCache(n, c)
  PROVE  \A m \in Names : \A d \in Entries(m)' : d \in Entries(m) \/ (m = n /\ d = c)
<1> DEFINE list == aclnnGlobalCache[n]
<1>0. /\ GlobalCacheCountMax \in 0 .. 99
      /\ list \in Seq(Caches)
      /\ aclnnGlobalCache \in [Names -> Seq(Caches)]
  BY SizeAssumption DEF TypeOK
<1> SUFFICES ASSUME NEW m \in Names, NEW d \in Entries(m)'
             PROVE  d \in Entries(m) \/ (m = n /\ d = c)
  OBVIOUS
<1>a. PICK j \in DOMAIN aclnnGlobalCache'[m] : d = aclnnGlobalCache'[m][j]
  BY DEF Entries
<1>1. CASE GlobalCacheCountMax = 0
  <2>1. aclnnGlobalCache' = aclnnGlobalCache
    BY <1>1 DEF UpdateGlobalCache
  <2> QED
    BY <1>a, <2>1, IsEntry
<1>2. CASE GlobalCacheCountMax > 0 /\ Len(list) < GlobalCacheCountMax
  <2>1. aclnnGlobalCache' = [aclnnGlobalCache EXCEPT ![n] = Append(list, c)]
    BY <1>0, <1>2 DEF UpdateGlobalCache
  <2>2. CASE m # n
    BY <1>0, <1>a, <2>1, <2>2, IsEntry
  <2>3. CASE m = n
    <3>1. j \in 1 .. Len(list) + 1 /\ d = Append(list, c)[j]
      BY <1>0, <1>a, <2>1, <2>3
    <3>2. j = Len(list) + 1 \/ j \in DOMAIN list
      BY <1>0, <3>1
    <3> QED
      BY <1>0, <2>3, <3>1, <3>2, IsEntry
  <2> QED
    BY <2>2, <2>3
<1>3. CASE GlobalCacheCountMax > 0 /\ ~(Len(list) < GlobalCacheCountMax)
  <2>1. aclnnGlobalCache' = [aclnnGlobalCache EXCEPT ![n] = [list EXCEPT ![nextUpdateIndex + 1] = c]]
    BY <1>0, <1>3 DEF UpdateGlobalCache
  <2>2. CASE m # n
    BY <1>0, <1>a, <2>1, <2>2, IsEntry
  <2>3. CASE m = n
    <3>1. j \in DOMAIN list /\ d = [list EXCEPT ![nextUpdateIndex + 1] = c][j]
      BY <1>0, <1>a, <2>1, <2>3
    <3> QED
      BY <2>3, <3>1, IsEntry
  <2> QED
    BY <2>2, <2>3
<1> QED
  BY <1>0, <1>1, <1>2, <1>3

(* What every action that destroys has in common: the contents are those   *)
(* Destroy left, apart from what nobody referred to.                       *)
Released(op, contents) ==
  /\ OthersKeep(op)
  /\ FreeIsEmpty'
  /\ aclnnOpCache'[op] \in Caches => Held(op)' = contents[aclnnOpCache'[op]]
  /\ \A n \in Names : \A c \in Entries(n)' : opCache'[c] = contents[c]
  /\ \A n \in Names : \A c \in Entries(n) : contents[c] \in {opCache[c], EmptyCache}

LEMMA ReleaseStep ==
  ASSUME FitInv, TypeOK', DoubleDestroyOps = {}, NEW op \in Ops, aclnnOpCache[op] # Null,
         NEW contents,
         \A d \in Caches : d \in Referenced(aclnnOpCache, aclnnGlobalCache) =>
            contents[d] = Destroy(Heap, aclnnOpCache[op]).opCache[d],
         \A o \in Ops \ {op} : aclnnOpCache'[o] = aclnnOpCache[o] /\ setupPack'[o] = setupPack[o],
         opCache' = Reclaim(contents, aclnnOpCache', aclnnGlobalCache')
  PROVE  Released(op, contents)
<1> DEFINE g == Destroy(Heap, aclnnOpCache[op])
<1>0. /\ Heap \in Heaps /\ WellFormed(Heap) /\ TypeOK
      /\ aclnnOpCache \in [Ops -> Caches \cup {Null}]
      /\ setupPack \in [Ops -> Packs \cup {Null}]
      /\ aclnnOpCache[op] \in Caches
      /\ Heap.opCache = opCache
  BY Types DEF FitInv, Inv, IInv, Heap
<1>1. \A o \in Ops : aclnnOpCache'[o] \in Caches => opCache'[aclnnOpCache'[o]] = contents[aclnnOpCache'[o]]
  BY DEF Reclaim, Referenced
<1>2. OthersKeep(op)
  <2> SUFFICES ASSUME NEW o \in Ops \ {op}, aclnnOpCache[o] # Null
               PROVE  Held(o)' = Held(o)
    BY <1>0 DEF OthersKeep
  <2>1. aclnnOpCache'[o] = aclnnOpCache[o] /\ aclnnOpCache[o] \in Caches
    BY <1>0
  <2>2. Held(o)' = contents[aclnnOpCache[o]]
    BY <1>1, <2>1 DEF Held
  <2>3. contents[aclnnOpCache[o]] = g.opCache[aclnnOpCache[o]]
    BY <2>1 DEF Referenced
  <2> QED
    BY <2>2, <2>3, DestroyKeepsOthers
<1>3. FreeIsEmpty'
  BY DEF FreeIsEmpty, Reclaim
<1>5. ASSUME NEW n \in Names, NEW c \in Entries(n)'
      PROVE  opCache'[c] = contents[c]
  <2>1. c \in Caches /\ c \in Listed(aclnnGlobalCache')
    <3>1. aclnnGlobalCache'[n] \in Seq(Caches)
      BY DEF TypeOK
    <3>2. PICK i \in DOMAIN aclnnGlobalCache'[n] : c = aclnnGlobalCache'[n][i]
      BY DEF Entries
    <3> QED
      BY <3>1, <3>2, ElementOfSeq DEF Listed
  <2> QED
    BY <2>1 DEF Reclaim, Referenced
<1>6. ASSUME NEW n \in Names, NEW c \in Entries(n)
      PROVE  contents[c] \in {opCache[c], EmptyCache}
  <2>1. c \in Caches /\ c \in Listed(aclnnGlobalCache)
    BY <1>0, EntriesAreListed
  <2>2. contents[c] = g.opCache[c]
    BY <2>1 DEF Referenced
  <2>3. g.opCache[c] = Heap.opCache[c] \/ g.opCache[c] = EmptyCache
    BY <1>0, <2>1, DestroyShrinks
  <2> QED
    BY <1>0, <2>2, <2>3
<1> QED
  BY <1>1, <1>2, <1>3, <1>5, <1>6 DEF Released, Held

-----------------------------------------------------------------------------
(* Each action is such a step.                                             *)

(* Where nothing is destroyed, op gets a free object or another pack.      *)
LEMMA QuietStep ==
  ASSUME FitInv, NEW op \in Ops, UNCHANGED <<opCache, aclnnGlobalCache>>,
         NEW to, aclnnOpCache' = [aclnnOpCache EXCEPT ![op] = to],
         to = aclnnOpCache[op] \/ (aclnnOpCache[op] = Null /\ to \in FreshCaches),
         NEW p, setupPack' = [setupPack EXCEPT ![op] = p],
         p # Null => to = aclnnOpCache[op] /\ Held(op).aclExecutor # Null /\ Held(op).pack = p
  PROVE  StepOf(op)
<1>0. /\ aclnnOpCache \in [Ops -> Caches \cup {Null}]
      /\ setupPack \in [Ops -> Packs \cup {Null}]
      /\ aclnnOpCache'[op] = to /\ setupPack'[op] = p
  BY Types DEF FitInv, Inv
<1>1. OthersKeep(op)
  BY <1>0 DEF OthersKeep, Held
<1>2. FreeIsEmpty'
  <2> SUFFICES ASSUME NEW c \in Caches, c \notin Referenced(aclnnOpCache', aclnnGlobalCache)
               PROVE  opCache[c] = EmptyCache
    BY DEF FreeIsEmpty
  <2>1. \A o \in Ops : aclnnOpCache[o] # c
    BY <1>0, NullAssumption DEF Referenced
  <2>2. c \notin Referenced(aclnnOpCache, aclnnGlobalCache)
    BY <2>1 DEF Referenced
  <2> QED
    BY <2>2 DEF FitInv, FreeIsEmpty
<1>3. Keeps(op) \/ HasNone(op)
  <2>1. CASE to = aclnnOpCache[op]
    BY <1>0, <2>1 DEF Keeps, Held
  <2>2. CASE to \in FreshCaches
    BY <1>0, <2>2 DEF HasNone, Held, FitInv, FreeIsEmpty, FreshCaches, EmptyCache
  <2> QED
    BY <2>1, <2>2
<1>4. ListsKeep(op)
  BY DEF ListsKeep, Entries
<1>5. setupPack'[op] # Null => Held(op)'.aclExecutor # Null /\ Held(op)'.pack = setupPack'[op]
  BY <1>0 DEF Held
<1> QED
  BY <1>1, <1>2, <1>3, <1>4, <1>5 DEF StepOf

LEMMA ConstructStep ==
  ASSUME FitInv, NEW op \in Ops, Construct(op)
  PROVE  StepOf(op)
<1>1. FreshCache \in FreshCaches
  BY DEF Construct, FreshCache
<1>2. setupPack[op] = Null
  BY NullAssumption DEF Construct, FitInv, Inv, PendingAlone
<1>3. setupPack' = [setupPack EXCEPT ![op] = Null]
  BY <1>2, Types DEF Construct, FitInv, Inv
<1> QED
  BY <1>1, <1>3, QuietStep DEF Construct

LEMMA ReadyStep ==
  ASSUME FitInv, NEW op \in Ops, NEW p \in Packs,
         SetupLocalHit(op, p) \/ Execute(op) \/ ExecuteFail(op)
  PROVE  StepOf(op)
<1>1. aclnnOpCache' = [aclnnOpCache EXCEPT ![op] = aclnnOpCache[op]]
  BY Types DEF FitInv, Inv, SetupLocalHit, Execute, ExecuteFail
<1>2. CASE Execute(op) \/ ExecuteFail(op)
  <2>1. UNCHANGED <<opCache, aclnnGlobalCache>> /\ setupPack' = [setupPack EXCEPT ![op] = Null]
    BY <1>2 DEF Execute, ExecuteFail
  <2> QED
    BY <1>1, <2>1, QuietStep
<1>3. CASE SetupLocalHit(op, p)
  <2>1. Held(op).executorRepeatable /\ Held(op).pack = p /\ aclnnOpCache[op] \in Caches
    BY <1>3, Types DEF SetupLocalHit, Hit, Held, FitInv, Inv
  <2>2. Held(op).aclExecutor # Null
    BY <2>1, Types, NullAssumption DEF FitInv, Inv, WellFormed, OwnsExecutor, Heaps, Heap, Held
  <2>3. UNCHANGED <<opCache, aclnnGlobalCache>> /\ setupPack' = [setupPack EXCEPT ![op] = p]
    BY <1>3 DEF SetupLocalHit
  <2> QED
    BY <1>1, <2>1, <2>2, <2>3, QuietStep
<1> QED
  BY <1>2, <1>3

LEMMA SetupGlobalHitStep ==
  ASSUME FitInv, TypeOK', DoubleDestroyOps = {}, NEW op \in Ops, NEW p \in Packs,
         SetupGlobalHit(op, p)
  PROVE  StepOf(op)
<1> DEFINE own   == aclnnOpCache[op]
           found == FirstHit(OpName(op), p)
           g     == Destroy(Heap, own)
<1>0. /\ own # Null
      /\ aclnnOpCache' = [aclnnOpCache EXCEPT ![op] = found]
      /\ opCache' = Reclaim(g.opCache, aclnnOpCache', aclnnGlobalCache')
      /\ setupPack' = [setupPack EXCEPT ![op] = p]
      /\ aclnnGlobalCache' = aclnnGlobalCache
  BY DEF SetupGlobalHit
<1>1. /\ TypeOK /\ Heap \in Heaps /\ WellFormed(Heap)
      /\ aclnnOpCache \in [Ops -> Caches \cup {Null}]
      /\ own \in Caches /\ OpName(op) \in Names /\ Heap.opCache = opCache
  BY <1>0, Types DEF FitInv, Inv, IInv, Names, Heap
<1>2. found \in Caches /\ Hit(found, p) /\ found \in Entries(OpName(op))
  <2>1. GlobalHits(OpName(op), p) # {}
    BY DEF SetupGlobalHit
  <2>2. GlobalHits(OpName(op), p) \subseteq Nat
    BY <1>1 DEF TypeOK, GlobalHits
  <2> DEFINE i == CHOOSE i \in GlobalHits(OpName(op), p) : \A j \in GlobalHits(OpName(op), p) : i <= j
  <2>3. i \in GlobalHits(OpName(op), p)
    BY <2>1, <2>2, SmallestNat
  <2>4. found = aclnnGlobalCache[OpName(op)][i]
    BY DEF FirstHit
  <2> HIDE DEF i
  <2>5. found \in Entries(OpName(op))
    BY <2>3, <2>4, IsEntry DEF GlobalHits
  <2> QED
    BY <1>1, <2>1, <2>5, FirstHitFits
<1>3. found # own
  BY <1>2 DEF SetupGlobalHit
<1>4. g.opCache[found] = opCache[found]
  BY <1>1, <1>2, <1>3, DestroyFrame
<1> HIDE DEF own, found
<1>6. /\ aclnnOpCache'[op] = found /\ setupPack'[op] = p
      /\ \A o \in Ops \ {op} : aclnnOpCache'[o] = aclnnOpCache[o] /\ setupPack'[o] = setupPack[o]
  BY <1>0, <1>1, Types DEF FitInv, Inv
<1>5. /\ OthersKeep(op) /\ FreeIsEmpty' /\ Held(op)' = g.opCache[found]
      /\ \A n \in Names : \A c \in Entries(n)' : opCache'[c] = g.opCache[c]
      /\ \A n \in Names : \A c \in Entries(n) : g.opCache[c] \in {opCache[c], EmptyCache}
  <2>1. Released(op, g.opCache)
    BY <1>0, <1>6, ReleaseStep DEF own
  <2> HIDE DEF g
  <2> QED
    BY <1>2, <1>6, <2>1 DEF Released
<1> HIDE DEF g
<1>7. opCache[found].executorRepeatable /\ opCache[found].pack = p /\ opCache[found].aclExecutor # Null
  BY <1>1, <1>2, NullAssumption DEF Hit, WellFormed, OwnsExecutor, Heaps
<1>8. Shares(op)
  BY <1>2, <1>4, <1>5, <1>6, <1>7 DEF Shares, Held
<1>9. ListsKeep(op)
  <2>1. \A n \in Names : Entries(n)' = Entries(n)
    BY <1>0 DEF Entries
  <2> QED
    BY <2>1, <1>5 DEF ListsKeep
<1> QED
  BY <1>4, <1>5, <1>6, <1>7, <1>8, <1>9 DEF StepOf

LEMMA SetupCreateStep ==
  ASSUME FitInv, TypeOK', DoubleDestroyOps = {}, NEW op \in Ops, NEW p \in Packs,
         SetupCreate(op, p)
  PROVE  StepOf(op)
<1> DEFINE c == FreshCache
           g == Destroy(Heap, aclnnOpCache[op])
<1>1. PICK e \in Executors \ g.live, repeatable \in BOOLEAN :
        /\ aclnnOpCache' = [aclnnOpCache EXCEPT ![op] = c]
        /\ opCache' = Reclaim([g.opCache EXCEPT
                                 ![c] = [aclExecutor |-> e, executorRepeatable |-> repeatable,
                                         pack |-> p, kind |-> OpKind(op)]],
                              aclnnOpCache', aclnnGlobalCache')
        /\ UpdateGlobalCache(OpName(op), c) \/ UNCHANGED aclnnGlobalCache
  BY DEF SetupCreate
<1> DEFINE made == [aclExecutor |-> e, executorRepeatable |-> repeatable,
                    pack |-> p, kind |-> OpKind(op)]
           contents == [g.opCache EXCEPT ![c] = made]
<1>2. /\ aclnnOpCache[op] # Null
      /\ c \in Caches /\ c \notin Referenced(aclnnOpCache, aclnnGlobalCache)
      /\ setupPack' = [setupPack EXCEPT ![op] = p]
  BY DEF SetupCreate, Miss, FreshCache, FreshCaches
<1>3. /\ TypeOK /\ OpName(op) \in Names
      /\ aclnnOpCache \in [Ops -> Caches \cup {Null}]
      /\ setupPack \in [Ops -> Packs \cup {Null}]
      /\ g \in Heaps
  BY <1>2, Types, Release DEF FitInv, Inv, IInv, Names
<1>4. contents[c] = made /\ \A d \in Caches \ {c} : contents[d] = g.opCache[d]
  BY <1>2, <1>3 DEF Heaps
<1>5. /\ made.aclExecutor # Null /\ made.pack = p /\ made.kind = OpKind(op)
  BY NullAssumption
<1> HIDE DEF made, contents
<1>6. opCache' = Reclaim(contents, aclnnOpCache', aclnnGlobalCache')
  BY <1>1 DEF contents, made
<1>7. \A d \in Caches : d \in Referenced(aclnnOpCache, aclnnGlobalCache) => contents[d] = g.opCache[d]
  BY <1>2, <1>4
<1> HIDE DEF c
<1>9. /\ aclnnOpCache'[op] = c /\ setupPack'[op] = p
      /\ \A o \in Ops \ {op} : aclnnOpCache'[o] = aclnnOpCache[o] /\ setupPack'[o] = setupPack[o]
  BY <1>1, <1>2, <1>3
<1>8. /\ OthersKeep(op) /\ FreeIsEmpty' /\ Held(op)' = contents[c]
      /\ \A n \in Names : \A d \in Entries(n)' : opCache'[d] = contents[d]
      /\ \A n \in Names : \A d \in Entries(n) : contents[d] \in {opCache[d], EmptyCache}
  <2>1. Released(op, contents)
    BY <1>2, <1>6, <1>7, <1>9, ReleaseStep
  <2> HIDE DEF g
  <2> QED
    BY <1>2, <1>9, <2>1 DEF Released
<1> HIDE DEF g
<1>10. IsMade(op)
  BY <1>2, <1>4, <1>5, <1>8, <1>9 DEF IsMade, Referenced
<1>11. ListsKeep(op)
  <2> SUFFICES ASSUME NEW n \in Names, NEW d \in Entries(n)'
               PROVE  \/ d \in Entries(n) /\ opCache'[d] \in {opCache[d], EmptyCache}
                      \/ n = OpName(op) /\ opCache'[d].kind = OpKind(op)
    BY DEF ListsKeep
  <2>1. d \in Entries(n) \/ (n = OpName(op) /\ d = c)
    BY <1>1, <1>2, <1>3, ListGrows DEF Entries
  <2> QED
    BY <1>4, <1>5, <1>8, <2>1
<1> QED
  BY <1>4, <1>5, <1>8, <1>9, <1>10, <1>11 DEF StepOf

LEMMA SetupFailStep ==
  ASSUME FitInv, TypeOK', DoubleDestroyOps = {}, NEW op \in Ops, NEW p \in Packs,
         SetupFail(op, p)
  PROVE  StepOf(op)
<1> DEFINE c == FreshCache
           given == Destroy(Heap, aclnnOpCache[op])
           made == [given.opCache[c] EXCEPT !.pack = p, !.kind = OpKind(op)]
           partial == [given EXCEPT !.opCache[c].pack = p, !.opCache[c].kind = OpKind(op)]
           g == Destroy(partial, c)
<1>0. /\ aclnnOpCache[op] # Null
      /\ c \in Caches /\ c \notin Referenced(aclnnOpCache, aclnnGlobalCache)
      /\ aclnnOpCache' = [aclnnOpCache EXCEPT ![op] = c]
      /\ opCache' = Reclaim(g.opCache, aclnnOpCache', aclnnGlobalCache')
      /\ setupPack' = [setupPack EXCEPT ![op] = Null]
      /\ aclnnGlobalCache' = aclnnGlobalCache
  BY DEF SetupFail, Miss, FreshCache, FreshCaches
<1>1. /\ aclnnOpCache \in [Ops -> Caches \cup {Null}]
      /\ setupPack \in [Ops -> Packs \cup {Null}]
      /\ Heap \in Heaps /\ WellFormed(Heap) /\ Heap.opCache = opCache
      /\ aclnnOpCache[op] \in Caches
      /\ given \in Heaps
  BY <1>0, Types, Release DEF FitInv, Inv, IInv, Heap
<1>2. given.opCache[c] = EmptyCache
  <2>1. opCache[c] = EmptyCache
    BY <1>0 DEF FitInv, FreeIsEmpty
  <2> QED
    BY <1>0, <1>1, <2>1, DestroyShrinks
<1>3. made.aclExecutor = Null
  BY <1>2 DEF EmptyCache
<1>4. partial = [given EXCEPT !.opCache = [given.opCache EXCEPT ![c] = made]]
  BY <1>0, <1>1 DEF Heaps, CacheContents
<1>5. partial.opCache = [given.opCache EXCEPT ![c] = made]
  BY <1>1, <1>4 DEF Heaps
<1> HIDE DEF given, made, partial, c
<1>6. g = partial
  BY <1>0, <1>1, <1>3, <1>5 DEF Destroy, Heaps
<1>7. g.opCache[c] = made /\ \A d \in Caches \ {c} : g.opCache[d] = given.opCache[d]
  BY <1>0, <1>1, <1>5, <1>6 DEF Heaps
<1> HIDE DEF g
<1>11. /\ aclnnOpCache'[op] = c /\ setupPack'[op] = Null
       /\ \A o \in Ops \ {op} : aclnnOpCache'[o] = aclnnOpCache[o] /\ setupPack'[o] = setupPack[o]
  BY <1>0, <1>1
<1>8. /\ OthersKeep(op) /\ FreeIsEmpty' /\ Held(op)' = g.opCache[c]
      /\ \A n \in Names : \A d \in Entries(n)' : opCache'[d] = g.opCache[d]
      /\ \A n \in Names : \A d \in Entries(n) : g.opCache[d] \in {opCache[d], EmptyCache}
  <2>1. \A d \in Caches : d \in Referenced(aclnnOpCache, aclnnGlobalCache) =>
          g.opCache[d] = Destroy(Heap, aclnnOpCache[op]).opCache[d]
    BY <1>0, <1>7 DEF given
  <2>2. Released(op, g.opCache)
    BY <1>0, <1>11, <2>1, ReleaseStep
  <2> QED
    BY <1>0, <1>11, <2>2 DEF Released
<1>9. HasNone(op)
  BY <1>3, <1>7, <1>8 DEF HasNone
<1>10. ListsKeep(op)
  <2>1. \A n \in Names : Entries(n)' = Entries(n)
    BY <1>0 DEF Entries
  <2> QED
    BY <2>1, <1>8 DEF ListsKeep
<1> QED
  BY <1>8, <1>9, <1>10, <1>11 DEF StepOf

LEMMA DestructStep ==
  ASSUME FitInv, TypeOK', DoubleDestroyOps = {}, NEW op \in Ops, Destruct(op)
  PROVE  StepOf(op)
<1> DEFINE g == Destroy(Heap, aclnnOpCache[op])
<1>0. /\ aclnnOpCache[op] # Null
      /\ aclnnOpCache' = [aclnnOpCache EXCEPT ![op] = Null]
      /\ opCache' = Reclaim(g.opCache, aclnnOpCache', aclnnGlobalCache')
      /\ setupPack' = [setupPack EXCEPT ![op] = Null]
      /\ aclnnGlobalCache' = aclnnGlobalCache
  BY DEF Destruct
<1>2. /\ aclnnOpCache'[op] = Null /\ setupPack'[op] = Null
      /\ \A o \in Ops \ {op} : aclnnOpCache'[o] = aclnnOpCache[o] /\ setupPack'[o] = setupPack[o]
  BY <1>0, Types DEF FitInv, Inv
<1>1. /\ OthersKeep(op) /\ FreeIsEmpty'
      /\ \A n \in Names : \A d \in Entries(n)' : opCache'[d] = g.opCache[d]
      /\ \A n \in Names : \A d \in Entries(n) : g.opCache[d] \in {opCache[d], EmptyCache}
  <2>1. Released(op, g.opCache)
    BY <1>0, <1>2, ReleaseStep
  <2> HIDE DEF g
  <2> QED
    BY <2>1 DEF Released
<1> HIDE DEF g
<1>3. ListsKeep(op)
  <2>1. \A n \in Names : Entries(n)' = Entries(n)
    BY <1>0 DEF Entries
  <2> QED
    BY <2>1, <1>1 DEF ListsKeep
<1> QED
  BY <1>1, <1>2, <1>3 DEF StepOf, HasNone

LEMMA NextIsStep ==
  ASSUME FitInv, Inv', DoubleDestroyOps = {}, Next
  PROVE  \E op \in Ops : StepOf(op)
<1>0. TypeOK'
  BY DEF Inv, IInv
<1>1. PICK op \in Ops : \/ Construct(op)
                        \/ \E p \in Packs : Setup(op, p)
                        \/ Execute(op)
                        \/ ExecuteFail(op)
                        \/ Destruct(op)
  BY DEF Next
<1>2. CASE Construct(op)
  BY <1>2, ConstructStep
<1>3. ASSUME NEW p \in Packs, Setup(op, p)
      PROVE  StepOf(op)
  BY <1>0, <1>3, ReadyStep, SetupGlobalHitStep, SetupCreateStep, SetupFailStep DEF Setup
<1>4. CASE Execute(op) \/ ExecuteFail(op)
  <2>1. PICK p \in Packs : TRUE
    BY <1>4, Types, NullAssumption DEF Execute, ExecuteFail, FitInv, Inv
  <2> QED
    BY <1>4, ReadyStep
<1>5. CASE Destruct(op)
  BY <1>0, <1>5, DestructStep
<1> QED
  BY <1>1, <1>2, <1>3, <1>4, <1>5

LEMMA FitInvariant ==
  ASSUME DoubleDestroyOps = {}
  PROVE  Spec => []FitInv
<1>1. Init => FitInv
  <2> SUFFICES ASSUME Init PROVE FitInv
    OBVIOUS
  <2>1. Inv
    BY InitInv, InitPending DEF Inv
  <2>2. \A n \in Names : Entries(n) = {}
    BY DEF Init, Entries
  <2>3. \A op \in Ops : OpName(op) \in Names /\ aclnnOpCache[op] = Null /\ setupPack[op] = Null
    BY DEF Init, Names
  <2> QED
    BY <2>1, <2>2, <2>3 DEF Init, FitInv, FreeIsEmpty, Unshared, KindsFit, Ready
<1>2. FitInv /\ Inv' /\ [Next]_vars => FitInv'
  <2> SUFFICES ASSUME FitInv, Inv', [Next]_vars PROVE FitInv'
    OBVIOUS
  <2>1. CASE Next
    BY <1>1, <2>1, NextIsStep, StepKeepsFit
  <2>2. CASE UNCHANGED vars
    <3>1. /\ UNCHANGED <<aclnnOpCache, opCache, aclnnGlobalCache, setupPack>>
      BY <2>2 DEF vars
    <3>2. FreeIsEmpty' /\ Unshared' /\ Ready'
      BY <3>1 DEF FitInv, FreeIsEmpty, Referenced, Listed, Unshared, Ready, Held
    <3>3. KindsFit'
      BY <3>1 DEF FitInv, KindsFit, Entries, Held, OfKind
    <3> QED
      BY <3>2, <3>3 DEF FitInv
  <2> QED
    BY <2>1, <2>2
<1>3. FitInv => Inv
  BY DEF FitInv
<1> QED
  BY <1>1, <1>2, <1>3, NextInv, PTL DEF Spec

(* As long as no destructor destroys twice, an operation that is set up    *)
(* has a live executor of its kind, built for the tensors of its Setup,    *)
(* whatever other operations have shared, replaced or destroyed meanwhile. *)
THEOREM ExecutorFits ==
  ASSUME DoubleDestroyOps = {}
  PROVE  Spec => []ReadyExecutorFits
<1>1. FitInv => ReadyExecutorFits
  <2> SUFFICES ASSUME FitInv, NEW op \in Ops, setupPack[op] # Null
               PROVE  /\ Held(op).aclExecutor \in live
                      /\ Held(op).pack = setupPack[op]
                      /\ NameFixesKind => Held(op).kind = OpKind(op)
    BY DEF ReadyExecutorFits, Held
  <2>1. aclnnOpCache[op] \in Caches /\ Held(op).aclExecutor # Null
    BY DEF FitInv, Inv, PendingAlone, Ready
  <2>2. Held(op).aclExecutor \in live
    <3>1. CASE Held(op).executorRepeatable
      BY <2>1, <3>1 DEF FitInv, Inv, IInv, WellFormed, OwnsExecutor, Heap, Held
    <3>2. CASE ~Held(op).executorRepeatable
      BY <2>1, <3>2 DEF FitInv, Inv, PendingAlone, Pending, ExecutorOf, Heap, Held
    <3> QED
      BY <3>1, <3>2
  <2>3. NameFixesKind => Held(op).kind = OpKind(op)
    BY <2>1, NullAssumption DEF FitInv, KindsFit, OfKind
  <2> QED
    BY <2>2, <2>3 DEF FitInv, Ready
<1> QED
  BY <1>1, FitInvariant, PTL

-----------------------------------------------------------------------------
(* The executors in existence for SharedExecutors are those that are held. *)
LEMMA AliveIsHeld == Inv => {e \in live : executorCount[e] > 0} = {e \in Executors : HoldersOf(e) # {}}
<1> SUFFICES ASSUME Inv
             PROVE  {e \in live : executorCount[e] > 0} = {e \in Executors : HoldersOf(e) # {}}
  OBVIOUS
<1>1. live \subseteq Executors
  BY DEF Inv, IInv, TypeOK
<1>2. ASSUME NEW e \in Executors, HoldersOf(e) # {}
      PROVE  e \in live /\ executorCount[e] > 0
  <2>1. PICK op \in Ops : /\ aclnnOpCache[op] # Null
                          /\ opCache[aclnnOpCache[op]].executorRepeatable
                          /\ opCache[aclnnOpCache[op]].aclExecutor = e
    BY <1>2 DEF HoldersOf, Shared
  <2>2. aclnnOpCache[op] \in Caches
    BY <2>1, Types DEF Inv
  <2> QED
    BY <2>1, <2>2 DEF Inv, IInv, WellFormed, OwnsExecutor, Heap
<1> QED
  BY <1>1, <1>2, CountedIsHeld

LEMMA AliveIsHeldNext ==
  Inv' => ({e \in live : executorCount[e] > 0} = {e \in Executors : HoldersOf(e) # {}})'
BY AliveIsHeld, PTL

(* Who shares an executor, and which one.                                  *)
HasExecutor(op, e) ==
  aclnnOpCache[op] # Null /\ Held(op).executorRepeatable /\ Held(op).aclExecutor = e

LEMMA HoldersHave == \A e : HoldersOf(e) = {op \in Ops : HasExecutor(op, e)}
BY DEF HoldersOf, Shared, HasExecutor, Held

(* op lets go of what it shared and takes what it shares now, if anything. *)
LEMMA StepMoves ==
  ASSUME Inv', NEW op \in Ops, StepOf(op)
  PROVE  Promise!Next
<1>1. PICK e \in Executors \cup {Null} :
        e = IF aclnnOpCache'[op] # Null /\ Held(op)'.executorRepeatable
            THEN Held(op)'.aclExecutor ELSE Null
  <2>1. /\ aclnnOpCache' \in [Ops -> Caches \cup {Null}]
        /\ opCache' \in [Caches -> CacheContents]
    BY DEF Inv, IInv, TypeOK
  <2> QED
    BY <2>1 DEF Held, CacheContents
<1>2. \A x \in Executors : HasExecutor(op, x)' <=> x = e
  BY <1>1, NullAssumption DEF HasExecutor
<1>3. \A x \in Executors : \A o \in Ops \ {op} : HasExecutor(o, x)' <=> HasExecutor(o, x)
  BY DEF StepOf, OthersKeep, HasExecutor
<1>4. ASSUME NEW x \in Executors
      PROVE  HoldersOf(x)' = IF x = e THEN HoldersOf(x) \cup {op} ELSE HoldersOf(x) \ {op}
  <2>1. HoldersOf(x) = {o \in Ops : HasExecutor(o, x)}
    BY HoldersHave
  <2>2. HoldersOf(x)' = {o \in Ops : HasExecutor(o, x)'}
    BY DEF HoldersOf, Shared, HasExecutor, Held
  <2>3. HasExecutor(op, x)' <=> x = e
    BY <1>2
  <2>4. \A o \in Ops \ {op} : HasExecutor(o, x)' <=> HasExecutor(o, x)
    BY <1>3
  <2> QED
    BY <2>1, <2>2, <2>3, <2>4
<1>5. {x \in live' : executorCount'[x] > 0} = {x \in Executors : HoldersOf(x)' # {}}
  BY AliveIsHeldNext
<1>6. Promise!Move(op, e)
  BY <1>4, <1>5 DEF Promise!Move
<1> QED
  BY <1>1, <1>6 DEF Promise!Next

(* Without double destruction the cache implements SharedExecutors: in     *)
(* every step at most one operation changes what it shares, and a          *)
(* repeatable executor exists as long as somebody shares it, no longer.    *)
THEOREM KeepsPromise ==
  ASSUME DoubleDestroyOps = {}
  PROVE  Spec => ImplementsPromise
<1>1. Init => Promise!Init
  <2> SUFFICES ASSUME Init PROVE Promise!Init
    OBVIOUS
  <2>1. \A e \in Executors : HoldersOf(e) = {}
    BY DEF Init, HoldersOf
  <2>2. live = {}
    BY DEF Init
  <2> QED
    BY <2>1, <2>2 DEF Promise!Init
<1>2. FitInv /\ FitInv' /\ [Next]_vars => [Promise!Next]_(Promise!vars)
  <2> SUFFICES ASSUME FitInv, FitInv', [Next]_vars
               PROVE  Promise!Next \/ UNCHANGED Promise!vars
    OBVIOUS
  <2>1. CASE Next
    BY <2>1, NextIsStep, StepMoves DEF FitInv
  <2>2. CASE UNCHANGED vars
    BY <2>2 DEF vars, Promise!vars, HoldersOf, Shared
  <2> QED
    BY <2>1, <2>2
<1> QED
  BY <1>1, <1>2, FitInvariant, PTL DEF Spec, ImplementsPromise, Promise!Spec
=============================================================================
