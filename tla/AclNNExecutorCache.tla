------------------------ MODULE AclNNExecutorCache ------------------------
(***************************************************************************)
(* How AclNN operations share executors (operations/aclnn/core).           *)
(*                                                                         *)
(* An operation holds a shared pointer to one AclNNOpCache object, which   *)
(* owns an aclOpExecutor and the aclTensors it was built from.  Setup      *)
(* looks for an executor built for the same tensor descriptions: in the    *)
(* operation's own cache object, then in the process-wide                  *)
(* AclNNGlobalCache; else it builds one.  ExecutorManager counts, by       *)
(* executor address, the operations that hold a repeatable executor.       *)
(*                                                                         *)
(* Addresses of executors are handed out by CANN, which may reissue the    *)
(* address of an executor that is no longer live.  Tensor descriptions     *)
(* and host data, all that IsVariankPackEqual compares, are one value of   *)
(* Packs; device addresses are left out, Execute sets them every time.     *)
(***************************************************************************)
EXTENDS Integers, Sequences, FiniteSets

CONSTANTS
  Ops,                  \* AclNNOperation objects
  OpName(_),            \* the name an operation is constructed with
  OpKind(_),            \* what its executors depend on: aclnn call, parameters
  Packs,                \* variant packs up to IsVariankPackEqual
  Caches,               \* AclNNOpCache objects that can exist at a time
  Executors,            \* addresses CANN gives executors
  GlobalCacheCountMax,  \* size of each list of the global cache
  DoubleDestroyOps,     \* operations whose derived destructor also destroys
  Null                  \* nullptr, for any pointer

ASSUME OpsAssumption == IsFiniteSet(Ops)
ASSUME NullAssumption == Null \notin Ops \cup Packs \cup Caches \cup Executors
ASSUME SizeAssumption == GlobalCacheCountMax \in 0 .. 99
ASSUME DoubleDestroyAssumption == DoubleDestroyOps \subseteq Ops

VARIABLES
  aclnnOpCache,      \* per operation, its cache object; Null: not constructed
  opCache,           \* contents of the cache objects
  executorCount,     \* ExecutorManager::executorCount_; 0: no entry
  aclnnGlobalCache,  \* AclNNGlobalCache::aclnnGlobalCache_, by name
  nextUpdateIndex,   \* AclNNGlobalCache::nextUpdateIndex_, one for all names
  live,              \* executors CANN has created and not released
  setupPack          \* variant pack of a Setup whose Execute is still to come

vars == <<aclnnOpCache, opCache, executorCount, aclnnGlobalCache,
          nextUpdateIndex, live, setupPack>>

Names == {OpName(op) : op \in Ops}

(* A freshly made AclNNOpCache.  pack = Null says it holds no aclTensor.   *)
EmptyCache == [aclExecutor |-> Null, executorRepeatable |-> FALSE,
               pack |-> Null, kind |-> Null]

CacheContents ==
  [aclExecutor : Executors \cup {Null}, executorRepeatable : BOOLEAN,
   pack : Packs \cup {Null}, kind : {OpKind(op) : op \in Ops} \cup {Null}]

TypeOK ==
  /\ aclnnOpCache \in [Ops -> Caches \cup {Null}]
  /\ opCache \in [Caches -> CacheContents]
  /\ executorCount \in [Executors -> Nat]
  /\ aclnnGlobalCache \in [Names -> Seq(Caches)]
  /\ \A n \in Names : Len(aclnnGlobalCache[n]) <= GlobalCacheCountMax
  /\ nextUpdateIndex \in 0 .. 99
  /\ GlobalCacheCountMax > 0 => nextUpdateIndex < GlobalCacheCountMax
  /\ live \subseteq Executors
  /\ setupPack \in [Ops -> Packs \cup {Null}]

Init ==
  /\ aclnnOpCache = [op \in Ops |-> Null]
  /\ opCache = [c \in Caches |-> EmptyCache]
  /\ executorCount = [e \in Executors |-> 0]
  /\ aclnnGlobalCache = [n \in Names |-> <<>>]
  /\ nextUpdateIndex = 0
  /\ live = {}
  /\ setupPack = [op \in Ops |-> Null]

-----------------------------------------------------------------------------
(* The part of the state that Destroy works on.                            *)
Heap == [opCache |-> opCache, count |-> executorCount, live |-> live]

(* Mutant: the entry goes when two references are left.                    *)
DecreaseReferenceEarly(count, e) == IF count[e] <= 2 THEN 0 ELSE count[e] - 1

(* ExecutorManager::DecreaseReference: the count left.  An executor it     *)
(* does not know counts as released, the last reference drops the entry.   *)
DecreaseReference(count, e) == IF count[e] <= 1 THEN 0 ELSE count[e] - 1

(* Mutant: sharing an executor is not counted.                             *)
IncreaseReferenceMissing(count, e) == IF count[e] = 0 THEN 1 ELSE count[e]

(* ExecutorManager::IncreaseReference: an unknown executor starts at 1.    *)
IncreaseReference(count, e) == count[e] + 1

(* ExecutorManager::RegisterReference: whatever was counted is forgotten.  *)
RegisterReference(count, e) == 1

(* Mutant: the handle is dropped as if the executor were not repeatable.   *)
DestroyUncounted(heap, c) ==
  IF heap.opCache[c].aclExecutor = Null THEN heap
  ELSE [heap EXCEPT !.opCache[c] = EmptyCache]

(* Mutant: the executor is destroyed, the cache object not reset.          *)
DestroyWithoutReset(heap, c) ==
  LET e == heap.opCache[c].aclExecutor IN
  CASE e = Null -> heap
    [] e # Null /\ ~heap.opCache[c].executorRepeatable -> [heap EXCEPT !.opCache[c] = EmptyCache]
    [] OTHER ->
         [heap EXCEPT !.count[e] = DecreaseReference(heap.count, e),
                      !.live = IF DecreaseReference(heap.count, e) = 0 THEN @ \ {e} ELSE @]

(* AclNNOpCache::Destroy on cache object c: the heap it leaves.            *)
Destroy(heap, c) ==
  LET e         == heap.opCache[c].aclExecutor
      counted   == heap.opCache[c].executorRepeatable
      remaining == DecreaseReference(heap.count, e)
      emptied   == [heap.opCache EXCEPT ![c] = EmptyCache]
  IN  CASE e = Null -> heap
        [] e # Null /\ ~counted -> [heap EXCEPT !.opCache = emptied]
        [] e # Null /\ counted /\ remaining # 0 ->
             [heap EXCEPT !.count = [heap.count EXCEPT ![e] = remaining]]
        [] OTHER ->
             [opCache |-> emptied,
              count   |-> [heap.count EXCEPT ![e] = 0],
              live    |-> heap.live \ {e}]

Listed(globalCache) == UNION {{globalCache[n][i] : i \in DOMAIN globalCache[n]} : n \in Names}

Referenced(holding, globalCache) == {holding[op] : op \in Ops} \cup Listed(globalCache)

(* Cache objects no shared pointer refers to are freed; make_shared finds  *)
(* them empty.                                                             *)
Reclaim(contents, holding, globalCache) ==
  [c \in Caches |-> IF c \in Referenced(holding, globalCache) THEN contents[c] ELSE EmptyCache]

(* What make_shared returns.  Which of the free objects it is does not     *)
(* matter: nothing compares their addresses.                               *)
FreshCaches == Caches \ Referenced(aclnnOpCache, aclnnGlobalCache)
FreshCache == CHOOSE c \in FreshCaches : TRUE

(* Mutant: an executor that is not repeatable is hit too.                  *)
HitUnrepeatable(c, p) == opCache[c].pack = p

Hit(c, p) == opCache[c].executorRepeatable /\ opCache[c].pack = p

(* AclNNGlobalCache::GetGlobalCache: the first position that fits.         *)
GlobalHits(n, p) == {i \in DOMAIN aclnnGlobalCache[n] : Hit(aclnnGlobalCache[n][i], p)}
FirstHit(n, p) ==
  aclnnGlobalCache[n][CHOOSE i \in GlobalHits(n, p) : \A j \in GlobalHits(n, p) : i <= j]

(* AclNNGlobalCache::UpdateGlobalCache for a repeatable executor: append,  *)
(* or replace the entry the shared index points to.                        *)
UpdateGlobalCache(n, c) ==
  LET list == aclnnGlobalCache[n] IN
  CASE GlobalCacheCountMax = 0 -> UNCHANGED <<aclnnGlobalCache, nextUpdateIndex>>
    [] GlobalCacheCountMax > 0 /\ Len(list) < GlobalCacheCountMax ->
         /\ aclnnGlobalCache' = [aclnnGlobalCache EXCEPT ![n] = Append(list, c)]
         /\ UNCHANGED nextUpdateIndex
    [] OTHER ->
         /\ aclnnGlobalCache' = [aclnnGlobalCache EXCEPT ![n][nextUpdateIndex + 1] = c]
         /\ nextUpdateIndex' = (nextUpdateIndex + 1) % GlobalCacheCountMax

-----------------------------------------------------------------------------
(* Constructor: an operation starts with an empty cache object.            *)
Construct(op) ==
  /\ aclnnOpCache[op] = Null
  /\ FreshCaches # {}
  /\ aclnnOpCache' = [aclnnOpCache EXCEPT ![op] = FreshCache]
  /\ UNCHANGED <<opCache, executorCount, aclnnGlobalCache, nextUpdateIndex, live, setupPack>>

(* Setup, when the operation's own executor fits.                          *)
SetupLocalHit(op, p) ==
  /\ aclnnOpCache[op] # Null
  /\ Hit(aclnnOpCache[op], p)
  /\ setupPack' = [setupPack EXCEPT ![op] = p]
  /\ UNCHANGED <<aclnnOpCache, opCache, executorCount, aclnnGlobalCache, nextUpdateIndex, live>>

(* Setup, when the global cache has a cache object that fits: the own one  *)
(* is given up and the found one shared.                                   *)
SetupGlobalHit(op, p) ==
  /\ aclnnOpCache[op] # Null
  /\ ~Hit(aclnnOpCache[op], p)
  /\ GlobalHits(OpName(op), p) # {}
  /\ LET found == FirstHit(OpName(op), p)
         heap  == Destroy(Heap, aclnnOpCache[op])
         e     == heap.opCache[found].aclExecutor
     IN  /\ aclnnOpCache' = [aclnnOpCache EXCEPT ![op] = found]
         /\ executorCount' = [heap.count EXCEPT ![e] = IncreaseReference(heap.count, e)]
         /\ live' = heap.live
         /\ opCache' = Reclaim(heap.opCache, aclnnOpCache', aclnnGlobalCache)
  /\ setupPack' = [setupPack EXCEPT ![op] = p]
  /\ UNCHANGED <<aclnnGlobalCache, nextUpdateIndex>>

Miss(op, p) ==
  /\ FreshCaches # {}
  /\ aclnnOpCache[op] # Null
  /\ ~Hit(aclnnOpCache[op], p)
  /\ GlobalHits(OpName(op), p) = {}

(* Setup, when nothing fits: a new cache object and a new executor, which  *)
(* CANN makes repeatable or not.                                           *)
SetupCreate(op, p) ==
  /\ Miss(op, p)
  /\ LET c    == FreshCache
         heap == Destroy(Heap, aclnnOpCache[op])
     IN  \E e \in Executors \ heap.live, repeatable \in BOOLEAN :
         LET contents == [heap.opCache EXCEPT
                            ![c] = [aclExecutor |-> e, executorRepeatable |-> repeatable,
                                    pack |-> p, kind |-> OpKind(op)]]
         IN  /\ aclnnOpCache' = [aclnnOpCache EXCEPT ![op] = c]
             /\ live' = heap.live \cup {e}
             /\ IF repeatable
                THEN /\ executorCount' =
                          [heap.count EXCEPT ![e] = RegisterReference(heap.count, e)]
                     /\ UpdateGlobalCache(OpName(op), c)
                ELSE /\ executorCount' = heap.count
                     /\ UNCHANGED <<aclnnGlobalCache, nextUpdateIndex>>
             /\ opCache' = Reclaim(contents, aclnnOpCache', aclnnGlobalCache')
  /\ setupPack' = [setupPack EXCEPT ![op] = p]

(* Setup, when nothing fits and CANN refuses the tensors or the executor:  *)
(* the tensors made so far are in the new cache object, which Setup then   *)
(* destroys before it returns the error.                                   *)
SetupFail(op, p) ==
  /\ Miss(op, p)
  /\ LET c     == FreshCache
         given == Destroy(Heap, aclnnOpCache[op])
         heap  == Destroy([given EXCEPT !.opCache[c].pack = p, !.opCache[c].kind = OpKind(op)], c)
     IN  /\ aclnnOpCache' = [aclnnOpCache EXCEPT ![op] = c]
         /\ executorCount' = heap.count
         /\ live' = heap.live
         /\ opCache' = Reclaim(heap.opCache, aclnnOpCache', aclnnGlobalCache)
  /\ setupPack' = [setupPack EXCEPT ![op] = Null]
  /\ UNCHANGED <<aclnnGlobalCache, nextUpdateIndex>>

(* Execute after a successful Setup.  CANN releases an executor that is    *)
(* not repeatable once it has run; an update of the tensor addresses that  *)
(* fails returns before the launch.                                        *)
Execute(op) ==
  /\ setupPack[op] # Null
  /\ setupPack' = [setupPack EXCEPT ![op] = Null]
  /\ LET c == opCache[aclnnOpCache[op]] IN
     live' = IF c.executorRepeatable THEN live ELSE live \ {c.aclExecutor}
  /\ UNCHANGED <<aclnnOpCache, opCache, executorCount, aclnnGlobalCache, nextUpdateIndex>>

ExecuteFail(op) ==
  /\ setupPack[op] # Null
  /\ setupPack' = [setupPack EXCEPT ![op] = Null]
  /\ UNCHANGED <<aclnnOpCache, opCache, executorCount, aclnnGlobalCache, nextUpdateIndex, live>>

(* Destructor.  The base class destroys the cache; about half of the       *)
(* derived classes have done it once already in their own destructor.      *)
Destruct(op) ==
  /\ aclnnOpCache[op] # Null
  /\ LET c    == aclnnOpCache[op]
         once == Destroy(Heap, c)
         heap == IF op \in DoubleDestroyOps THEN Destroy(once, c) ELSE once
     IN  /\ aclnnOpCache' = [aclnnOpCache EXCEPT ![op] = Null]
         /\ executorCount' = heap.count
         /\ live' = heap.live
         /\ opCache' = Reclaim(heap.opCache, aclnnOpCache', aclnnGlobalCache)
  /\ setupPack' = [setupPack EXCEPT ![op] = Null]
  /\ UNCHANGED <<aclnnGlobalCache, nextUpdateIndex>>

Setup(op, p) ==
  \/ SetupLocalHit(op, p)
  \/ SetupGlobalHit(op, p)
  \/ SetupCreate(op, p)
  \/ SetupFail(op, p)

Next ==
  \E op \in Ops :
    \/ Construct(op)
    \/ \E p \in Packs : Setup(op, p)
    \/ Execute(op)
    \/ ExecuteFail(op)
    \/ Destruct(op)

Spec == Init /\ [][Next]_vars

-----------------------------------------------------------------------------
Holders(c) == {op \in Ops : aclnnOpCache[op] = c}

(* The executors that are shared by count, and the operations that can     *)
(* reach each.                                                             *)
Shared(c) == opCache[c].executorRepeatable
HoldersOf(e) ==
  {op \in Ops : /\ aclnnOpCache[op] # Null
                /\ Shared(aclnnOpCache[op])
                /\ opCache[aclnnOpCache[op]].aclExecutor = e}

(* What ExecutorManager counts is how many operations hold the executor:   *)
(* Setup's three ways to an executor, its failures and the destructor keep *)
(* the two in step (executor_manager.h: the count decides destruction).    *)
CountIsHolders ==
  \A c \in Caches : Shared(c) =>
    executorCount[opCache[c].aclExecutor] = Cardinality(Holders(c))

(* No executor outlives its last holder: a counted executor is live and    *)
(* some operation can still release it.                                    *)
NoSharedExecutorLeak ==
  \A e \in Executors : executorCount[e] > 0 =>
    /\ e \in live
    /\ HoldersOf(e) # {}

(* A cache object that a lookup can hit owns a live executor, and shares   *)
(* it with no other object: a hit in the global cache never yields an      *)
(* executor that has been destroyed, nor one whose address was reissued.   *)
HitIsLiveAndUnique ==
  \A c \in Caches : Shared(c) =>
    /\ opCache[c].aclExecutor \in live
    /\ executorCount[opCache[c].aclExecutor] > 0
    /\ \A d \in Caches : Shared(d) /\ opCache[d].aclExecutor = opCache[c].aclExecutor => d = c

NameFixesKind == \A o1, o2 \in Ops : OpName(o1) = OpName(o2) => OpKind(o1) = OpKind(o2)

(* Between its Setup and its Execute, whatever other operations do, an     *)
(* operation holds a live executor, built for the tensors it was set up    *)
(* with; and for its own kind, provided operations of one name are alike.  *)
ReadyExecutorFits ==
  \A op \in Ops : setupPack[op] # Null =>
    LET c == opCache[aclnnOpCache[op]] IN
    /\ c.aclExecutor \in live
    /\ c.pack = setupPack[op]
    /\ NameFixesKind => c.kind = OpKind(op)

(* "only the holder that releases the last reference may destroy it"       *)
(* (acl_nn_operation_cache.cpp): a counted executor leaves CANN only when  *)
(* no operation but the one that moves still holds its cache object.       *)
DestroyedByLastHolder ==
  [][\A c \in Caches :
       LET e == opCache[c].aclExecutor IN
       Shared(c) /\ e \notin live' =>
         \A op \in Ops : aclnnOpCache[op] = c => aclnnOpCache'[op] # c]_vars

(* The cache keeps the promise of SharedExecutors: a repeatable executor   *)
(* exists exactly while an operation holds it, and every Setup, Execute or *)
(* destructor moves one operation at most.                                 *)
Promise == INSTANCE SharedExecutors WITH
  Holder <- Ops, Executor <- Executors, Nobody <- Null,
  holders <- [e \in Executors |-> HoldersOf(e)],
  alive <- {e \in live : executorCount[e] > 0}

ImplementsPromise == Promise!Spec
=============================================================================
