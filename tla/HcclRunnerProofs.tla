-------------------------- MODULE HcclRunnerProofs --------------------------
(***************************************************************************)
(* The safety of the exchange of root informations, for any number of       *)
(* ranks, segments, calls, restarts and failures.  The exchange is safe     *)
(* because the semaphore makes the looks at the segment and what follows     *)
(* from them one step (Mutex), because the one segment there is (OneSegment) *)
(* is cleared by the first to attach it (Live, Fresh), and because nobody    *)
(* starts a new exchange before all have left the old one (Exchange).       *)
(***************************************************************************)
EXTENDS HcclRunner, FiniteSetTheorems, TLAPS

\* Program points: where the semaphore is held, where the segment is attached, where the
\* root information is known, and those after the barrier.
Critical == {"get", "attach", "stat", "write", "read", "set", "scan", "detach", "remove"}
WithSegment == {"stat", "publish", "write", "poll", "read", "ready", "set", "check", "scan"}
Informed == {"publish", "write", "ready", "set", "check", "scan"}
Leaving == {"cleanup", "detach", "remove"}

\* What a process knows of itself, whatever the others do.
LocalTo(r) ==
    /\ pc[r] \in {"create", "get"} => shmid[r] = None
    /\ pc[r] = "attach" => shmid[r] # None
    /\ pc[r] \in WithSegment => att[r] # None
    /\ att[r] # None => att[r] = shmid[r] /\ pc[r] \in WithSegment \cup {"cleanup", "detach"}
    /\ pc[r] \in Informed \/ ok[r] => info[r] # 0
    /\ ok[r] => pc[r] \in Leaving \cup {"init", "idle"}
    /\ ok[r] /\ pc[r] \in {"cleanup", "detach"} => att[r] # None
    /\ pc[r] \in {"publish", "write"} => r = RankRoot
    /\ pc[r] \in {"poll", "read"} => r # RankRoot
    /\ pc[r] = "init" => <<r, info[r]>> \in joined

Local == \A r \in Ranks : LocalTo(r)

\* A segment that is signalled has a root information.
Filled == \A s \in Segments : mem[s].signal => mem[s].hcclRootInfo # 0

\* As long as nobody went on without the semaphore, those in a critical section hold it,
\* and there is one of them.
Mutex ==
    "lock" \notin occurred =>
        /\ holders = {r \in Ranks : pc[r] \in Critical}
        /\ \A q, r \in holders : q = r
        /\ sem \in {0, 1}
        /\ sem = 1 => holders = {}

\* There is one segment: the key leads to the one that is attached, and the others are empty.
OneSegment ==
    "lock" \notin occurred =>
        /\ \A r \in Ranks : /\ att[r] # None => att[r] = segOfKey
                            /\ pc[r] = "attach" => shmid[r] = segOfKey
        /\ \A s \in Segments : s # segOfKey => mem[s] = Zero

\* Somebody has attached the segment and, if he was the first, has cleared it.
Live == \E r \in Ranks : att[r] # None /\ pc[r] # "stat"

\* What is left of an earlier run is not in a segment that is in use, nor with a rank.
Fresh ==
    "lock" \notin occurred =>
        /\ Live => (mem[segOfKey].signal => mem[segOfKey].hcclRootInfo > runStart)
        /\ \A r \in Ranks : info[r] # 0 => info[r] > runStart

\* A segment that exists after the first call has somebody who will try to remove it.
Removable ==
    (segOfKey # None /\ "lookup" \notin occurred /\ \E r \in Ranks : call[r] > 0) =>
        \E r \in Ranks : \/ pc[r] \in {"create", "get"}
                         \/ pc[r] \notin {"idle", "init", "create", "get"} /\ shmid[r] = segOfKey

Signal == mem[segOfKey].signal
RootInfo == mem[segOfKey].hcclRootInfo
Barrier == mem[segOfKey].barrier

\* What is true of a rank in the exchange: whose flag is set, what they know, who has left.
ExchangeOf(q) ==
    /\ pc[q] \in {"ready", "set"} => Signal /\ info[q] = RootInfo
    /\ pc[q] \in {"check", "scan"} => q \in Barrier
    /\ pc[q] \in Leaving => (q \in Barrier <=> ok[q])
    /\ q \in Barrier =>
          /\ Signal /\ info[q] = RootInfo
          /\ pc[q] \in {"check", "scan", "init"} \cup Leaving
          /\ pc[q] \in {"init"} \cup Leaving => Barrier = Ranks
    /\ Signal /\ <<q, RootInfo>> \in joined => q \in Barrier /\ pc[q] = "init"
    /\ pc[RankRoot] \in {"publish", "write"} => <<q, info[RankRoot]>> \notin joined

\* The root has given the signal, and is still in the exchange.
ExchangeOfRoot ==
    Signal => /\ info[RankRoot] = RootInfo
              /\ RankRoot \in Barrier \/ pc[RankRoot] \in {"ready", "set"}

\* The exchange in a segment that is in use, as long as nothing has separated the ranks.
Exchange == Together /\ Live => ExchangeOfRoot /\ \A q \in Ranks : ExchangeOf(q)

IInv == /\ TypeOK /\ Local /\ Filled
        /\ Mutex /\ OneSegment /\ Fresh
        /\ Removable /\ Exchange
-----------------------------------------------------------------------------
(* Types and what a process knows of itself.                               *)

LEMMA PointNames ==
  /\ LockPoints = {"create", "publish", "poll", "ready", "check", "cleanup"}
  /\ Points = {"create", "publish", "poll", "ready", "check", "cleanup", "idle", "init",
                "get", "attach", "stat", "write", "read", "set", "scan", "detach", "remove"}
  /\ Inside["create"] = "get" /\ Inside["publish"] = "write" /\ Inside["poll"] = "read"
  /\ Inside["ready"] = "set" /\ Inside["check"] = "scan" /\ Inside["cleanup"] = "detach"
<1>1. LockPoints = {"create", "publish", "poll", "ready", "check", "cleanup"}
  BY DEF LockPoints, Inside
<1>2. /\ Inside["create"] = "get" /\ Inside["publish"] = "write" /\ Inside["poll"] = "read"
      /\ Inside["ready"] = "set" /\ Inside["check"] = "scan" /\ Inside["cleanup"] = "detach"
  BY DEF Inside
<1>3. {Inside[p] : p \in LockPoints} = {"get", "write", "read", "set", "scan", "detach"}
  BY <1>1, <1>2
<1> QED
  BY <1>1, <1>2, <1>3 DEF Points

\* There is a segment for whoever makes one: each other rank uses at most one.
LEMMA NewSegmentExists ==
  ASSUME TypeOK, Local, NEW r \in Ranks, pc[r] = "get", segOfKey = None
  PROVE  /\ NewSegment \in Segments
         /\ ~Exists(NewSegment)
<1> DEFINE Others == Ranks \ {r}
           Used == {shmid[q] : q \in Others}
<1>1. IsFiniteSet(Others) /\ Cardinality(Others) < Cardinality(Ranks)
  <2>1. IsFiniteSet(Ranks)
    BY HcclRunnerAssumption
  <2>2. IsFiniteSet(Others) /\ Cardinality(Others) = Cardinality(Ranks) - 1
    BY <2>1, FS_RemoveElement
  <2> QED
    BY <2>1, <2>2, FS_CardinalityType
<1>2. IsFiniteSet(Used) /\ Cardinality(Used) <= Cardinality(Others)
  <2>1. \A q \in Others : shmid[q] \in Used
    OBVIOUS
  <2>2. [q \in Others |-> shmid[q]] \in Surjection(Others, Used)
    BY DEF Surjection
  <2> QED
    BY <1>1, <2>2, FS_Surjection
<1>3. \E s \in Segments : s \notin Used
  <2> SUFFICES ASSUME Segments \subseteq Used PROVE FALSE
    OBVIOUS
  <2>1. IsFiniteSet(Segments) /\ Cardinality(Segments) <= Cardinality(Used)
    BY <1>2, FS_Subset
  <2> QED
    BY <1>1, <1>2, <2>1, HcclRunnerAssumption, FS_CardinalityType
<1>4. PICK s \in Segments : s \notin Used
  BY <1>3
<1>5. s # None /\ shmid[r] = None
  BY HcclRunnerAssumption DEF Local, LocalTo
<1>6. \A q \in Ranks : shmid[q] # s
  BY <1>4, <1>5
<1>7. ~Exists(s)
  BY <1>5, <1>6 DEF Exists, Attached, Local, LocalTo
<1> QED
  BY <1>6, <1>7 DEF NewSegment

LEMMA InitHolds == Init => IInv
<1> SUFFICES ASSUME Init PROVE IInv
  OBVIOUS
<1> USE DEF Init
<1>1. TypeOK
  BY HcclRunnerAssumption, PointNames DEF TypeOK, Zero
<1>2. Local /\ Filled
  BY DEF Local, LocalTo, Filled, Zero, WithSegment, Informed, Leaving
<1>3. Mutex /\ OneSegment
  BY DEF Mutex, OneSegment, Critical
<1>4. Fresh /\ Removable /\ Exchange
  BY DEF Fresh, Removable, Exchange, Live
<1> QED
  BY <1>1, <1>2, <1>3, <1>4 DEF IInv

\* The contents of a segment, with root informations up to n.
Contents(n) == [signal : BOOLEAN, hcclRootInfo : 0 .. n, barrier : SUBSET Ranks]

LEMMA ContentsType ==
  ASSUME NEW n \in Nat, NEW m \in [Segments -> Contents(n)], NEW s \in Segments
  PROVE  /\ [m EXCEPT ![s] = Zero] \in [Segments -> Contents(n)]
         /\ \A i \in 0 .. n : [m EXCEPT ![s].hcclRootInfo = i, ![s].signal = TRUE] \in [Segments -> Contents(n)]
         /\ \A r \in Ranks : [m EXCEPT ![s].barrier = @ \cup {r}] \in [Segments -> Contents(n)]
         /\ m[s].hcclRootInfo \in 0 .. n
         /\ m \in [Segments -> Contents(n + 1)]
<1>1. Zero \in Contents(n)
  BY DEF Zero, Contents
<1>2. m[s] \in Contents(n)
  OBVIOUS
<1>3. \A i \in 0 .. n : [m[s] EXCEPT !.hcclRootInfo = i, !.signal = TRUE] \in Contents(n)
  BY <1>2 DEF Contents
<1>4. \A r \in Ranks : [m[s] EXCEPT !.barrier = @ \cup {r}] \in Contents(n)
  BY <1>2 DEF Contents
<1>5. Contents(n) \subseteq Contents(n + 1)
  BY DEF Contents
<1> QED
  BY <1>1, <1>2, <1>3, <1>4, <1>5 DEF Contents

\* Who is at such a point has attached a segment, and which one.
LEMMA AttachedAt ==
  ASSUME TypeOK, Local, NEW r \in Ranks
  PROVE  /\ pc[r] \in {"stat", "publish", "write", "poll", "read", "ready", "set", "check", "scan"}
              => att[r] \in Segments
         /\ ok[r] => info[r] \in 1 .. lastInfo
<1>1. att[r] \in Segments \cup {None} /\ info[r] \in 0 .. lastInfo /\ lastInfo \in Nat
  BY DEF TypeOK
<1>2. pc[r] \in WithSegment => att[r] # None
  BY DEF Local, LocalTo
<1>3. ok[r] => info[r] # 0
  BY DEF Local, LocalTo
<1> QED
  BY <1>1, <1>2, <1>3 DEF WithSegment

LEMMA TypeKept ==
  ASSUME TypeOK, Local, Filled, [Next]_vars
  PROVE  TypeOK'
<1>0. /\ lastInfo \in Nat
      /\ mem \in [Segments -> Contents(lastInfo)]
      /\ mem' \in [Segments -> Contents(lastInfo')] =>
           mem' \in [Segments -> [signal : BOOLEAN, hcclRootInfo : 0 .. lastInfo', barrier : SUBSET Ranks]]
  BY DEF TypeOK, Contents
<1>a. \A r \in Ranks : pc[r] \in LockPoints => Inside[pc[r]] \in Points
  BY PointNames
<1>b. \A r \in Ranks : /\ att[r] # None => [mem EXCEPT ![att[r]] = Zero] \in [Segments -> Contents(lastInfo)]
                       /\ shmid[r] # None => [mem EXCEPT ![shmid[r]] = Zero] \in [Segments -> Contents(lastInfo)]
  BY <1>0, ContentsType DEF TypeOK
<1> USE DEF Goto, SemUnLock, history, system, process
<1>1. ASSUME NEW r \in Ranks, SemLock(r) PROVE TypeOK'
  BY <1>1, <1>a DEF SemLock, Available, TypeOK
<1>2. ASSUME NEW r \in Ranks, SemLockTimesOut(r) PROVE TypeOK'
  BY <1>2, <1>a DEF SemLockTimesOut, TypeOK
<1>3. ASSUME NEW r \in Ranks, GetSegment(r) PROVE TypeOK'
  <2>1. segOfKey = None => NewSegment \in Segments
    BY <1>3, NewSegmentExists DEF GetSegment
  <2> QED
    BY <1>3, <2>1, PointNames DEF GetSegment, TypeOK
<1>4. ASSUME NEW r \in Ranks, AttachSegment(r) PROVE TypeOK'
  BY <1>4, PointNames DEF AttachSegment, TypeOK
<1>5. ASSUME NEW r \in Ranks, AttachFails(r) PROVE TypeOK'
  <2>1. occurred' \subseteq occurred \cup {"lookup", "attach"}
    BY <1>5 DEF AttachFails
  <2>2. pc' = [pc EXCEPT ![r] = "cleanup"] /\ sem' = sem + 1 /\ holders' = holders \ {r}
    BY <1>5 DEF AttachFails
  <2>3. UNCHANGED <<call, info, ok, shmid, att, segOfKey, mem, lastInfo, joined, restarts, runStart>>
    BY <1>5 DEF AttachFails
  <2> QED
    BY <2>1, <2>2, <2>3, PointNames DEF TypeOK, FaultKinds
<1>6. ASSUME NEW r \in Ranks, StatSegment(r) PROVE TypeOK'
  <2>1. mem' \in [Segments -> Contents(lastInfo)]
    <3>1. att[r] # None
      BY <1>6 DEF StatSegment, Local, LocalTo, WithSegment
    <3> QED
      BY <1>6, <1>0, <1>b, <3>1 DEF StatSegment, Wiped
  <2>2. /\ lastInfo' \in {lastInfo, lastInfo + 1}
        /\ info' = info \/ info' = [info EXCEPT ![r] = lastInfo']
    BY <1>6 DEF StatSegment
  <2>3. mem' \in [Segments -> Contents(lastInfo')]
    <3>1. Contents(lastInfo) \subseteq Contents(lastInfo')
      BY <1>0, <2>2 DEF Contents
    <3> QED
      BY <2>1, <3>1
  <2>4. info' \in [Ranks -> 0 .. lastInfo']
    BY <2>2 DEF TypeOK
  <2>5. /\ pc' \in [Ranks -> Points] /\ occurred' \subseteq FaultKinds \cup {"lock"}
        /\ sem' \in Nat /\ holders' \subseteq Ranks
    <3>1. \/ pc' = [pc EXCEPT ![r] = "publish"] /\ UNCHANGED occurred
          \/ pc' = [pc EXCEPT ![r] = "cleanup"] /\ occurred' = occurred \cup {"rootInfo"}
          \/ pc' = [pc EXCEPT ![r] = "poll"] /\ UNCHANGED occurred
      BY <1>6 DEF StatSegment
    <3>2. sem' = sem + 1 /\ holders' = holders \ {r}
      BY <1>6 DEF StatSegment
    <3>3. pc' \in [Ranks -> Points]
      BY <3>1, PointNames DEF TypeOK
    <3>4. occurred' \subseteq FaultKinds \cup {"lock"}
      BY <3>1 DEF TypeOK, FaultKinds
    <3> QED
      BY <3>2, <3>3, <3>4 DEF TypeOK
  <2>6. UNCHANGED <<call, ok, shmid, att, segOfKey, joined, restarts, runStart>>
    BY <1>6 DEF StatSegment
  <2> QED
    BY <1>0, <2>2, <2>3, <2>4, <2>5, <2>6 DEF TypeOK
<1>7. ASSUME NEW r \in Ranks, CreateHcclRootInfo(r) PROVE TypeOK'
  BY <1>7, PointNames, HcclRunnerAssumption DEF CreateHcclRootInfo, TypeOK
<1>8. ASSUME NEW r \in Ranks, ShmSetHcclRootInfo(r) PROVE TypeOK'
  <2>1. att[r] \in Segments /\ info[r] \in 0 .. lastInfo
    BY <1>8, AttachedAt DEF ShmSetHcclRootInfo, TypeOK
  <2>2. mem' \in [Segments -> Contents(lastInfo)]
    BY <1>8, <1>0, <2>1, ContentsType DEF ShmSetHcclRootInfo
  <2>3. mem' \in [Segments -> Contents(lastInfo')]
    BY <1>8, <2>2 DEF ShmSetHcclRootInfo
  <2>4. /\ pc' \in [Ranks -> Points] /\ sem' \in Nat /\ holders' \subseteq Ranks
        /\ UNCHANGED <<call, info, ok, shmid, att, segOfKey, history>>
    BY <1>8, PointNames DEF ShmSetHcclRootInfo, TypeOK
  <2> QED
    BY <1>0, <2>3, <2>4 DEF TypeOK
<1>9. ASSUME NEW r \in Ranks, ShmGetHcclRootInfo(r) PROVE TypeOK'
  <2>1. att[r] \in Segments
    BY <1>9, AttachedAt DEF ShmGetHcclRootInfo
  <2>2. mem[att[r]].hcclRootInfo \in 0 .. lastInfo
    BY <1>0, <2>1, ContentsType
  <2> QED
    BY <1>9, <2>2, PointNames DEF ShmGetHcclRootInfo, TypeOK
<1>10. ASSUME NEW r \in Ranks, ShmSetReady(r) PROVE TypeOK'
  <2>1. att[r] \in Segments
    BY <1>10, AttachedAt DEF ShmSetReady
  <2>2. mem' \in [Segments -> Contents(lastInfo)]
    BY <1>10, <1>0, <2>1, ContentsType DEF ShmSetReady
  <2>3. mem' \in [Segments -> Contents(lastInfo')]
    BY <1>10, <2>2 DEF ShmSetReady
  <2>4. /\ pc' \in [Ranks -> Points] /\ sem' \in Nat /\ holders' \subseteq Ranks
        /\ UNCHANGED <<call, info, ok, shmid, att, segOfKey, history>>
    BY <1>10, PointNames DEF ShmSetReady, TypeOK
  <2> QED
    BY <1>0, <2>3, <2>4 DEF TypeOK
<1>11. ASSUME NEW r \in Ranks, ShmBarrier(r) PROVE TypeOK'
  BY <1>11, PointNames DEF ShmBarrier, AllReady, TypeOK
<1>12. ASSUME NEW r \in Ranks, ShmBarrierTimesOut(r) PROVE TypeOK'
  BY <1>12, PointNames DEF ShmBarrierTimesOut, TypeOK, FaultKinds
<1>13. ASSUME NEW r \in Ranks, Detach(r) PROVE TypeOK'
  BY <1>13, PointNames DEF Detach, TypeOK
<1>14. ASSUME NEW r \in Ranks, RemoveSegment(r) PROVE TypeOK'
  <2>1. mem' \in [Segments -> Contents(lastInfo)] /\ segOfKey' \in Segments \cup {None}
    <3>1. CASE segOfKey = shmid[r] /\ NoneAttached(shmid[r])
      <4>1. mem' = [mem EXCEPT ![shmid[r]] = Zero] /\ segOfKey' = None
        BY <1>14, <3>1 DEF RemoveSegment
      <4>2. shmid[r] = None => mem' = mem
        BY <1>0, <4>1, HcclRunnerAssumption
      <4> QED
        BY <1>0, <1>b, <4>1, <4>2
    <3>2. CASE ~(segOfKey = shmid[r] /\ NoneAttached(shmid[r]))
      BY <1>14, <1>0, <3>2 DEF RemoveSegment, TypeOK
    <3> QED
      BY <3>1, <3>2
  <2>2. joined' \subseteq Ranks \X (1 .. lastInfo)
    BY <1>14, AttachedAt DEF RemoveSegment, TypeOK
  <2>3. /\ pc' \in [Ranks -> Points] /\ shmid' \in [Ranks -> Segments \cup {None}]
        /\ sem' \in Nat /\ holders' \subseteq Ranks
        /\ UNCHANGED <<call, info, ok, att, lastInfo, restarts, runStart, occurred>>
    BY <1>14, PointNames DEF RemoveSegment, TypeOK
  <2>4. mem' \in [Segments -> Contents(lastInfo')]
    BY <2>1, <2>3
  <2> QED
    BY <1>0, <2>1, <2>2, <2>3, <2>4 DEF TypeOK
<1>15. ASSUME NEW r \in Ranks, HcclCommInitRootInfo(r) PROVE TypeOK'
  BY <1>15, PointNames DEF HcclCommInitRootInfo, TypeOK
<1>16. ASSUME NEW r \in Ranks, HcclCommInitRootInfoFails(r) PROVE TypeOK'
  BY <1>16, PointNames DEF HcclCommInitRootInfoFails, TypeOK, FaultKinds
<1>17. CASE Restart
  BY <1>17, PointNames, HcclRunnerAssumption DEF Restart, TypeOK
<1>18. CASE UNCHANGED vars
  BY <1>18 DEF vars, TypeOK
<1> QED
  BY <1>1, <1>2, <1>3, <1>4, <1>5, <1>6, <1>7, <1>8, <1>9, <1>10, <1>11, <1>12, <1>13, <1>14, <1>15, <1>16, <1>17, <1>18
  DEF Next, Step, Fail

LEMMA LocalKept ==
  ASSUME TypeOK, Local, Filled, [Next]_vars
  PROVE  Local' /\ Filled'
<1> USE DEF Goto, SemUnLock, history, system, process
<1>t. /\ pc \in [Ranks -> Points] /\ info \in [Ranks -> 0 .. lastInfo] /\ lastInfo \in Nat
      /\ shmid \in [Ranks -> Segments \cup {None}] /\ att \in [Ranks -> Segments \cup {None}]
      /\ ok \in [Ranks -> BOOLEAN] /\ segOfKey \in Segments \cup {None}
      /\ mem \in [Segments -> [signal : BOOLEAN, hcclRootInfo : 0 .. lastInfo, barrier : SUBSET Ranks]]
  BY DEF TypeOK
<1> USE <1>t DEF Local, LocalTo, Filled, WithSegment, Informed, Leaving
<1>1. ASSUME NEW r \in Ranks, SemLock(r) PROVE Local' /\ Filled'
  BY <1>1, PointNames DEF SemLock
<1>2. ASSUME NEW r \in Ranks, SemLockTimesOut(r) PROVE Local' /\ Filled'
  BY <1>2, PointNames DEF SemLockTimesOut
<1>3. ASSUME NEW r \in Ranks, GetSegment(r) PROVE Local' /\ Filled'
  <2>1. segOfKey = None => NewSegment \in Segments
    BY <1>3, NewSegmentExists DEF GetSegment
  <2>2. shmid'[r] # None
    BY <1>3, <2>1, HcclRunnerAssumption DEF GetSegment
  <2>3. /\ UNCHANGED <<att, info, ok, joined, mem>> /\ pc[r] = "get" /\ pc' = [pc EXCEPT ![r] = "attach"]
        /\ \A q \in Ranks : q # r => shmid'[q] = shmid[q]
    BY <1>3 DEF GetSegment
  <2>4. ASSUME NEW q \in Ranks, q # r PROVE LocalTo(q)'
    BY <2>3, <2>4
  <2>5. LocalTo(r)'
    BY <2>2, <2>3
  <2> QED
    BY <2>3, <2>4, <2>5
<1>4. ASSUME NEW r \in Ranks, AttachSegment(r) PROVE Local' /\ Filled'
  BY <1>4 DEF AttachSegment
<1>5. ASSUME NEW r \in Ranks, AttachFails(r) PROVE Local' /\ Filled'
  BY <1>5 DEF AttachFails
<1>6. ASSUME NEW r \in Ranks, StatSegment(r) PROVE Local' /\ Filled'
  <2>1. \/ pc' = [pc EXCEPT ![r] = "publish"] /\ info' = [info EXCEPT ![r] = lastInfo + 1] /\ r = RankRoot
        \/ pc' = [pc EXCEPT ![r] = "cleanup"] /\ info' = info
        \/ pc' = [pc EXCEPT ![r] = "poll"] /\ info' = info /\ r # RankRoot
    BY <1>6 DEF StatSegment
  <2>2. UNCHANGED <<call, ok, shmid, att, segOfKey, joined, restarts, runStart>> /\ pc[r] = "stat"
    BY <1>6 DEF StatSegment
  <2>3. Local'
    <3>4. ASSUME NEW q \in Ranks, q # r PROVE LocalTo(q)'
      BY <2>1, <2>2, <3>4
    <3>5. att[r] # None /\ att[r] = shmid[r] /\ ~ok[r]
      BY <2>2
    <3>6. info'[r] # 0 \/ pc'[r] \notin Informed
      BY <2>1, <2>2
    <3>7. /\ pc'[r] \in {"publish", "cleanup", "poll"}
          /\ pc'[r] = "publish" => r = RankRoot
          /\ pc'[r] = "poll" => r # RankRoot
      BY <2>1
    <3>8. LocalTo(r)'
      BY <2>2, <3>5, <3>6, <3>7
    <3> QED
      BY <3>4, <3>8
  <2>4. Filled'
    BY <1>6 DEF StatSegment, Wiped, Zero
  <2> QED
    BY <2>3, <2>4
<1>7. ASSUME NEW r \in Ranks, CreateHcclRootInfo(r) PROVE Local' /\ Filled'
  BY <1>7 DEF CreateHcclRootInfo
<1>8. ASSUME NEW r \in Ranks, ShmSetHcclRootInfo(r) PROVE Local' /\ Filled'
  BY <1>8 DEF ShmSetHcclRootInfo
<1>9. ASSUME NEW r \in Ranks, ShmGetHcclRootInfo(r) PROVE Local' /\ Filled'
  <2>1. att[r] \in Segments
    BY <1>9, AttachedAt DEF ShmGetHcclRootInfo
  <2>2. \/ /\ pc' = [pc EXCEPT ![r] = "ready"] /\ info' = [info EXCEPT ![r] = mem[att[r]].hcclRootInfo]
           /\ mem[att[r]].hcclRootInfo # 0
        \/ pc' = [pc EXCEPT ![r] = "poll"] /\ info' = info
    BY <1>9, <2>1 DEF ShmGetHcclRootInfo, Signalled
  <2>3. UNCHANGED <<ok, shmid, att, mem, joined>> /\ pc[r] = "read"
    BY <1>9 DEF ShmGetHcclRootInfo
  <2>4. ASSUME NEW q \in Ranks, q # r PROVE LocalTo(q)'
    BY <2>2, <2>3, <2>4
  <2>5. LocalTo(r)'
    BY <2>2, <2>3
  <2> QED
    BY <2>3, <2>4, <2>5
<1>10. ASSUME NEW r \in Ranks, ShmSetReady(r) PROVE Local' /\ Filled'
  BY <1>10 DEF ShmSetReady
<1>11. ASSUME NEW r \in Ranks, ShmBarrier(r) PROVE Local' /\ Filled'
  BY <1>11 DEF ShmBarrier, AllReady
<1>12. ASSUME NEW r \in Ranks, ShmBarrierTimesOut(r) PROVE Local' /\ Filled'
  BY <1>12 DEF ShmBarrierTimesOut
<1>13. ASSUME NEW r \in Ranks, Detach(r) PROVE Local' /\ Filled'
  BY <1>13 DEF Detach
<1>14. ASSUME NEW r \in Ranks, RemoveSegment(r) PROVE Local' /\ Filled'
  BY <1>14 DEF RemoveSegment, Zero
<1>15. ASSUME NEW r \in Ranks, HcclCommInitRootInfo(r) PROVE Local' /\ Filled'
  BY <1>15 DEF HcclCommInitRootInfo
<1>16. ASSUME NEW r \in Ranks, HcclCommInitRootInfoFails(r) PROVE Local' /\ Filled'
  BY <1>16 DEF HcclCommInitRootInfoFails
<1>17. CASE Restart
  BY <1>17 DEF Restart
<1>18. CASE UNCHANGED vars
  BY <1>18 DEF vars
<1> QED
  BY <1>1, <1>2, <1>3, <1>4, <1>5, <1>6, <1>7, <1>8, <1>9, <1>10, <1>11, <1>12, <1>13, <1>14, <1>15, <1>16, <1>17, <1>18
  DEF Next, Step, Fail
-----------------------------------------------------------------------------
(* The semaphore.                                                          *)

\* Once a process has gone on without the semaphore, that is remembered.
LEMMA LockIsRemembered ==
  ASSUME [Next]_vars, "lock" \notin occurred' PROVE "lock" \notin occurred
BY DEF Next, Step, Fail, vars, process, system, history, SemLock, SemLockTimesOut, GetSegment,
  AttachSegment, AttachFails, StatSegment, CreateHcclRootInfo, ShmSetHcclRootInfo, ShmGetHcclRootInfo,
  ShmSetReady, ShmBarrier, ShmBarrierTimesOut, Detach, RemoveSegment, HcclCommInitRootInfo,
  HcclCommInitRootInfoFails, Restart

\* A process leaves its critical section.
LEMMA LeaveKeepsMutex ==
  ASSUME TypeOK, Mutex, "lock" \notin occurred,
         NEW r \in Ranks, NEW p, pc[r] \in Critical, p \notin Critical,
         SemUnLock(r), Goto(r, p)
  PROVE  Mutex'
<1>1. r \in holders /\ sem = 0
  BY DEF Mutex
<1>2. holders' = {} /\ sem' = 1
  BY <1>1 DEF Mutex, SemUnLock
<1>3. \A q \in Ranks : pc'[q] \notin Critical
  BY <1>1 DEF Mutex, Goto, TypeOK
<1> QED
  BY <1>2, <1>3 DEF Mutex

\* A process stays where it is in this respect, in a critical section or outside.
LEMMA StayKeepsMutex ==
  ASSUME TypeOK, Mutex, "lock" \notin occurred,
         NEW r \in Ranks, NEW p, pc[r] \in Critical <=> p \in Critical,
         UNCHANGED <<sem, holders>>, Goto(r, p)
  PROVE  Mutex'
<1>1. \A q \in Ranks : pc'[q] \in Critical <=> pc[q] \in Critical
  BY DEF Goto, TypeOK
<1> QED
  BY <1>1 DEF Mutex

LEMMA MutexKept ==
  ASSUME TypeOK, Mutex, [Next]_vars
  PROVE  Mutex'
<1> SUFFICES ASSUME "lock" \notin occurred' PROVE Mutex'
  BY DEF Mutex
<1>0. "lock" \notin occurred
  BY LockIsRemembered
<1> USE <1>0
<1>1. ASSUME NEW r \in Ranks, SemLock(r) PROVE Mutex'
  <2>1. sem = 1 /\ holders = {}
    BY <1>1 DEF Mutex, SemLock, Available
  <2>2. sem' = 0 /\ holders' = {r}
    BY <1>1, <2>1 DEF SemLock
  <2>3. pc'[r] \in Critical /\ \A q \in Ranks \ {r} : pc'[q] \notin Critical
    BY <1>1, <2>1, PointNames DEF Mutex, SemLock, Goto, TypeOK, Critical
  <2> QED
    BY <2>2, <2>3 DEF Mutex
<1>2. ASSUME NEW r \in Ranks, SemLockTimesOut(r) PROVE Mutex'
  BY <1>2 DEF SemLockTimesOut
<1>3. ASSUME NEW r \in Ranks, GetSegment(r) \/ AttachSegment(r) \/ Detach(r) PROVE Mutex'
  <2>1. PICK p \in Critical : pc[r] \in Critical /\ Goto(r, p)
    BY <1>3 DEF GetSegment, AttachSegment, Detach, Critical
  <2>2. UNCHANGED <<sem, holders>>
    BY <1>3 DEF GetSegment, AttachSegment, Detach, system
  <2> QED
    BY <2>1, <2>2, StayKeepsMutex
<1>4. ASSUME NEW r \in Ranks,
             \/ CreateHcclRootInfo(r) \/ ShmBarrierTimesOut(r)
             \/ HcclCommInitRootInfo(r) \/ HcclCommInitRootInfoFails(r)
      PROVE Mutex'
  <2>1. PICK p \in {"create", "cleanup", "idle"} : pc[r] \notin Critical /\ Goto(r, p)
    BY <1>4 DEF CreateHcclRootInfo, ShmBarrierTimesOut, HcclCommInitRootInfo, HcclCommInitRootInfoFails, Critical
  <2>2. UNCHANGED <<sem, holders>> /\ p \notin Critical
    BY <1>4 DEF CreateHcclRootInfo, ShmBarrierTimesOut, HcclCommInitRootInfo, HcclCommInitRootInfoFails,
      system, Critical
  <2> QED
    BY <2>1, <2>2, StayKeepsMutex
<1>5. ASSUME NEW r \in Ranks,
             \/ AttachFails(r) \/ StatSegment(r) \/ ShmSetHcclRootInfo(r) \/ ShmGetHcclRootInfo(r)
             \/ ShmSetReady(r) \/ ShmBarrier(r) \/ RemoveSegment(r)
      PROVE Mutex'
  <2>1. pc[r] \in Critical /\ SemUnLock(r)
    BY <1>5 DEF AttachFails, StatSegment, ShmSetHcclRootInfo, ShmGetHcclRootInfo, ShmSetReady, ShmBarrier,
      RemoveSegment, Critical
  <2>2. PICK p \in {"cleanup", "publish", "poll", "ready", "check", "init", "idle"} : Goto(r, p)
    BY <1>5 DEF AttachFails, StatSegment, ShmSetHcclRootInfo, ShmGetHcclRootInfo, ShmSetReady, ShmBarrier,
      RemoveSegment
  <2>3. p \notin Critical
    BY DEF Critical
  <2> QED
    BY <2>1, <2>2, <2>3, LeaveKeepsMutex
<1>6. CASE Restart
  BY <1>6 DEF Restart, Mutex, Critical, TypeOK
<1>7. CASE UNCHANGED vars
  BY <1>7 DEF vars, process, system, history, Mutex
<1> QED
  BY <1>1, <1>2, <1>3, <1>4, <1>5, <1>6, <1>7 DEF Next, Step, Fail
-----------------------------------------------------------------------------
(* The segment.                                                            *)

LEMMA Alone ==
  ASSUME Mutex, "lock" \notin occurred,
         NEW q \in Ranks, NEW r \in Ranks, pc[q] \in Critical, pc[r] \in Critical
  PROVE  q = r
BY DEF Mutex

LEMMA OneSegmentKept ==
  ASSUME TypeOK, Local, Mutex, OneSegment, [Next]_vars
  PROVE  OneSegment'
<1> SUFFICES ASSUME "lock" \notin occurred' PROVE OneSegment'
  BY DEF OneSegment
<1>0. "lock" \notin occurred
  BY LockIsRemembered
<1>t. pc \in [Ranks -> Points] /\ shmid \in [Ranks -> Segments \cup {None}]
      /\ att \in [Ranks -> Segments \cup {None}]
  BY DEF TypeOK
<1> USE <1>0, <1>t DEF Goto, SemUnLock, history, system, process
<1>1. ASSUME NEW r \in Ranks, SemLock(r) PROVE OneSegment'
  BY <1>1, PointNames DEF SemLock, OneSegment
<1>2. ASSUME NEW r \in Ranks, SemLockTimesOut(r) PROVE OneSegment'
  BY <1>2 DEF SemLockTimesOut
<1>3. ASSUME NEW r \in Ranks, GetSegment(r) PROVE OneSegment'
  <2>1. \A q \in Ranks : q # r => pc[q] # "attach"
    BY <1>3, Alone DEF GetSegment, Critical
  <2>2. CASE segOfKey # None
    BY <1>3, <2>1, <2>2 DEF GetSegment, OneSegment
  <2>3. CASE segOfKey = None
    <3>1. \A q \in Ranks : att'[q] = None
      BY <1>3, <2>3 DEF GetSegment, OneSegment
    <3>2. \A s \in Segments : mem'[s] = Zero
      BY <1>3, <2>3, HcclRunnerAssumption DEF GetSegment, OneSegment
    <3>3. \A q \in Ranks : pc'[q] = "attach" => shmid'[q] = segOfKey'
      BY <1>3, <2>1, <2>3 DEF GetSegment
    <3> QED
      BY <3>1, <3>2, <3>3 DEF OneSegment
  <2> QED
    BY <2>2, <2>3
<1>4. ASSUME NEW r \in Ranks, AttachSegment(r) PROVE OneSegment'
  BY <1>4 DEF AttachSegment, OneSegment
<1>5. ASSUME NEW r \in Ranks, AttachFails(r) PROVE OneSegment'
  BY <1>5 DEF AttachFails, OneSegment
<1>6. ASSUME NEW r \in Ranks, StatSegment(r) PROVE OneSegment'
  <2>1. att[r] = segOfKey
    BY <1>6 DEF StatSegment, OneSegment, Local, LocalTo, WithSegment
  <2>2. \A s \in Segments : s # segOfKey => mem'[s] = mem[s]
    BY <1>6, <2>1 DEF StatSegment, Wiped, TypeOK
  <2>3. \A q \in Ranks : pc'[q] = "attach" => pc[q] = "attach"
    BY <1>6 DEF StatSegment
  <2> QED
    BY <1>6, <2>2, <2>3 DEF StatSegment, OneSegment
<1>7. ASSUME NEW r \in Ranks, CreateHcclRootInfo(r) PROVE OneSegment'
  BY <1>7 DEF CreateHcclRootInfo, OneSegment
<1>8. ASSUME NEW r \in Ranks, ShmSetHcclRootInfo(r) \/ ShmSetReady(r) PROVE OneSegment'
  <2>1. att[r] = segOfKey
    BY <1>8 DEF ShmSetHcclRootInfo, ShmSetReady, OneSegment, Local, LocalTo, WithSegment
  <2>2. \A s \in Segments : s # segOfKey => mem'[s] = mem[s]
    BY <1>8, <2>1 DEF ShmSetHcclRootInfo, ShmSetReady, TypeOK
  <2> QED
    BY <1>8, <2>2 DEF ShmSetHcclRootInfo, ShmSetReady, OneSegment
<1>9. ASSUME NEW r \in Ranks, ShmGetHcclRootInfo(r) \/ ShmBarrier(r) \/ ShmBarrierTimesOut(r) PROVE OneSegment'
  BY <1>9 DEF ShmGetHcclRootInfo, ShmBarrier, ShmBarrierTimesOut, OneSegment
<1>10. ASSUME NEW r \in Ranks, Detach(r) PROVE OneSegment'
  BY <1>10 DEF Detach, OneSegment
<1>11. ASSUME NEW r \in Ranks, RemoveSegment(r) PROVE OneSegment'
  <2>1. \A q \in Ranks : pc'[q] # "attach"
    BY <1>11, Alone DEF RemoveSegment, Critical
  <2>2. CASE segOfKey = shmid[r] /\ NoneAttached(shmid[r])
    <3>1. \A q \in Ranks : att[q] = None
      BY <2>2 DEF NoneAttached, Attached, OneSegment
    <3>2. \A s \in Segments : mem'[s] = Zero
      BY <1>11, <2>2 DEF RemoveSegment, OneSegment, TypeOK
    <3>3. att' = att
      BY <1>11 DEF RemoveSegment
    <3> QED
      BY <2>1, <3>1, <3>2, <3>3 DEF OneSegment
  <2>3. CASE ~(segOfKey = shmid[r] /\ NoneAttached(shmid[r]))
    <3>1. UNCHANGED <<att, mem, segOfKey>>
      BY <1>11, <2>3 DEF RemoveSegment
    <3> QED
      BY <2>1, <3>1 DEF OneSegment
  <2> QED
    BY <2>2, <2>3
<1>12. ASSUME NEW r \in Ranks, HcclCommInitRootInfo(r) \/ HcclCommInitRootInfoFails(r) PROVE OneSegment'
  BY <1>12 DEF HcclCommInitRootInfo, HcclCommInitRootInfoFails, OneSegment
<1>13. CASE Restart
  BY <1>13 DEF Restart, OneSegment
<1>14. CASE UNCHANGED vars
  BY <1>14 DEF vars, OneSegment
<1> QED
  BY <1>1, <1>2, <1>3, <1>4, <1>5, <1>6, <1>7, <1>8, <1>9, <1>10, <1>11, <1>12, <1>13, <1>14
  DEF Next, Step, Fail

\* Who has attached the segment before whoever is about to look at it.
LEMMA FirstOrLive ==
  ASSUME TypeOK, Local, Mutex, OneSegment, "lock" \notin occurred,
         NEW r \in Ranks, StatSegment(r)
  PROVE  /\ att[r] = segOfKey /\ segOfKey \in Segments
         /\ Live \/ (/\ Attached(att[r]) = {r}
                     /\ mem' = [mem EXCEPT ![segOfKey] = Zero]
                     /\ \A q \in Ranks \ {r} : att[q] = None)
         /\ Live => mem' = mem
<1>1. att[r] = segOfKey /\ segOfKey \in Segments
  BY DEF StatSegment, OneSegment, Local, LocalTo, WithSegment, TypeOK
<1>2. \A q \in Ranks : att[q] # None => att[q] = segOfKey
  BY DEF OneSegment
<1>3. \A q \in Ranks : pc[q] = "stat" => q = r
  BY Alone DEF StatSegment, Critical
<1>4. segOfKey # None
  BY <1>1, HcclRunnerAssumption
<1>5. CASE Live
  <2>1. PICK q \in Ranks : att[q] # None /\ pc[q] # "stat"
    BY <1>5 DEF Live
  <2>2. q \in Attached(att[r]) /\ q # r
    BY <1>1, <1>2, <2>1 DEF Attached, StatSegment
  <2> QED
    BY <1>1, <1>5, <2>2 DEF StatSegment, Wiped
<1>6. CASE ~Live
  <2>1. \A q \in Ranks \ {r} : att[q] = None
    BY <1>3, <1>6 DEF Live
  <2>2. Attached(att[r]) = {r}
    BY <1>1, <1>4, <2>1 DEF Attached
  <2> QED
    BY <1>1, <1>6, <2>1, <2>2 DEF StatSegment, Wiped
<1> QED
  BY <1>5, <1>6

\* The steps that leave the contents of a live segment alone.
Quiet(r) ==
  \/ SemLock(r) \/ GetSegment(r) \/ AttachSegment(r) \/ AttachFails(r) \/ CreateHcclRootInfo(r)
  \/ ShmGetHcclRootInfo(r) \/ ShmBarrier(r) \/ ShmBarrierTimesOut(r) \/ Detach(r)
  \/ RemoveSegment(r) \/ HcclCommInitRootInfo(r) \/ HcclCommInitRootInfoFails(r)

LEMMA QuietSteps ==
  ASSUME TypeOK, Local, OneSegment, "lock" \notin occurred,
         NEW r \in Ranks, Quiet(r), Live'
  PROVE  Live /\ UNCHANGED <<segOfKey, mem>>
<1>t. pc \in [Ranks -> Points] /\ att \in [Ranks -> Segments \cup {None}]
  BY DEF TypeOK
<1> USE <1>t DEF Goto, SemUnLock, history, system, process
<1>1. ASSUME \/ CreateHcclRootInfo(r) \/ ShmGetHcclRootInfo(r) \/ ShmBarrier(r)
             \/ ShmBarrierTimesOut(r) \/ HcclCommInitRootInfo(r) \/ HcclCommInitRootInfoFails(r)
      PROVE  Live /\ UNCHANGED <<segOfKey, mem>>
  <2>1. UNCHANGED <<att, segOfKey, mem>> /\ pc[r] # "stat"
    BY <1>1 DEF CreateHcclRootInfo, ShmGetHcclRootInfo, ShmBarrier, ShmBarrierTimesOut,
      HcclCommInitRootInfo, HcclCommInitRootInfoFails
  <2>2. \A q \in Ranks : q # r => pc'[q] = pc[q]
    BY <1>1 DEF CreateHcclRootInfo, ShmGetHcclRootInfo, ShmBarrier, ShmBarrierTimesOut,
      HcclCommInitRootInfo, HcclCommInitRootInfoFails
  <2> QED
    BY <2>1, <2>2 DEF Live
<1>2. ASSUME SemLock(r) PROVE Live /\ UNCHANGED <<segOfKey, mem>>
  BY <1>2, PointNames DEF SemLock, Live
<1>3. ASSUME GetSegment(r) PROVE Live /\ UNCHANGED <<segOfKey, mem>>
  BY <1>3 DEF GetSegment, Live, OneSegment
<1>4. ASSUME AttachSegment(r) \/ AttachFails(r) \/ Detach(r) PROVE Live /\ UNCHANGED <<segOfKey, mem>>
  BY <1>4 DEF AttachSegment, AttachFails, Detach, Live
<1>5. ASSUME RemoveSegment(r) PROVE Live /\ UNCHANGED <<segOfKey, mem>>
  <2>1. Live
    BY <1>5 DEF RemoveSegment, Live
  <2>2. ~NoneAttached(segOfKey)
    BY <2>1 DEF Live, NoneAttached, Attached, OneSegment
  <2> QED
    BY <1>5, <2>1, <2>2 DEF RemoveSegment
<1> QED
  BY <1>1, <1>2, <1>3, <1>4, <1>5 DEF Quiet

LEMMA FreshKept ==
  ASSUME TypeOK, Local, Mutex, OneSegment, Fresh, [Next]_vars
  PROVE  Fresh'
<1> SUFFICES ASSUME "lock" \notin occurred' PROVE Fresh'
  BY DEF Fresh
<1>0. "lock" \notin occurred
  BY LockIsRemembered
<1>t. /\ info \in [Ranks -> 0 .. lastInfo] /\ lastInfo \in Nat /\ runStart \in 0 .. lastInfo
      /\ mem \in [Segments -> [signal : BOOLEAN, hcclRootInfo : 0 .. lastInfo, barrier : SUBSET Ranks]]
  BY DEF TypeOK
<1> USE <1>0 DEF history, system, process
<1>1. ASSUME NEW r \in Ranks, Quiet(r) PROVE Fresh'
  <2>1. runStart' = runStart
    BY <1>1 DEF Quiet, SemLock, GetSegment, AttachSegment, AttachFails, CreateHcclRootInfo, ShmGetHcclRootInfo,
      ShmBarrier, ShmBarrierTimesOut, Detach, RemoveSegment, HcclCommInitRootInfo, HcclCommInitRootInfoFails
  <2>2. Live' => (mem'[segOfKey'].signal => mem'[segOfKey'].hcclRootInfo > runStart)
    BY <1>1, QuietSteps DEF Fresh
  <2>3. ASSUME NEW q \in Ranks, info'[q] # 0 PROVE info'[q] > runStart
    <3>1. CASE ShmGetHcclRootInfo(r)
      <4>1. att[r] # None /\ att[r] = segOfKey
        BY <3>1 DEF ShmGetHcclRootInfo, Local, LocalTo, WithSegment, OneSegment
      <4>2. Live
        BY <3>1, <4>1 DEF Live, ShmGetHcclRootInfo
      <4>3. info' = info \/ (info' = [info EXCEPT ![r] = mem[segOfKey].hcclRootInfo] /\ mem[segOfKey].signal)
        BY <3>1, <4>1 DEF ShmGetHcclRootInfo, Signalled
      <4> QED
        BY <1>t, <2>3, <4>2, <4>3 DEF Fresh
    <3>2. CASE CreateHcclRootInfo(r)
      BY <1>t, <2>3, <3>2 DEF CreateHcclRootInfo, Fresh
    <3>3. CASE ~ShmGetHcclRootInfo(r) /\ ~CreateHcclRootInfo(r)
      <4>1. info' = info
        BY <1>1, <3>3 DEF Quiet, SemLock, GetSegment, AttachSegment, AttachFails, ShmBarrier, ShmBarrierTimesOut,
          Detach, RemoveSegment, HcclCommInitRootInfo, HcclCommInitRootInfoFails
      <4> QED
        BY <2>3, <4>1 DEF Fresh
    <3> QED
      BY <3>1, <3>2, <3>3
  <2> QED
    BY <2>1, <2>2, <2>3 DEF Fresh
<1>2. ASSUME NEW r \in Ranks, SemLockTimesOut(r) PROVE Fresh'
  BY <1>2 DEF SemLockTimesOut
<1>3. ASSUME NEW r \in Ranks, StatSegment(r) PROVE Fresh'
  <2>1. UNCHANGED <<segOfKey, runStart>> /\ (info' = info \/ info' = [info EXCEPT ![r] = lastInfo + 1])
    BY <1>3 DEF StatSegment
  <2>2. mem'[segOfKey'].signal => mem'[segOfKey'].hcclRootInfo > runStart
    BY <1>3, <1>t, <2>1, FirstOrLive DEF Fresh, Zero
  <2>3. \A q \in Ranks : info'[q] # 0 => info'[q] > runStart
    BY <1>t, <2>1 DEF Fresh
  <2> QED
    BY <2>1, <2>2, <2>3 DEF Fresh
<1>4. ASSUME NEW r \in Ranks, ShmSetHcclRootInfo(r) PROVE Fresh'
  <2>1. att[r] = segOfKey /\ segOfKey \in Segments /\ info[r] # 0
    BY <1>4, AttachedAt DEF ShmSetHcclRootInfo, Local, LocalTo, WithSegment, Informed, OneSegment
  <2>2. mem'[segOfKey].hcclRootInfo = info[r] /\ UNCHANGED <<segOfKey, runStart, info>>
    BY <1>4, <1>t, <2>1 DEF ShmSetHcclRootInfo
  <2> QED
    BY <2>1, <2>2 DEF Fresh
<1>5. ASSUME NEW r \in Ranks, ShmSetReady(r) PROVE Fresh'
  <2>1. att[r] = segOfKey /\ segOfKey \in Segments /\ att[r] # None
    BY <1>5, AttachedAt DEF ShmSetReady, Local, LocalTo, WithSegment, OneSegment
  <2>2. /\ mem'[segOfKey].hcclRootInfo = mem[segOfKey].hcclRootInfo
        /\ mem'[segOfKey].signal = mem[segOfKey].signal
        /\ UNCHANGED <<segOfKey, runStart, info>>
    BY <1>5, <1>t, <2>1 DEF ShmSetReady
  <2>3. Live
    BY <1>5, <2>1 DEF Live, ShmSetReady
  <2> QED
    BY <2>2, <2>3 DEF Fresh
<1>6. CASE Restart
  BY <1>6 DEF Restart, Fresh, Live
<1>7. CASE UNCHANGED vars
  BY <1>7 DEF vars, Fresh, Live
<1> QED
  BY <1>1, <1>2, <1>3, <1>4, <1>5, <1>6, <1>7 DEF Next, Step, Fail, Quiet

LEMMA RemovableKept ==
  ASSUME TypeOK, Local, Removable, [Next]_vars
  PROVE  Removable'
<1> USE DEF Goto, SemUnLock, history, system, process
<1>t. pc \in [Ranks -> Points] /\ shmid \in [Ranks -> Segments \cup {None}] /\ call \in [Ranks -> 0 .. Calls]
      /\ att \in [Ranks -> Segments \cup {None}]
  BY DEF TypeOK
<1> USE <1>t
<1>1. ASSUME NEW r \in Ranks, SemLock(r) \/ SemLockTimesOut(r) PROVE Removable'
  BY <1>1, PointNames DEF SemLock, SemLockTimesOut, Removable
<1>2. ASSUME NEW r \in Ranks, GetSegment(r) PROVE Removable'
  <2>1. shmid'[r] = segOfKey' /\ pc'[r] = "attach"
    BY <1>2 DEF GetSegment
  <2> QED
    BY <2>1 DEF Removable
<1>3. ASSUME NEW r \in Ranks, AttachFails(r) PROVE Removable'
  BY <1>3 DEF AttachFails, Removable
<1>4. ASSUME NEW r \in Ranks,
             \/ AttachSegment(r) \/ ShmSetHcclRootInfo(r) \/ ShmGetHcclRootInfo(r) \/ ShmSetReady(r)
             \/ ShmBarrier(r) \/ ShmBarrierTimesOut(r) \/ Detach(r)
      PROVE Removable'
  <2>1. UNCHANGED <<shmid, segOfKey, call>> /\ occurred \subseteq occurred'
    BY <1>4 DEF AttachSegment, ShmSetHcclRootInfo, ShmGetHcclRootInfo, ShmSetReady,
      ShmBarrier, ShmBarrierTimesOut, Detach
  <2>2. PICK p \in {"stat", "ready", "poll", "check", "cleanup", "remove"} :
          pc' = [pc EXCEPT ![r] = p] /\ pc[r] \notin {"create", "get"}
    BY <1>4 DEF AttachSegment, ShmSetHcclRootInfo, ShmGetHcclRootInfo, ShmSetReady,
      ShmBarrier, ShmBarrierTimesOut, Detach
  <2> QED
    BY <2>1, <2>2 DEF Removable
<1>5. ASSUME NEW r \in Ranks, StatSegment(r) PROVE Removable'
  <2>1. UNCHANGED <<shmid, segOfKey, call>> /\ occurred \subseteq occurred' /\ pc[r] = "stat"
    BY <1>5 DEF StatSegment
  <2>2. PICK p \in {"publish", "poll", "cleanup"} : pc' = [pc EXCEPT ![r] = p]
    BY <1>5 DEF StatSegment
  <2> QED
    BY <2>1, <2>2 DEF Removable
<1>6. ASSUME NEW r \in Ranks, CreateHcclRootInfo(r) PROVE Removable'
  BY <1>6 DEF CreateHcclRootInfo, Removable
<1>7. ASSUME NEW r \in Ranks, RemoveSegment(r) PROVE Removable'
  <2>1. CASE segOfKey = shmid[r] /\ NoneAttached(shmid[r])
    BY <1>7, <2>1 DEF RemoveSegment, Removable
  <2>2. CASE ~(segOfKey = shmid[r] /\ NoneAttached(shmid[r]))
    <3>1. UNCHANGED <<segOfKey, call, occurred>> /\ pc[r] = "remove"
      BY <1>7, <2>2 DEF RemoveSegment
    <3>2. \A q \in Ranks : q # r => pc'[q] = pc[q] /\ shmid'[q] = shmid[q]
      BY <1>7 DEF RemoveSegment
    <3>3. CASE segOfKey # shmid[r]
      BY <3>1, <3>2, <3>3 DEF Removable
    <3>4. CASE segOfKey = shmid[r] /\ segOfKey # None
      <4>1. PICK q \in Ranks : att[q] = segOfKey
        BY <2>2, <3>4 DEF NoneAttached, Attached
      <4>2. q # r /\ shmid[q] = segOfKey /\ pc[q] \in WithSegment \cup {"cleanup", "detach"}
        BY <3>1, <3>4, <4>1 DEF Local, LocalTo, WithSegment
      <4> QED
        BY <3>1, <3>2, <4>2 DEF Removable, WithSegment
    <3> QED
      BY <3>1, <3>3, <3>4 DEF Removable
  <2> QED
    BY <2>1, <2>2
<1>8. ASSUME NEW r \in Ranks, HcclCommInitRootInfo(r) \/ HcclCommInitRootInfoFails(r) PROVE Removable'
  BY <1>8 DEF HcclCommInitRootInfo, HcclCommInitRootInfoFails, Removable
<1>9. CASE Restart
  BY <1>9 DEF Restart, Removable
<1>10. CASE UNCHANGED vars
  BY <1>10 DEF vars, Removable
<1> QED
  BY <1>1, <1>2, <1>3, <1>4, <1>5, <1>6, <1>7, <1>8, <1>9, <1>10 DEF Next, Step, Fail
-----------------------------------------------------------------------------
(* The exchange.                                                           *)

\* Nobody of this exchange leaves HcclCommInitRootInfo while the segment is in use: the
\* rank that has attached it has not joined.
LEMMA NobodyReturns ==
  ASSUME TypeOK, Local, Live, ExchangeOfRoot, \A q \in Ranks : ExchangeOf(q),
         NEW r \in Ranks, pc[r] = "init", \A q \in Ranks : <<q, info[r]>> \in joined
  PROVE  r \notin Barrier /\ (Signal => r # RankRoot)
<1>1. PICK q \in Ranks : att[q] # None
  BY DEF Live
<1>2. pc[q] # "init"
  BY <1>1 DEF Local, LocalTo, WithSegment
<1>3. r \notin Barrier
  BY <1>2 DEF ExchangeOf
<1> QED
  BY <1>3 DEF ExchangeOfRoot

\* A step that changes only where its process is, between points that are alike.
LEMMA QuietMove ==
  ASSUME TypeOK, Together', Together, Live,
         UNCHANGED <<segOfKey, mem, info, ok, joined>>,
         ExchangeOfRoot, \A q \in Ranks : ExchangeOf(q),
         NEW r \in Ranks, NEW p, pc' = [pc EXCEPT ![r] = p],
         \/ pc[r] \in {"publish", "write"} /\ p \in {"publish", "write"}
         \/ pc[r] \in {"ready", "set"} /\ p \in {"ready", "set"}
         \/ pc[r] \in {"check", "scan"} /\ p \in {"check", "scan"}
         \/ pc[r] \in Leaving /\ p \in Leaving
         \/ /\ pc[r] \in {"create", "get", "attach", "stat", "poll", "read"}
            /\ p \in {"create", "get", "attach", "stat", "poll", "read"}
         \/ pc[r] \in {"get", "attach"} /\ p = "cleanup" /\ ~ok[r]
         \/ pc[r] = "init" /\ p = "idle" /\ r \notin Barrier /\ (Signal => r # RankRoot)
  PROVE  ExchangeOfRoot' /\ \A q \in Ranks : ExchangeOf(q)'
<1>1. Signal' = Signal /\ RootInfo' = RootInfo /\ Barrier' = Barrier
  BY DEF Signal, RootInfo, Barrier
<1>2. \A q \in Ranks : pc'[q] = IF q = r THEN p ELSE pc[q]
  BY DEF TypeOK
<1>3. ExchangeOfRoot'
  BY <1>1, <1>2, HcclRunnerAssumption DEF ExchangeOfRoot, ExchangeOf, Leaving
<1>4. pc'[RankRoot] \in {"publish", "write"} => pc[RankRoot] \in {"publish", "write"}
  BY <1>2, HcclRunnerAssumption DEF Leaving
<1>5. ASSUME NEW q \in Ranks, q # r PROVE ExchangeOf(q)'
  BY <1>1, <1>2, <1>4, <1>5 DEF ExchangeOf
<1>6. ExchangeOf(r)'
  BY <1>1, <1>2, <1>4 DEF ExchangeOf, Leaving
<1> QED
  BY <1>3, <1>5, <1>6

LEMMA ExchangeKept ==
  ASSUME TypeOK, Local, Filled, Mutex, OneSegment, Exchange, [Next]_vars
  PROVE  Exchange'
<1> SUFFICES ASSUME Together', Live' PROVE ExchangeOfRoot' /\ \A q \in Ranks : ExchangeOf(q)'
  BY DEF Exchange
<1>0. "lock" \notin occurred
  BY LockIsRemembered DEF Together
<1>t. /\ pc \in [Ranks -> Points] /\ info \in [Ranks -> 0 .. lastInfo] /\ lastInfo \in Nat
      /\ att \in [Ranks -> Segments \cup {None}] /\ ok \in [Ranks -> BOOLEAN]
      /\ joined \subseteq Ranks \X (1 .. lastInfo)
      /\ mem \in [Segments -> [signal : BOOLEAN, hcclRootInfo : 0 .. lastInfo, barrier : SUBSET Ranks]]
  BY DEF TypeOK
<1>u. RankRoot \in Ranks
  BY HcclRunnerAssumption
<1>q. ASSUME Live, Together PROVE ExchangeOfRoot /\ \A q \in Ranks : ExchangeOf(q)
  BY <1>q DEF Exchange
<1> USE <1>0 DEF Goto, SemUnLock, history, system, process
<1>1. ASSUME NEW r \in Ranks,
             \/ SemLock(r) \/ GetSegment(r) \/ AttachSegment(r) \/ AttachFails(r) \/ Detach(r)
             \/ HcclCommInitRootInfo(r)
             \/ ShmGetHcclRootInfo(r) /\ ~Signalled(r)
             \/ ShmBarrier(r) /\ ~AllReady(r)
      PROVE  ExchangeOfRoot' /\ \A q \in Ranks : ExchangeOf(q)'
  <2>1. Live /\ UNCHANGED <<segOfKey, mem>>
    BY <1>1, QuietSteps DEF Quiet
  <2>2. Together
    BY <1>1 DEF Together, SemLock, GetSegment, AttachSegment, AttachFails, Detach, HcclCommInitRootInfo,
      ShmGetHcclRootInfo, ShmBarrier
  <2>3. UNCHANGED <<info, joined>>
    BY <1>1 DEF SemLock, GetSegment, AttachSegment, AttachFails, Detach, HcclCommInitRootInfo,
      ShmGetHcclRootInfo, ShmBarrier
  <2>4. ok' = ok
    <3>1. CASE ShmBarrier(r) /\ ~AllReady(r)
      <4>1. ok[r] = FALSE /\ ok' = [ok EXCEPT ![r] = FALSE]
        BY <3>1, <1>t DEF ShmBarrier, AllReady, Local, LocalTo, Leaving
      <4> QED
        BY <4>1, <1>t
    <3> QED
      BY <1>1, <3>1 DEF SemLock, GetSegment, AttachSegment, AttachFails, Detach, HcclCommInitRootInfo,
        ShmGetHcclRootInfo
  <2>5. ExchangeOfRoot /\ \A q \in Ranks : ExchangeOf(q)
    BY <2>1, <2>2, <1>q
  <2>6. CASE HcclCommInitRootInfo(r)
    BY <2>1, <2>2, <2>3, <2>4, <2>5, <2>6, QuietMove, NobodyReturns DEF HcclCommInitRootInfo
  <2>7. CASE AttachFails(r)
    <3>1. ~ok[r]
      BY <2>7 DEF AttachFails, Local, LocalTo, Leaving
    <3> QED
      BY <2>1, <2>2, <2>3, <2>4, <2>5, <2>7, <3>1, QuietMove DEF AttachFails
  <2>8. CASE SemLock(r)
    BY <2>1, <2>2, <2>3, <2>4, <2>5, <2>8, QuietMove, PointNames DEF SemLock, Leaving
  <2>9. CASE GetSegment(r) \/ AttachSegment(r)
    BY <2>1, <2>2, <2>3, <2>4, <2>5, <2>9, QuietMove DEF GetSegment, AttachSegment
  <2>10. CASE Detach(r)
    BY <2>1, <2>2, <2>3, <2>4, <2>5, <2>10, QuietMove DEF Detach, Leaving
  <2>11. CASE ShmGetHcclRootInfo(r) /\ ~Signalled(r)
    BY <2>1, <2>2, <2>3, <2>4, <2>5, <2>11, QuietMove DEF ShmGetHcclRootInfo
  <2>12. CASE ShmBarrier(r) /\ ~AllReady(r)
    BY <2>1, <2>2, <2>3, <2>4, <2>5, <2>12, QuietMove DEF ShmBarrier
  <2> QED
    BY <1>1, <2>6, <2>7, <2>8, <2>9, <2>10, <2>11, <2>12
<1>2. ASSUME NEW r \in Ranks, CreateHcclRootInfo(r)
      PROVE  ExchangeOfRoot' /\ \A q \in Ranks : ExchangeOf(q)'
  <2>1. Live /\ UNCHANGED <<segOfKey, mem>>
    BY <1>2, QuietSteps DEF Quiet
  <2>2. Together
    BY <1>2 DEF Together, CreateHcclRootInfo
  <2>3. ExchangeOfRoot /\ \A q \in Ranks : ExchangeOf(q)
    BY <2>1, <2>2, <1>q
  <2>4. Signal' = Signal /\ RootInfo' = RootInfo /\ Barrier' = Barrier /\ joined' = joined
    BY <1>2, <2>1 DEF Signal, RootInfo, Barrier, CreateHcclRootInfo
  <2>5. pc[r] = "idle" /\ pc'[r] = "create" /\ r \notin Barrier
    BY <1>2, <1>t, <2>3 DEF CreateHcclRootInfo, ExchangeOf, Leaving
  <2>6. \A q \in Ranks : q # r => pc'[q] = pc[q] /\ info'[q] = info[q] /\ ok'[q] = ok[q]
    BY <1>2, <1>t DEF CreateHcclRootInfo
  <2>7. ExchangeOfRoot'
    BY <1>u, <2>3, <2>4, <2>5, <2>6 DEF ExchangeOfRoot
  <2>8. pc'[RankRoot] \in {"publish", "write"} =>
          pc[RankRoot] \in {"publish", "write"} /\ info'[RankRoot] = info[RankRoot]
    BY <1>u, <2>5, <2>6
  <2>9. ASSUME NEW q \in Ranks PROVE ExchangeOf(q)'
    <3>1. CASE q # r
      BY <2>3, <2>4, <2>6, <2>8, <3>1 DEF ExchangeOf
    <3>2. CASE q = r
      BY <2>3, <2>4, <2>5, <2>8, <3>2 DEF ExchangeOf, Leaving
    <3> QED
      BY <3>1, <3>2
  <2> QED
    BY <2>7, <2>9
<1>3. ASSUME NEW r \in Ranks, ShmGetHcclRootInfo(r), Signalled(r)
      PROVE  ExchangeOfRoot' /\ \A q \in Ranks : ExchangeOf(q)'
  <2>1. Live /\ UNCHANGED <<segOfKey, mem>>
    BY <1>3, QuietSteps DEF Quiet
  <2>2. Together
    BY <1>3 DEF Together, ShmGetHcclRootInfo
  <2>3. ExchangeOfRoot /\ \A q \in Ranks : ExchangeOf(q)
    BY <2>1, <2>2, <1>q
  <2>4. Signal' = Signal /\ RootInfo' = RootInfo /\ Barrier' = Barrier /\ UNCHANGED <<joined, ok>>
    BY <1>3, <2>1 DEF Signal, RootInfo, Barrier, ShmGetHcclRootInfo
  <2>5. pc[r] = "read" /\ pc'[r] = "ready" /\ r \notin Barrier /\ r # RankRoot
    BY <1>3, <1>t, <2>3 DEF ShmGetHcclRootInfo, ExchangeOf, Leaving, Local, LocalTo
  <2>6. \A q \in Ranks : q # r => pc'[q] = pc[q] /\ info'[q] = info[q]
    BY <1>3, <1>t DEF ShmGetHcclRootInfo
  <2>7. Signal /\ info'[r] = RootInfo
    <3>1. att[r] = segOfKey
      BY <1>3 DEF ShmGetHcclRootInfo, Local, LocalTo, WithSegment, OneSegment
    <3> QED
      BY <1>3, <1>t, <3>1 DEF ShmGetHcclRootInfo, Signalled, Signal, RootInfo
  <2>8. ExchangeOfRoot'
    BY <1>u, <2>3, <2>4, <2>5, <2>6 DEF ExchangeOfRoot
  <2>9. pc'[RankRoot] = pc[RankRoot] /\ info'[RankRoot] = info[RankRoot]
    BY <1>u, <2>5, <2>6
  <2>10. ASSUME NEW q \in Ranks PROVE ExchangeOf(q)'
    <3>1. CASE q # r
      BY <2>3, <2>4, <2>6, <2>9, <3>1 DEF ExchangeOf
    <3>2. CASE q = r
      BY <2>3, <2>4, <2>5, <2>7, <2>9, <3>2 DEF ExchangeOf, Leaving
    <3> QED
      BY <3>1, <3>2
  <2> QED
    BY <2>8, <2>10
<1>4. ASSUME NEW r \in Ranks, ShmBarrier(r), AllReady(r)
      PROVE  ExchangeOfRoot' /\ \A q \in Ranks : ExchangeOf(q)'
  <2>1. Live /\ UNCHANGED <<segOfKey, mem>>
    BY <1>4, QuietSteps DEF Quiet
  <2>2. Together
    BY <1>4 DEF Together, ShmBarrier
  <2>3. ExchangeOfRoot /\ \A q \in Ranks : ExchangeOf(q)
    BY <2>1, <2>2, <1>q
  <2>4. Signal' = Signal /\ RootInfo' = RootInfo /\ Barrier' = Barrier /\ UNCHANGED <<joined, info>>
    BY <1>4, <2>1 DEF Signal, RootInfo, Barrier, ShmBarrier
  <2>5. pc'[r] = "cleanup" /\ ok'[r] /\ pc[r] = "scan"
    BY <1>4, <1>t DEF ShmBarrier
  <2>6. \A q \in Ranks : q # r => pc'[q] = pc[q] /\ ok'[q] = ok[q]
    BY <1>4, <1>t DEF ShmBarrier
  <2>7. Barrier = Ranks
    BY <1>4 DEF ShmBarrier, AllReady, Local, LocalTo, WithSegment, OneSegment, Barrier
  <2>8. ExchangeOfRoot'
    BY <1>u, <2>3, <2>4, <2>7 DEF ExchangeOfRoot
  <2>9. pc'[RankRoot] \in {"publish", "write"} => pc[RankRoot] \in {"publish", "write"}
    BY <1>u, <2>5, <2>6
  <2>10. ASSUME NEW q \in Ranks PROVE ExchangeOf(q)'
    <3>1. CASE q # r
      BY <2>3, <2>4, <2>6, <2>9, <3>1 DEF ExchangeOf
    <3>2. CASE q = r
      BY <2>3, <2>4, <2>5, <2>7, <2>9, <3>2 DEF ExchangeOf, Leaving
    <3> QED
      BY <3>1, <3>2
  <2> QED
    BY <2>8, <2>10
<1>5. ASSUME NEW r \in Ranks, RemoveSegment(r)
      PROVE  ExchangeOfRoot' /\ \A q \in Ranks : ExchangeOf(q)'
  <2>1. Live /\ UNCHANGED <<segOfKey, mem>>
    BY <1>5, QuietSteps DEF Quiet
  <2>2. Together
    BY <1>5 DEF Together, RemoveSegment
  <2>3. ExchangeOfRoot /\ \A q \in Ranks : ExchangeOf(q)
    BY <2>1, <2>2, <1>q
  <2>4. Signal' = Signal /\ RootInfo' = RootInfo /\ Barrier' = Barrier /\ UNCHANGED <<info, ok>>
    BY <1>5, <2>1 DEF Signal, RootInfo, Barrier, RemoveSegment
  <2>5. /\ pc[r] = "remove"
        /\ \/ ok[r] /\ pc'[r] = "init" /\ joined' = joined \cup {<<r, info[r]>>}
           \/ ~ok[r] /\ pc'[r] = "idle" /\ joined' = joined
    BY <1>5, <1>t DEF RemoveSegment
  <2>6. \A q \in Ranks : q # r => pc'[q] = pc[q]
    BY <1>5, <1>t DEF RemoveSegment
  <2>7. r \in Barrier <=> ok[r]
    BY <2>3, <2>5 DEF ExchangeOf, Leaving
  <2>8. r = RankRoot /\ Signal => r \in Barrier
    BY <2>3, <2>5 DEF ExchangeOfRoot
  <2>9. ExchangeOfRoot'
    BY <1>u, <2>3, <2>4, <2>6, <2>8 DEF ExchangeOfRoot
  <2>10. pc'[RankRoot] \in {"publish", "write"} => pc[RankRoot] \in {"publish", "write"} /\ ~ok[r]
    <3>1. pc'[RankRoot] \in {"publish", "write"} => pc[RankRoot] \in {"publish", "write"}
      BY <1>u, <2>5, <2>6
    <3>2. pc[RankRoot] \in {"publish", "write"} => ~Signal
      BY <1>u, <2>3 DEF ExchangeOfRoot, ExchangeOf, Leaving
    <3>3. ok[r] => Signal
      BY <2>3, <2>7 DEF ExchangeOf
    <3> QED
      BY <3>1, <3>2, <3>3
  <2>11. ASSUME NEW q \in Ranks PROVE ExchangeOf(q)'
    <3>1. CASE q # r
      <4>1. \A i : <<q, i>> \in joined' <=> <<q, i>> \in joined
        BY <2>5, <3>1
      <4> QED
        BY <2>3, <2>4, <2>6, <2>10, <3>1, <4>1 DEF ExchangeOf
    <3>2. CASE q = r
      <4>1. CASE ok[r]
        BY <2>3, <2>4, <2>5, <2>7, <2>10, <3>2, <4>1 DEF ExchangeOf, Leaving
      <4>2. CASE ~ok[r]
        BY <2>3, <2>4, <2>5, <2>7, <2>10, <3>2, <4>2 DEF ExchangeOf, Leaving
      <4> QED
        BY <4>1, <4>2
    <3> QED
      BY <3>1, <3>2
  <2> QED
    BY <2>9, <2>11
<1>6. ASSUME NEW r \in Ranks, StatSegment(r)
      PROVE  ExchangeOfRoot' /\ \A q \in Ranks : ExchangeOf(q)'
  <2>1. /\ att[r] = segOfKey /\ segOfKey \in Segments
        /\ Live \/ (/\ mem' = [mem EXCEPT ![segOfKey] = Zero]
                    /\ \A q \in Ranks \ {r} : att[q] = None)
        /\ Live => mem' = mem
    BY <1>6, FirstOrLive
  <2>2. Together
    BY <1>6 DEF Together, StatSegment
  <2>3. /\ pc[r] = "stat" /\ UNCHANGED <<segOfKey, ok, joined>>
        /\ \/ r = RankRoot /\ info' = [info EXCEPT ![r] = lastInfo + 1] /\ pc' = [pc EXCEPT ![r] = "publish"]
           \/ r = RankRoot /\ info' = info /\ pc' = [pc EXCEPT ![r] = "cleanup"]
           \/ r # RankRoot /\ info' = info /\ pc' = [pc EXCEPT ![r] = "poll"]
    BY <1>6 DEF StatSegment
  <2>4. ~ok[r]
    BY <2>3 DEF Local, LocalTo, Leaving
  <2>5. \A q \in Ranks : q # r => pc'[q] = pc[q] /\ info'[q] = info[q]
    BY <2>3, <1>t
  <2>6. \A q \in Ranks : <<q, lastInfo + 1>> \notin joined
    BY <1>t
  <2>7. pc'[RankRoot] \in {"publish", "write"} =>
          \/ pc[RankRoot] \in {"publish", "write"} /\ info'[RankRoot] = info[RankRoot]
          \/ info'[RankRoot] = lastInfo + 1
    BY <1>u, <1>t, <2>3
  <2>8. CASE Live
    <3>1. ExchangeOfRoot /\ \A q \in Ranks : ExchangeOf(q)
      BY <2>2, <2>8, <1>q
    <3>2. Signal' = Signal /\ RootInfo' = RootInfo /\ Barrier' = Barrier
      BY <2>1, <2>3, <2>8 DEF Signal, RootInfo, Barrier
    <3>3. r \notin Barrier /\ (r = RankRoot => ~Signal)
      BY <1>u, <2>3, <3>1 DEF ExchangeOf, ExchangeOfRoot, Leaving
    <3>4. ExchangeOfRoot'
      BY <1>u, <2>5, <3>1, <3>2, <3>3 DEF ExchangeOfRoot
    <3>5. ASSUME NEW q \in Ranks, q # r PROVE ExchangeOf(q)'
      BY <2>3, <2>5, <2>6, <2>7, <3>1, <3>2, <3>5 DEF ExchangeOf
    <3>6. ExchangeOf(r)'
      <4>1. pc'[r] \in {"publish", "cleanup", "poll"}
        BY <2>3, <1>t
      <4> QED
        BY <2>3, <2>4, <2>6, <2>7, <3>1, <3>2, <3>3, <4>1 DEF ExchangeOf, Leaving
    <3> QED
      BY <3>4, <3>5, <3>6
  <2>9. CASE ~Live
    <3>1. /\ mem' = [mem EXCEPT ![segOfKey] = Zero]
          /\ \A q \in Ranks \ {r} : att[q] = None
      BY <2>1, <2>9
    <3>2. ~Signal' /\ Barrier' = {}
      BY <1>t, <2>1, <2>3, <3>1 DEF Signal, Barrier, Zero
    <3>3. \A q \in Ranks \ {r} : pc[q] \notin {"ready", "set", "check", "scan", "publish", "write"}
      BY <3>1 DEF Local, LocalTo, WithSegment
    <3>4. \A q \in Ranks \ {r} : pc[q] \in Leaving => ~ok[q]
      BY <2>3, <3>1, Alone DEF Local, LocalTo, Leaving, Critical
    <3>5. ExchangeOfRoot'
      BY <3>2 DEF ExchangeOfRoot
    <3>6. ASSUME NEW q \in Ranks PROVE ExchangeOf(q)'
      <4>1. pc'[RankRoot] \in {"publish", "write"} => info'[RankRoot] = lastInfo + 1
        BY <1>u, <2>3, <2>7, <3>3
      <4>2. CASE q # r
        BY <2>3, <2>5, <2>6, <3>2, <3>3, <3>4, <4>1, <4>2 DEF ExchangeOf
      <4>3. CASE q = r
        <5>1. pc'[r] \in {"publish", "cleanup", "poll"}
          BY <2>3, <1>t
        <5> QED
          BY <2>3, <2>4, <2>6, <3>2, <4>1, <4>3, <5>1 DEF ExchangeOf
      <4> QED
        BY <4>2, <4>3
    <3> QED
      BY <3>5, <3>6
  <2> QED
    BY <2>8, <2>9
<1>7. ASSUME NEW r \in Ranks, ShmSetHcclRootInfo(r)
      PROVE  ExchangeOfRoot' /\ \A q \in Ranks : ExchangeOf(q)'
  <2>1. /\ pc[r] = "write" /\ pc' = [pc EXCEPT ![r] = "ready"] /\ r = RankRoot
        /\ UNCHANGED <<segOfKey, info, ok, joined, occurred>>
    BY <1>7 DEF ShmSetHcclRootInfo, Local, LocalTo
  <2>2. att[r] = segOfKey /\ segOfKey \in Segments /\ att[r] # None
    BY <2>1, AttachedAt DEF Local, LocalTo, WithSegment, OneSegment
  <2>3. Live /\ Together
    BY <2>1, <2>2 DEF Live, Together
  <2>4. ExchangeOfRoot /\ \A q \in Ranks : ExchangeOf(q)
    BY <2>3, <1>q
  <2>5. Signal' /\ RootInfo' = info[r] /\ Barrier' = Barrier
    BY <1>7, <1>t, <2>1, <2>2 DEF ShmSetHcclRootInfo, Signal, RootInfo, Barrier
  <2>6. ~Signal
    BY <1>u, <2>1, <2>4 DEF ExchangeOf, ExchangeOfRoot, Leaving
  <2>7. ExchangeOfRoot'
    BY <1>t, <1>u, <2>1, <2>5 DEF ExchangeOfRoot
  <2>8. ASSUME NEW q \in Ranks PROVE ExchangeOf(q)'
    <3>1. q \notin Barrier /\ <<q, info[RankRoot]>> \notin joined
      BY <2>1, <2>4, <2>6 DEF ExchangeOf
    <3>2. pc'[RankRoot] = "ready"
      BY <1>t, <1>u, <2>1
    <3>3. CASE q # r
      <4>1. pc'[q] = pc[q]
        BY <1>t, <2>1, <3>3
      <4> QED
        BY <2>1, <2>4, <2>5, <2>6, <3>1, <3>2, <4>1 DEF ExchangeOf
    <3>4. CASE q = r
      BY <2>1, <2>5, <3>1, <3>2, <3>4 DEF ExchangeOf, Leaving
    <3> QED
      BY <3>3, <3>4
  <2> QED
    BY <2>7, <2>8
<1>8. ASSUME NEW r \in Ranks, ShmSetReady(r)
      PROVE  ExchangeOfRoot' /\ \A q \in Ranks : ExchangeOf(q)'
  <2>1. /\ pc[r] = "set" /\ pc' = [pc EXCEPT ![r] = "check"]
        /\ UNCHANGED <<segOfKey, info, ok, joined, occurred>>
    BY <1>8 DEF ShmSetReady
  <2>2. att[r] = segOfKey /\ segOfKey \in Segments /\ att[r] # None
    BY <2>1, AttachedAt DEF Local, LocalTo, WithSegment, OneSegment
  <2>3. Live /\ Together
    BY <2>1, <2>2 DEF Live, Together
  <2>4. ExchangeOfRoot /\ \A q \in Ranks : ExchangeOf(q)
    BY <2>3, <1>q
  <2>5. Signal' = Signal /\ RootInfo' = RootInfo /\ Barrier' = Barrier \cup {r}
    BY <1>8, <1>t, <2>1, <2>2 DEF ShmSetReady, Signal, RootInfo, Barrier
  <2>6. Signal /\ info[r] = RootInfo /\ Barrier \subseteq Ranks
    BY <1>t, <2>1, <2>2, <2>4 DEF ExchangeOf, Barrier
  <2>7. \A q \in Ranks : q # r => pc'[q] = pc[q]
    BY <1>t, <2>1
  <2>8. ExchangeOfRoot'
    BY <1>u, <2>1, <2>4, <2>5, <2>7 DEF ExchangeOfRoot
  <2>9. pc'[RankRoot] \in {"publish", "write"} => pc[RankRoot] \in {"publish", "write"}
    BY <1>t, <1>u, <2>1
  <2>10. ASSUME NEW q \in Ranks PROVE ExchangeOf(q)'
    <3>1. CASE q # r
      BY <2>1, <2>4, <2>5, <2>6, <2>7, <2>9, <3>1 DEF ExchangeOf
    <3>2. CASE q = r
      <4>1. pc'[r] = "check"
        BY <1>t, <2>1
      <4> QED
        BY <2>1, <2>4, <2>5, <2>6, <2>9, <3>2, <4>1 DEF ExchangeOf, Leaving
    <3> QED
      BY <3>1, <3>2
  <2> QED
    BY <2>8, <2>10
<1>9. ASSUME NEW r \in Ranks,
             SemLockTimesOut(r) \/ ShmBarrierTimesOut(r) \/ HcclCommInitRootInfoFails(r)
      PROVE  FALSE
  BY <1>9 DEF SemLockTimesOut, ShmBarrierTimesOut, HcclCommInitRootInfoFails, Together
<1>10. ~Restart
  BY DEF Restart, Live
<1>11. CASE UNCHANGED vars
  BY <1>11, <1>q DEF vars, Live, Together, ExchangeOfRoot, ExchangeOf, Signal, RootInfo, Barrier
<1> QED
  BY <1>1, <1>2, <1>3, <1>4, <1>5, <1>6, <1>7, <1>8, <1>9, <1>10, <1>11 DEF Next, Step, Fail
-----------------------------------------------------------------------------
\* The inductive invariant holds in every reachable state.
LEMMA Invariant == Spec => []IInv
<1>1. IInv /\ [Next]_vars => IInv'
  BY TypeKept, LocalKept, MutexKept, OneSegmentKept, FreshKept, RemovableKept, ExchangeKept DEF IInv
<1> QED
  BY <1>1, InitHolds, PTL DEF Spec

\* Every variable of HcclRunner keeps its type, whatever fails and however often all restart.
THEOREM TypeCorrect == Spec => []TypeOK
  BY Invariant, PTL DEF IInv

\* A root information is always of this run, also when the segment was left behind by
\* processes that died: ShareMemory's first process to attach has cleared it.
THEOREM RootInfoIsFresh == Spec => []InfoIsOfThisRun
<1>1. IInv => InfoIsOfThisRun
  BY DEF IInv, Fresh, InfoIsOfThisRun, Together
<1> QED
  BY <1>1, Invariant, PTL

\* ~ShareMemory leaves no segment behind when nobody is in CreateHcclRootInfo any more, also
\* not one of an earlier run, and also when processes have gone on without the semaphore.
THEOREM NoSegmentStays == Spec => []SegmentIsRemoved
<1>1. IInv => SegmentIsRemoved
  BY DEF IInv, Removable, SegmentIsRemoved
<1> QED
  BY <1>1, Invariant, PTL

\* Who passes ShmBarrier has the root information that every other rank has, however the
\* ranks interleave and whoever has failed in the segment or as root before.
THEOREM BarrierIsSafe == Spec => BarrierMeansExchanged
<1> DEFINE Passes == \A r \in Ranks : (~ok[r] /\ ok'[r] /\ Together) => \A q \in Ranks : info[q] = info[r]
<1>1. ASSUME IInv, [Next]_vars PROVE Passes
  <2> SUFFICES ASSUME NEW r \in Ranks, ~ok[r], ok'[r], Together, NEW q \in Ranks
               PROVE  info[q] = info[r]
    OBVIOUS
  <2>1. ShmBarrier(r) /\ AllReady(r)
    <3>t. ok \in [Ranks -> BOOLEAN]
      BY <1>1 DEF IInv, TypeOK
    <3>1. ASSUME NEW p \in Ranks, ShmBarrier(p) PROVE ShmBarrier(r) /\ AllReady(r)
      BY <3>t, <3>1 DEF ShmBarrier
    <3>2. ASSUME NEW p \in Ranks, CreateHcclRootInfo(p) PROVE FALSE
      BY <3>t, <3>2 DEF CreateHcclRootInfo
    <3>3. ~Restart
      BY <3>t DEF Restart
    <3> QED
      BY <1>1, <3>1, <3>2, <3>3 DEF Next, Step, Fail, vars, process, system, history, SemLock, SemLockTimesOut,
        GetSegment, AttachSegment, AttachFails, StatSegment, ShmSetHcclRootInfo, ShmGetHcclRootInfo,
        ShmSetReady, ShmBarrierTimesOut, Detach, RemoveSegment, HcclCommInitRootInfo,
        HcclCommInitRootInfoFails
  <2>2. att[r] # None /\ att[r] = segOfKey
    BY <1>1, <2>1 DEF ShmBarrier, IInv, Local, LocalTo, WithSegment, OneSegment, Together
  <2>3. Live /\ Barrier = Ranks
    BY <2>1, <2>2 DEF ShmBarrier, AllReady, Live, Barrier
  <2> QED
    BY <1>1, <2>3 DEF IInv, Exchange, ExchangeOf
<1>2. Spec => [][Passes]_vars
  BY <1>1, Invariant, PTL DEF Spec
<1> QED
  BY <1>2 DEF BarrierMeansExchanged
=============================================================================
