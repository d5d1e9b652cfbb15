----------------------------- MODULE HcclRunner -----------------------------
(***************************************************************************)
(* core/utils/hccl_runner.cpp over core/utils/share_memory.cpp: the ranks   *)
(* of a node, one process each, build an HCCL communicator together.  The   *)
(* root rank puts its root information into a System V shared memory        *)
(* segment, the others poll for it, and a barrier of flags in the segment   *)
(* ends the exchange.  A named POSIX semaphore guards the segment.          *)
(*                                                                         *)
(* A process is at a program point.  At the points of LockPoints it waits   *)
(* in SemLock; SemUnLock goes with the last step of a critical section.     *)
(* The semaphore and the segment outlive the processes: CleanUpSem unlinks  *)
(* the name in fullName_, which nothing ever sets, so the semaphore stays.  *)
(*                                                                         *)
(* Within a critical section shmget, shmat and shmdt are steps of their     *)
(* own; a look at the number of attached processes goes with the memset or  *)
(* the removal it decides.                                                  *)
(*                                                                         *)
(* HcclCommInitRootInfo is the library's: it returns when every rank has    *)
(* called it with the same root information.                                *)
(***************************************************************************)
EXTENDS Naturals, FiniteSets

CONSTANTS Ranks, RankRoot,
          Segments,      \* identifiers of shared memory segments
          None,
          Calls,         \* bound: calls a process makes, less one per restart
          MaxRestarts,   \* bound: how often all processes die and start again
          MaxKinds,      \* bound: how many kinds of failures one run sees
          Faults         \* the failures that may happen, of FaultKinds

FaultKinds == {"lookup",     \* shmget fails
               "attach",     \* shmat fails
               "rootInfo",   \* HcclGetRootInfo fails
               "barrier",    \* a rank waits for the others for over 600 s
               "init"}       \* HcclCommInitRootInfo fails or times out

ASSUME HcclRunnerAssumption ==
    /\ RankRoot \in Ranks
    /\ Calls \in Nat /\ MaxRestarts \in Nat /\ MaxKinds \in Nat
    /\ None \notin Segments
    /\ IsFiniteSet(Ranks) /\ Cardinality(Segments) >= Cardinality(Ranks)
    /\ Faults \subseteq FaultKinds

VARIABLES
    pc, call,      \* per rank: its program point, its number of calls
    info, ok,      \* per rank: hcclRootInfo_ (0: none yet) and the barrier's answer
    shmid, att,    \* per rank: the segment it looked up and the one it has attached
    sem, holders,  \* the semaphore, and who has taken a unit of it
    segOfKey,      \* the segment the key leads to
    mem,           \* the contents of the segments, CommInitInfo
    lastInfo,      \* root informations handed out so far
    joined,        \* who has called HcclCommInitRootInfo, and with what
    restarts, runStart,  \* number of restarts; lastInfo at the last one
    occurred       \* the failures that have happened

process == <<pc, call, info, ok, shmid, att>>
system == <<sem, holders, segOfKey, mem>>
history == <<lastInfo, joined, restarts, runStart, occurred>>
vars == <<process, system, history>>

Zero == [signal |-> FALSE, hcclRootInfo |-> 0, barrier |-> {}]

\* Where a process goes once SemLock lets it.
Inside == [create |-> "get", publish |-> "write", poll |-> "read", ready |-> "set",
           check |-> "scan", cleanup |-> "detach"]
LockPoints == DOMAIN Inside
Points == LockPoints \cup {Inside[p] : p \in LockPoints}
              \cup {"idle", "attach", "stat", "remove", "init"}

\* A failure of this kind may still happen.
MayFail(kind) == kind \in Faults /\ Cardinality(occurred \cup {kind}) <= MaxKinds

Goto(r, p) == pc' = [pc EXCEPT ![r] = p]
Attached(s) == {r \in Ranks : att[r] = s}
Exists(s) == s = segOfKey \/ Attached(s) # {}

Init ==
    /\ pc = [r \in Ranks |-> "idle"] /\ call = [r \in Ranks |-> 0]
    /\ info = [r \in Ranks |-> 0] /\ ok = [r \in Ranks |-> FALSE]
    /\ shmid = [r \in Ranks |-> None] /\ att = [r \in Ranks |-> None]
    /\ sem = 1 /\ holders = {}
    /\ segOfKey = None /\ mem = [s \in Segments |-> Zero]
    /\ lastInfo = 0 /\ joined = {} /\ restarts = 0 /\ runStart = 0
    /\ occurred = {}
-----------------------------------------------------------------------------
(* ShareMemory.                                                            *)

Available == sem > 0

SemLock(r) ==
    /\ pc[r] \in LockPoints
    /\ Available
    /\ sem' = sem - 1 /\ holders' = holders \cup {r}
    /\ Goto(r, Inside[pc[r]])
    /\ UNCHANGED <<call, info, ok, shmid, att, segOfKey, mem, history>>

\* After 300 s the process goes on without the semaphore.  A live holder keeps it for
\* moments only, so this takes a holder that has died.
SemLockTimesOut(r) ==
    /\ pc[r] \in LockPoints
    /\ sem = 0 /\ holders = {}
    /\ occurred' = occurred \cup {"lock"}
    /\ Goto(r, Inside[pc[r]])
    /\ UNCHANGED <<call, info, ok, shmid, att, system, lastInfo, joined, restarts, runStart>>

SemUnLock(r) == /\ sem' = sem + 1
                /\ holders' = holders \ {r}

NewSegment == CHOOSE s \in Segments : ~Exists(s) /\ \A q \in Ranks : shmid[q] # s

\* shmget: the segment of the key, made if there is none.
GetSegment(r) ==
    /\ pc[r] = "get"
    /\ IF segOfKey # None
       THEN shmid' = [shmid EXCEPT ![r] = segOfKey] /\ UNCHANGED <<segOfKey, mem>>
       ELSE /\ segOfKey' = NewSegment
            /\ shmid' = [shmid EXCEPT ![r] = NewSegment]
            /\ UNCHANGED mem
    /\ Goto(r, "attach")
    /\ UNCHANGED <<call, info, ok, att, sem, holders, history>>

AttachSegment(r) ==
    /\ pc[r] = "attach" /\ Exists(shmid[r])
    /\ att' = [att EXCEPT ![r] = shmid[r]]
    /\ Goto(r, "stat")
    /\ UNCHANGED <<call, info, ok, shmid, system, history>>

\* Nothing is attached, and CreateHcclRootInfo returns false.
AttachFails(r) ==
    /\ \/ pc[r] = "get" /\ MayFail("lookup") /\ occurred' = occurred \cup {"lookup"}
       \/ /\ pc[r] = "attach" /\ (MayFail("attach") \/ ~Exists(shmid[r]))
          /\ occurred' = occurred \cup {"attach"}
    /\ SemUnLock(r)
    /\ Goto(r, "cleanup")
    /\ UNCHANGED <<call, info, ok, shmid, att, segOfKey, mem, lastInfo, joined, restarts, runStart>>

\* The first to attach clears what an earlier run has left.
KeepContents(r) == mem
WipeAlways(r) == [mem EXCEPT ![att[r]] = Zero]
Wiped(r) == IF Attached(att[r]) = {r} THEN [mem EXCEPT ![att[r]] = Zero] ELSE mem

\* The end of CreateShareMemory, and HcclGetRootInfo on the root.
StatSegment(r) ==
    /\ pc[r] = "stat"
    /\ mem' = Wiped(r)
    /\ SemUnLock(r)
    /\ IF r = RankRoot
       THEN \/ /\ lastInfo' = lastInfo + 1
               /\ info' = [info EXCEPT ![r] = lastInfo']
               /\ Goto(r, "publish")
               /\ UNCHANGED occurred
            \/ /\ MayFail("rootInfo")
               /\ occurred' = occurred \cup {"rootInfo"}
               /\ Goto(r, "cleanup")
               /\ UNCHANGED <<lastInfo, info>>
       ELSE Goto(r, "poll") /\ UNCHANGED <<lastInfo, info, occurred>>
    /\ UNCHANGED <<call, ok, shmid, att, segOfKey, joined, restarts, runStart>>
-----------------------------------------------------------------------------
(* HcclRunner.                                                             *)

CreateHcclRootInfo(r) ==
    /\ pc[r] = "idle" /\ call[r] + restarts < Calls
    /\ call' = [call EXCEPT ![r] = @ + 1]
    /\ info' = [info EXCEPT ![r] = 0]
    /\ ok' = [ok EXCEPT ![r] = FALSE]
    /\ shmid' = [shmid EXCEPT ![r] = None]
    /\ Goto(r, "create")
    /\ UNCHANGED <<att, system, history>>

ShmSetHcclRootInfo(r) ==
    /\ pc[r] = "write"
    /\ mem' = [mem EXCEPT ![att[r]].hcclRootInfo = info[r], ![att[r]].signal = TRUE]
    /\ SemUnLock(r)
    /\ Goto(r, "ready")
    /\ UNCHANGED <<call, info, ok, shmid, att, segOfKey, history>>

AlwaysSignalled(r) == TRUE
Signalled(r) == mem[att[r]].signal

ShmGetHcclRootInfo(r) ==
    /\ pc[r] = "read"
    /\ IF Signalled(r)
       THEN /\ info' = [info EXCEPT ![r] = mem[att[r]].hcclRootInfo]
            /\ Goto(r, "ready")
       ELSE Goto(r, "poll") /\ UNCHANGED info
    /\ SemUnLock(r)
    /\ UNCHANGED <<call, ok, shmid, att, segOfKey, mem, history>>

ShmSetReady(r) ==
    /\ pc[r] = "set"
    /\ mem' = [mem EXCEPT ![att[r]].barrier = @ \cup {r}]
    /\ SemUnLock(r)
    /\ Goto(r, "check")
    /\ UNCHANGED <<call, info, ok, shmid, att, segOfKey, history>>

AllReady(r) == mem[att[r]].barrier = Ranks

ShmBarrier(r) ==
    /\ pc[r] = "scan"
    /\ ok' = [ok EXCEPT ![r] = AllReady(r)]
    /\ Goto(r, IF AllReady(r) THEN "cleanup" ELSE "check")
    /\ SemUnLock(r)
    /\ UNCHANGED <<call, info, shmid, att, segOfKey, mem, history>>

ShmBarrierTimesOut(r) ==
    /\ pc[r] = "check" /\ MayFail("barrier")
    /\ occurred' = occurred \cup {"barrier"}
    /\ Goto(r, "cleanup")
    /\ UNCHANGED <<call, info, ok, shmid, att, system, lastInfo, joined, restarts, runStart>>
-----------------------------------------------------------------------------
(* ~ShareMemory, and what follows CreateHcclRootInfo.                      *)

Detach(r) ==
    /\ pc[r] = "detach"
    /\ att' = [att EXCEPT ![r] = None]
    /\ Goto(r, "remove")
    /\ UNCHANGED <<call, info, ok, shmid, system, history>>

OneAttached(s) == Cardinality(Attached(s)) = 1
NoneAttached(s) == Attached(s) = {}

RemoveSegment(r) ==
    /\ pc[r] = "remove"
    /\ IF segOfKey = shmid[r] /\ NoneAttached(shmid[r])
       THEN segOfKey' = None /\ mem' = [mem EXCEPT ![shmid[r]] = Zero]
       ELSE UNCHANGED <<segOfKey, mem>>
    /\ shmid' = [shmid EXCEPT ![r] = None]
    /\ SemUnLock(r)
    /\ IF ok[r]
       THEN Goto(r, "init") /\ joined' = joined \cup {<<r, info[r]>>}
       ELSE Goto(r, "idle") /\ UNCHANGED joined
    /\ UNCHANGED <<call, info, ok, att, lastInfo, restarts, runStart, occurred>>

HcclCommInitRootInfo(r) ==
    /\ pc[r] = "init"
    /\ \A q \in Ranks : <<q, info[r]>> \in joined
    /\ Goto(r, "idle")
    /\ UNCHANGED <<call, info, ok, shmid, att, system, history>>

HcclCommInitRootInfoFails(r) ==
    /\ pc[r] = "init" /\ MayFail("init")
    /\ occurred' = occurred \cup {"init"}
    /\ Goto(r, "idle")
    /\ UNCHANGED <<call, info, ok, shmid, att, system, lastInfo, joined, restarts, runStart>>

\* All processes die, wherever they are, and start again.  What a time-out has done to
\* the semaphore stays.
Restart ==
    /\ restarts < MaxRestarts
    /\ restarts' = restarts + 1 /\ runStart' = lastInfo /\ joined' = {}
    /\ pc' = [r \in Ranks |-> "idle"] /\ call' = [r \in Ranks |-> 0]
    /\ info' = [r \in Ranks |-> 0] /\ ok' = [r \in Ranks |-> FALSE]
    /\ shmid' = [r \in Ranks |-> None] /\ att' = [r \in Ranks |-> None]
    /\ holders' = {}
    /\ occurred' = occurred \cap {"lock"}
    /\ UNCHANGED <<sem, segOfKey, mem, lastInfo>>
-----------------------------------------------------------------------------
Step(r) ==
    \/ GetSegment(r) \/ AttachSegment(r) \/ StatSegment(r)
    \/ CreateHcclRootInfo(r)
    \/ ShmSetHcclRootInfo(r) \/ ShmGetHcclRootInfo(r) \/ ShmSetReady(r) \/ ShmBarrier(r)
    \/ Detach(r) \/ RemoveSegment(r) \/ HcclCommInitRootInfo(r)

Fail(r) ==
    \/ SemLockTimesOut(r) \/ AttachFails(r) \/ ShmBarrierTimesOut(r)
    \/ HcclCommInitRootInfoFails(r)

Next == (\E r \in Ranks : SemLock(r) \/ Step(r) \/ Fail(r)) \/ Restart

\* Processes keep running.  The semaphore is free again and again, so a waiter gets it
\* in the end; where it never is, SemLock returns after 300 s.
Fairness == \A r \in Ranks :
    WF_vars(Step(r)) /\ SF_vars(SemLock(r)) /\ WF_vars(SemLockTimesOut(r))

Spec == Init /\ [][Next]_vars /\ Fairness
-----------------------------------------------------------------------------
TypeOK ==
    /\ pc \in [Ranks -> Points] /\ call \in [Ranks -> 0 .. Calls]
    /\ info \in [Ranks -> 0 .. lastInfo] /\ ok \in [Ranks -> BOOLEAN]
    /\ shmid \in [Ranks -> Segments \cup {None}] /\ att \in [Ranks -> Segments \cup {None}]
    /\ sem \in Nat /\ holders \subseteq Ranks
    /\ segOfKey \in Segments \cup {None}
    /\ mem \in [Segments -> [signal : BOOLEAN, hcclRootInfo : 0 .. lastInfo,
                             barrier : SUBSET Ranks]]
    /\ lastInfo \in Nat /\ joined \subseteq Ranks \X (1 .. lastInfo)
    /\ restarts \in 0 .. MaxRestarts /\ runStart \in 0 .. lastInfo
    /\ occurred \subseteq FaultKinds \cup {"lock"}

\* These failures separate the ranks: after them a rank may meet a barrier, or a root
\* information, of an earlier exchange.
Together == occurred \cap {"barrier", "init", "lock"} = {}

\* A rank passes the barrier only when every rank has the root information it has
\* itself: nobody goes on to HcclCommInitRootInfo to wait for a rank that will not come.
BarrierMeansExchanged ==
    [][\A r \in Ranks : (~ok[r] /\ ok'[r] /\ Together) =>
            \A q \in Ranks : info[q] = info[r]]_vars

\* The root information of an exchange is one of this run, although the segment may
\* hold one that processes left behind when they died.
InfoIsOfThisRun == Together => \A r \in Ranks : info[r] # 0 => info[r] > runStart

\* When no process is in the exchange the segment is gone, also one that an earlier run
\* has left behind, unless a process could not even look it up.
SegmentIsRemoved ==
    (/\ "lookup" \notin occurred
     /\ \A r \in Ranks : pc[r] \in {"idle", "init"}
     /\ \E r \in Ranks : call[r] > 0)
        => segOfKey = None

\* Unless something fails, every call returns: the ranks poll and wait for each other
\* at four places and no two of them ever wait for one another.
CallsReturn ==
    <>(occurred # {} \/ \A r \in Ranks : pc[r] = "idle" /\ call[r] + restarts >= Calls)
=============================================================================
