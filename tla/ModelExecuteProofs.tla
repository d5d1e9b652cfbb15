------------------------- MODULE ModelExecuteProofs -------------------------
(***************************************************************************)
(* Proofs about ModelExecute, for any number of nodes and of calls, every   *)
(* way to run the nodes and every failure: the model keeps the promise of   *)
(* OrderedRun, no pack is rebuilt while a thread still has to read it, a    *)
(* failure is reported, and a call that only prepares returns prepared.     *)
(*                                                                         *)
(* The tasks of a call carry no number of the call and share one flag and   *)
(* one counter with those of all others.  The invariant gives every task    *)
(* its place in the order of the graph back: its distance from the end of   *)
(* the pipeline that leads from the caller to the task thread.              *)
(***************************************************************************)
EXTENDS ModelExecute, TLAPS

Busy == pc # "idle"
Healthy == ~Failed /\ ~setupFailed

\* Where the caller is, and which packs are there.
Places ==
    /\ pc \in {"build", "check", "run"} => nodeId < NodeCount
    /\ pc = "wait" => nodeId = NodeCount
    /\ Busy => round > 0
Packs ==
    /\ \A n \in Nodes : launchedIn[n] <= variantPack[n] /\ preparedIn[n] <= variantPack[n]
    /\ \A n \in Nodes : Busy /\ n < nodeId => variantPack[n] = round
    /\ pc \in {"check", "run"} => variantPack[nodeId] = round
    /\ \A i \in DOMAIN preTaskQueue : variantPack[preTaskQueue[i]] > 0

\* Who gets tasks, in which mode; and nobody before the first node has been run.
Routes ==
    /\ isUsePlanPreExecuteAsync => isUsePlanExecuteAsync
    /\ ~isUsePlanExecuteAsync => taskQueue = <<>>
    /\ ~HasTaskThread => task = NoTask
    /\ ~isUsePlanPreExecuteAsync => preTaskQueue = <<>>
    /\ ~(isUsePlanExecuteAsync /\ runTaskFunc) => runTasks = <<>>
    /\ executeCount = 0 => preTaskQueue = <<>> /\ taskQueue = <<>> /\ task = NoTask /\ runTasks = <<>>
    /\ executeCount = 0 /\ isUsePlanExecuteAsync => nodeId = 0 /\ preparedIn[0] = 0
    /\ executeCount # 0 => round > 0

\* The statuses remember failures; a later call gets no further than to look at them.
Reported ==
    /\ Failed <=> ~StatusIsGood
    /\ Failed /\ failedIn # round /\ Busy => nodeId = 0 /\ pc \in {"build", "check"}

\* What other threads have to read belongs to nodes that the caller has passed.
Behind ==
    ~runTaskFunc /\ ~setupFailed /\ Busy /\ (Failed => failedIn = round) =>
        \A x \in Queued(taskQueue) \cup Queued(preTaskQueue) \cup {task} : x < nodeId

\* The pipeline of a model without a RunTaskFunc, when the caller is at node n: the task thread
\* is at task t, the next ones are in its queue tq, and the last ones in that of the worker, pq.
\* So the place of a task in the graph is its distance from the caller.
AtWork(t) == IF t = NoTask THEN 0 ELSE 1
Done(n, pq, tq, t) == n - Len(pq) - Len(tq) - AtWork(t)
IsTask(x, n) == x = n \/ (x = Placeholder /\ n = 0)
Numbered(n, pq, tq, t) ==
    /\ Done(n, pq, tq, t) >= 0
    /\ \A i \in 1 .. Len(pq) : pq[i] = n - Len(pq) + i - 1
    /\ \A i \in 1 .. Len(tq) : IsTask(tq[i], n - Len(pq) - Len(tq) + i - 1)
    /\ t # NoTask => IsTask(t, Done(n, pq, tq, t))
PlaceIsHeld(tq, t) == Placeholder \in Queued(tq) \cup {t}

LaunchedUpTo(d, held) == \A n \in Nodes : launchedIn[n] = round <=> n < d \/ (n = 0 /\ held)
Counted(d) == IF allTaskFinish THEN d = NodeCount /\ processTaskCount = 0 ELSE processTaskCount = d
InOrder ==
    Healthy /\ ~runTaskFunc =>
        IF Busy
        THEN /\ Numbered(nodeId, preTaskQueue, taskQueue, task)
             /\ isUsePlanExecuteAsync => Counted(Done(nodeId, preTaskQueue, taskQueue, task))
             /\ LaunchedUpTo(Done(nodeId, preTaskQueue, taskQueue, task), PlaceIsHeld(taskQueue, task))
        ELSE /\ preTaskQueue = <<>> /\ taskQueue = <<>> /\ task = NoTask
             /\ isUsePlanExecuteAsync => processTaskCount = 0

\* With a RunTaskFunc and pre-execution the worker's queue may begin with leftovers of calls whose
\* Setup failed, but the last node is never among these.  The first node ever is launched only.
NotLast(pq) == \A i \in 1 .. Len(pq) : pq[i] < NodeCount - 1
Line(n, pq, first) ==
    \A i \in 1 .. Len(pq) :
        IF n - Len(pq) + i - 1 >= first THEN pq[i] = n - Len(pq) + i - 1 ELSE pq[i] < NodeCount - 1
OnlyLaunched == preparedIn[0] = 0 /\ launchedIn[0] = round
First == IF OnlyLaunched THEN 1 ELSE 0
PreparedUpTo(d) == \A n \in Nodes : First <= n /\ n < d => preparedIn[n] = round
Preparing ==
    ~Failed /\ isUsePlanPreExecuteAsync /\ runTaskFunc =>
        /\ 0 \in Queued(runTasks) => preparedIn[0] # 0
        /\ IF Busy
           THEN /\ Line(nodeId, preTaskQueue, First)
                /\ PreparedUpTo(nodeId - Len(preTaskQueue))
                /\ OnlyLaunched => Len(preTaskQueue) < nodeId
                /\ allTaskFinish => nodeId = NodeCount /\ preTaskQueue = <<>>
           ELSE NotLast(preTaskQueue)

\* TypeOK in groups.
ModeTypes ==
    isUsePlanExecuteAsync \in BOOLEAN /\ isUsePlanPreExecuteAsync \in BOOLEAN /\ runTaskFunc \in BOOLEAN
CallTypes ==
    /\ pc \in {"idle", "build", "check", "run", "wait"} /\ nodeId \in 0 .. NodeCount
    /\ executeCount \in {0, 1}
FlagTypes ==
    /\ allTaskFinish \in BOOLEAN
    /\ executeStatus \in BOOLEAN /\ preExecuteStatus \in BOOLEAN /\ setupFailed \in BOOLEAN
TaskTypes ==
    /\ taskQueue \in Seq(Nodes \cup {Placeholder}) /\ task \in Nodes \cup {Placeholder, NoTask}
    /\ processTaskCount \in -1 .. NodeCount - 1
    /\ preTaskQueue \in Seq(Nodes) /\ runTasks \in Seq(Nodes)
PackTypes ==
    /\ round \in 0 .. MaxExecutes /\ failedIn \in 0 .. round
    /\ variantPack \in [Nodes -> 0 .. round]
    /\ launchedIn \in [Nodes -> 0 .. round] /\ preparedIn \in [Nodes -> 0 .. round]
Types == ModeTypes /\ CallTypes /\ FlagTypes /\ TaskTypes /\ PackTypes /\ Places
IInv == Types /\ Packs /\ Routes /\ Reported /\ Behind /\ InOrder /\ Preparing
-----------------------------------------------------------------------------
LEMMA Constants == NodeCount \in Nat /\ NodeCount > 0 /\ MaxExecutes \in Nat /\ 0 \in Nodes
BY NodeCountAssumption, MaxExecutesAssumption DEF Nodes

LEMMA QueuedAppend ==
  ASSUME NEW S, NEW s \in Seq(S), NEW x
  PROVE  Queued(Append(s, x)) = Queued(s) \cup {x}
BY DEF Queued

LEMMA QueuedTail ==
  ASSUME NEW S, NEW s \in Seq(S), s # <<>>
  PROVE  Queued(s) = Queued(Tail(s)) \cup {Head(s)}
<1>1. /\ DOMAIN s = 1 .. Len(s) /\ Len(s) \in Nat /\ Len(s) > 0 /\ Head(s) = s[1]
      /\ DOMAIN Tail(s) = 1 .. Len(s) - 1
      /\ \A i \in 1 .. Len(s) - 1 : Tail(s)[i] = s[i + 1]
  OBVIOUS
<1>2. \A i \in DOMAIN s : i = 1 \/ (i - 1 \in DOMAIN Tail(s) /\ Tail(s)[i - 1] = s[i])
  BY <1>1
<1>3. \A i \in DOMAIN Tail(s) : i + 1 \in DOMAIN s /\ Tail(s)[i] = s[i + 1]
  BY <1>1
<1> QED
  BY <1>1, <1>2, <1>3 DEF Queued
-----------------------------------------------------------------------------
(* The pipeline: what its stages do to the places of the tasks.            *)

LEMMA EmptyPipe ==
  ASSUME NEW n \in Nat
  PROVE  /\ Numbered(n, <<>>, <<>>, NoTask) /\ Done(n, <<>>, <<>>, NoTask) = n
         /\ ~PlaceIsHeld(<<>>, NoTask)
BY DEF Numbered, Done, AtWork, PlaceIsHeld, Queued, NoTask, Placeholder

LEMMA DoneFacts ==
  ASSUME NEW n \in Nat, NEW pq \in Seq(Nodes), NEW tq \in Seq(Nodes \cup {Placeholder}), NEW t
  PROVE  /\ Done(n, pq, tq, t) \in Int /\ Done(n, pq, tq, t) <= n
         /\ Done(n, pq, tq, t) = n => pq = <<>> /\ tq = <<>> /\ t = NoTask
BY DEF Done, AtWork

LEMMA PushPre ==
  ASSUME NEW n \in Nodes, NEW pq \in Seq(Nodes), NEW tq \in Seq(Nodes \cup {Placeholder}), NEW t,
         Numbered(n, pq, tq, t)
  PROVE  /\ Numbered(n + 1, Append(pq, n), tq, t)
         /\ Done(n + 1, Append(pq, n), tq, t) = Done(n, pq, tq, t)
<1>1. /\ Len(Append(pq, n)) = Len(pq) + 1 /\ Len(pq) \in Nat /\ Len(tq) \in Nat /\ AtWork(t) \in {0, 1}
      /\ n \in Nat /\ Append(pq, n)[Len(pq) + 1] = n
      /\ \A i \in 1 .. Len(pq) : Append(pq, n)[i] = pq[i]
  BY Constants DEF AtWork, Nodes
<1>2. Done(n + 1, Append(pq, n), tq, t) = Done(n, pq, tq, t)
  BY <1>1 DEF Done
<1>3. \A i \in 1 .. Len(Append(pq, n)) : Append(pq, n)[i] = n + 1 - Len(Append(pq, n)) + i - 1
  BY <1>1 DEF Numbered
<1>4. \A i \in 1 .. Len(tq) : IsTask(tq[i], n + 1 - Len(Append(pq, n)) - Len(tq) + i - 1)
  <2>1. \A i \in 1 .. Len(tq) : IsTask(tq[i], n - Len(pq) - Len(tq) + i - 1)
    BY DEF Numbered
  <2>2. \A i \in 1 .. Len(tq) :
            n - Len(pq) - Len(tq) + i - 1 = n + 1 - Len(Append(pq, n)) - Len(tq) + i - 1
    BY <1>1
  <2> QED
    BY <2>1, <2>2
<1>5. Done(n, pq, tq, t) >= 0 /\ (t # NoTask => IsTask(t, Done(n, pq, tq, t)))
  BY DEF Numbered
<1> QED
  BY <1>1, <1>2, <1>3, <1>4, <1>5 DEF Numbered

LEMMA PushLast ==
  ASSUME NEW n \in Nodes, NEW tq \in Seq(Nodes \cup {Placeholder}), NEW t, Numbered(n, <<>>, tq, t)
  PROVE  /\ Numbered(n + 1, <<>>, Append(tq, n), t)
         /\ Done(n + 1, <<>>, Append(tq, n), t) = Done(n, <<>>, tq, t)
         /\ PlaceIsHeld(Append(tq, n), t) <=> PlaceIsHeld(tq, t)
<1>1. /\ Len(Append(tq, n)) = Len(tq) + 1 /\ Len(tq) \in Nat /\ AtWork(t) \in {0, 1}
      /\ n \in Nat /\ Append(tq, n)[Len(tq) + 1] = n
      /\ \A i \in 1 .. Len(tq) : Append(tq, n)[i] = tq[i]
  BY Constants DEF AtWork, Nodes
<1>2. Done(n + 1, <<>>, Append(tq, n), t) = Done(n, <<>>, tq, t)
  BY <1>1 DEF Done
<1>3. \A i \in 1 .. Len(Append(tq, n)) :
          IsTask(Append(tq, n)[i], n + 1 - Len(<<>>) - Len(Append(tq, n)) + i - 1)
  BY <1>1 DEF Numbered, IsTask
<1>4. Numbered(n + 1, <<>>, Append(tq, n), t)
  <2>1. Done(n, <<>>, tq, t) >= 0 /\ (t # NoTask => IsTask(t, Done(n, <<>>, tq, t)))
    BY DEF Numbered
  <2>2. \A i \in 1 .. Len(<<>>) : <<>>[i] = n + 1 - Len(<<>>) + i - 1
    OBVIOUS
  <2> QED
    BY <1>1, <1>2, <1>3, <2>1, <2>2 DEF Numbered
<1>5. n # Placeholder
  BY <1>1 DEF Placeholder
<1> QED
  BY <1>2, <1>4, <1>5, QueuedAppend DEF PlaceIsHeld

LEMMA PopFirst ==
  ASSUME NEW n \in Nat, NEW pq \in Seq(Nodes), NEW tq \in Seq(Nodes \cup {Placeholder}), tq # <<>>,
         Numbered(n, pq, tq, NoTask)
  PROVE  /\ Numbered(n, pq, Tail(tq), Head(tq))
         /\ Done(n, pq, Tail(tq), Head(tq)) = Done(n, pq, tq, NoTask)
         /\ PlaceIsHeld(Tail(tq), Head(tq)) <=> PlaceIsHeld(tq, NoTask)
<1>1. /\ Len(Tail(tq)) = Len(tq) - 1 /\ Len(pq) \in Nat /\ Len(tq) \in Nat /\ Len(tq) > 0
      /\ Head(tq) = tq[1] /\ Head(tq) \in Nodes \cup {Placeholder}
      /\ \A i \in 1 .. Len(tq) - 1 : Tail(tq)[i] = tq[i + 1]
  OBVIOUS
<1>2. Head(tq) # NoTask
  BY <1>1, Constants DEF NoTask, Placeholder, Nodes
<1>3. Done(n, pq, Tail(tq), Head(tq)) = n - Len(pq) - Len(tq) /\ Done(n, pq, tq, NoTask) = n - Len(pq) - Len(tq)
  BY <1>1, <1>2 DEF Done, AtWork
<1>4. \A i \in 1 .. Len(Tail(tq)) : IsTask(Tail(tq)[i], n - Len(pq) - Len(Tail(tq)) + i - 1)
  <2> TAKE i \in 1 .. Len(Tail(tq))
  <2>1. i + 1 \in 1 .. Len(tq) /\ Tail(tq)[i] = tq[i + 1]
    BY <1>1
  <2>2. IsTask(tq[i + 1], n - Len(pq) - Len(tq) + (i + 1) - 1)
    BY <2>1 DEF Numbered
  <2>3. n - Len(pq) - Len(tq) + (i + 1) - 1 = n - Len(pq) - Len(Tail(tq)) + i - 1
    BY <1>1
  <2> QED
    BY <2>1, <2>2, <2>3
<1>5. IsTask(Head(tq), n - Len(pq) - Len(tq))
  <2>1. IsTask(tq[1], n - Len(pq) - Len(tq) + 1 - 1)
    BY <1>1 DEF Numbered
  <2> QED
    BY <1>1, <2>1
<1>6. Numbered(n, pq, Tail(tq), Head(tq))
  BY <1>3, <1>4, <1>5 DEF Numbered
<1>7. Placeholder # NoTask
  BY DEF Placeholder, NoTask
<1> QED
  BY <1>3, <1>6, <1>7, QueuedTail DEF PlaceIsHeld

LEMMA MoveOn ==
  ASSUME NEW n \in Nat, NEW pq \in Seq(Nodes), pq # <<>>, NEW tq \in Seq(Nodes \cup {Placeholder}), NEW t,
         Numbered(n, pq, tq, t)
  PROVE  /\ Numbered(n, Tail(pq), Append(tq, Head(pq)), t)
         /\ Done(n, Tail(pq), Append(tq, Head(pq)), t) = Done(n, pq, tq, t)
         /\ PlaceIsHeld(Append(tq, Head(pq)), t) <=> PlaceIsHeld(tq, t)
<1>1. /\ Len(Tail(pq)) = Len(pq) - 1 /\ Len(pq) \in Nat /\ Len(tq) \in Nat /\ Len(pq) > 0
      /\ Head(pq) = pq[1] /\ Head(pq) \in Nodes
      /\ \A i \in 1 .. Len(pq) - 1 : Tail(pq)[i] = pq[i + 1]
  OBVIOUS
<1>2. /\ Len(Append(tq, Head(pq))) = Len(tq) + 1 /\ Append(tq, Head(pq))[Len(tq) + 1] = Head(pq)
      /\ \A i \in 1 .. Len(tq) : Append(tq, Head(pq))[i] = tq[i]
  BY <1>1
<1>3. Done(n, Tail(pq), Append(tq, Head(pq)), t) = Done(n, pq, tq, t)
  BY <1>1, <1>2 DEF Done, AtWork
<1>4. \A i \in 1 .. Len(Tail(pq)) : Tail(pq)[i] = n - Len(Tail(pq)) + i - 1
  <2> TAKE i \in 1 .. Len(Tail(pq))
  <2>1. i + 1 \in 1 .. Len(pq) /\ Tail(pq)[i] = pq[i + 1]
    BY <1>1
  <2>2. pq[i + 1] = n - Len(pq) + (i + 1) - 1
    BY <2>1 DEF Numbered
  <2> QED
    BY <1>1, <2>1, <2>2
<1>5. n - Len(Tail(pq)) - Len(Append(tq, Head(pq))) = n - Len(pq) - Len(tq)
  BY <1>1, <1>2
<1>6. Head(pq) = n - Len(pq)
  BY <1>1 DEF Numbered
<1>7. \A i \in 1 .. Len(Append(tq, Head(pq))) :
          IsTask(Append(tq, Head(pq))[i], n - Len(pq) - Len(tq) + i - 1)
  <2> TAKE i \in 1 .. Len(Append(tq, Head(pq)))
  <2>1. CASE i \in 1 .. Len(tq)
    BY <1>2, <2>1 DEF Numbered
  <2>2. CASE i = Len(tq) + 1
    <3>1. n - Len(pq) - Len(tq) + i - 1 = Head(pq)
      BY <1>1, <1>6, <2>2
    <3> QED
      BY <1>2, <2>2, <3>1 DEF IsTask
  <2> QED
    BY <1>1, <1>2, <2>1, <2>2
<1>8. Numbered(n, Tail(pq), Append(tq, Head(pq)), t)
  BY <1>3, <1>4, <1>5, <1>7 DEF Numbered
<1>9. Head(pq) # Placeholder
  BY <1>1, Constants DEF Placeholder, Nodes
<1> QED
  BY <1>3, <1>8, <1>9, <1>1, QueuedAppend DEF PlaceIsHeld

LEMMA Finish ==
  ASSUME NEW n \in Nat, NEW pq \in Seq(Nodes), NEW tq \in Seq(Nodes \cup {Placeholder}), NEW t, t # NoTask,
         Numbered(n, pq, tq, t)
  PROVE  /\ Numbered(n, pq, tq, NoTask) /\ IsTask(t, Done(n, pq, tq, t))
         /\ Done(n, pq, tq, NoTask) = Done(n, pq, tq, t) + 1
         /\ ~PlaceIsHeld(tq, NoTask)
<1>1. Len(pq) \in Nat /\ Len(tq) \in Nat /\ DOMAIN tq = 1 .. Len(tq)
  OBVIOUS
<1>2. /\ Done(n, pq, tq, NoTask) = n - Len(pq) - Len(tq) /\ Done(n, pq, tq, t) = n - Len(pq) - Len(tq) - 1
      /\ Done(n, pq, tq, t) >= 0
  BY <1>1 DEF Done, AtWork, Numbered
<1>3. \A i \in 1 .. Len(tq) : tq[i] # Placeholder
  <2> TAKE i \in 1 .. Len(tq)
  <2>1. n - Len(pq) - Len(tq) + i - 1 \in Nat /\ n - Len(pq) - Len(tq) + i - 1 > 0
    BY <1>1, <1>2
  <2> HIDE DEF IsTask
  <2>2. IsTask(tq[i], n - Len(pq) - Len(tq) + i - 1)
    BY DEF Numbered
  <2> QED
    BY <2>1, <2>2 DEF IsTask, Placeholder
<1>4. ~PlaceIsHeld(tq, NoTask)
  BY <1>1, <1>3 DEF PlaceIsHeld, Queued, NoTask, Placeholder
<1> QED
  BY <1>1, <1>2, <1>4 DEF Numbered

LEMMA LinePush ==
  ASSUME NEW n \in Nodes, NEW pq \in Seq(Nodes), NEW first \in {0, 1}, n >= first, Line(n, pq, first)
  PROVE  Line(n + 1, Append(pq, n), first)
<1>1. /\ Len(Append(pq, n)) = Len(pq) + 1 /\ Len(pq) \in Nat /\ n \in Nat
      /\ Append(pq, n)[Len(pq) + 1] = n
      /\ \A i \in 1 .. Len(pq) : Append(pq, n)[i] = pq[i]
  BY Constants DEF Nodes
<1> SUFFICES ASSUME NEW i \in 1 .. Len(Append(pq, n))
             PROVE  IF n - Len(pq) + i - 1 >= first THEN Append(pq, n)[i] = n - Len(pq) + i - 1
                                                    ELSE Append(pq, n)[i] < NodeCount - 1
  BY <1>1 DEF Line
<1>2. CASE i \in 1 .. Len(pq)
  BY <1>1, <1>2 DEF Line
<1>3. CASE i = Len(pq) + 1
  BY <1>1, <1>3
<1> QED
  BY <1>1, <1>2, <1>3

LEMMA LinePop ==
  ASSUME NEW n \in Nat, NEW pq \in Seq(Nodes), pq # <<>>, NEW first \in {0, 1}, Line(n, pq, first)
  PROVE  /\ Line(n, Tail(pq), first)
         /\ IF n - Len(pq) >= first THEN Head(pq) = n - Len(pq) ELSE Head(pq) < NodeCount - 1
<1>1. /\ Len(Tail(pq)) = Len(pq) - 1 /\ Len(pq) \in Nat /\ Len(pq) > 0 /\ Head(pq) = pq[1]
      /\ \A i \in 1 .. Len(pq) - 1 : Tail(pq)[i] = pq[i + 1]
  OBVIOUS
<1>2. \A i \in 1 .. Len(Tail(pq)) :
          IF n - Len(Tail(pq)) + i - 1 >= first THEN Tail(pq)[i] = n - Len(Tail(pq)) + i - 1
                                                ELSE Tail(pq)[i] < NodeCount - 1
  <2> TAKE i \in 1 .. Len(Tail(pq))
  <2>1. i + 1 \in 1 .. Len(pq) /\ Tail(pq)[i] = pq[i + 1]
        /\ n - Len(pq) + (i + 1) - 1 = n - Len(Tail(pq)) + i - 1
    BY <1>1
  <2>2. IF n - Len(pq) + (i + 1) - 1 >= first THEN pq[i + 1] = n - Len(pq) + (i + 1) - 1
                                              ELSE pq[i + 1] < NodeCount - 1
    BY <2>1 DEF Line
  <2> QED
    BY <2>1, <2>2
<1>3. IF n - Len(pq) + 1 - 1 >= first THEN pq[1] = n - Len(pq) + 1 - 1 ELSE pq[1] < NodeCount - 1
  BY <1>1 DEF Line
<1> QED
  BY <1>1, <1>2, <1>3 DEF Line

LEMMA NotLastPop ==
  ASSUME NEW pq \in Seq(Nodes), pq # <<>>, NotLast(pq)
  PROVE  NotLast(Tail(pq)) /\ Head(pq) < NodeCount - 1
BY DEF NotLast

\* Between two calls all entries are leftovers.
LEMMA LineStarts ==
  ASSUME NEW pq \in Seq(Nodes), NotLast(pq)
  PROVE  Line(0, pq, 0)
BY DEF Line, NotLast

\* A call whose Setup fails leaves no entry of the last node.
LEMMA LineEnds ==
  ASSUME NEW n \in Nodes, NEW pq \in Seq(Nodes), NEW first \in {0, 1}, Line(n, pq, first)
  PROVE  NotLast(pq)
BY Constants DEF Line, NotLast, Nodes

LEMMA FirstPipe ==
  /\ Numbered(1, <<>>, <<Placeholder>>, NoTask) /\ Done(1, <<>>, <<Placeholder>>, NoTask) = 0
  /\ PlaceIsHeld(<<Placeholder>>, NoTask)
<1>1. Len(<<Placeholder>>) = 1 /\ <<Placeholder>>[1] = Placeholder /\ DOMAIN <<Placeholder>> = {1}
  OBVIOUS
<1>2. Done(1, <<>>, <<Placeholder>>, NoTask) = 0
  BY <1>1 DEF Done, AtWork
<1>3. \A i \in 1 .. Len(<<Placeholder>>) :
          IsTask(<<Placeholder>>[i], 1 - Len(<<>>) - Len(<<Placeholder>>) + i - 1)
  BY <1>1 DEF IsTask
<1>4. Numbered(1, <<>>, <<Placeholder>>, NoTask)
  BY <1>1, <1>2, <1>3 DEF Numbered
<1>5. PlaceIsHeld(<<Placeholder>>, NoTask)
  BY <1>1 DEF PlaceIsHeld, Queued
<1> QED
  BY <1>2, <1>4, <1>5
-----------------------------------------------------------------------------
(* Every step preserves the invariant: a lemma for each action.            *)

LEMMA InitHolds == Init => IInv
<1> SUFFICES ASSUME Init PROVE IInv
  OBVIOUS
<1> USE DEF Init
<1>1. Types
  <2>1. ModeTypes
    BY RunTaskFuncsAssumption DEF ModeTypes
  <2>2. CallTypes /\ FlagTypes
    BY Constants DEF CallTypes, FlagTypes
  <2>3. TaskTypes /\ PackTypes /\ Places
    BY Constants DEF TaskTypes, PackTypes, Places, Busy
  <2> QED
    BY <2>1, <2>2, <2>3 DEF Types
<1>2. Packs
  BY DEF Packs, Busy
<1>3. Routes
  BY Constants DEF Routes, HasTaskThread
<1>4. Reported
  BY DEF Reported, Failed, StatusIsGood, Busy
<1>5. Behind /\ InOrder
  BY DEF Behind, InOrder, Busy
<1>6. Preparing
  BY DEF Preparing, Busy, Queued, NotLast
<1> QED
  BY <1>1, <1>2, <1>3, <1>4, <1>5, <1>6 DEF IInv

LEMMA StartStep == IInv /\ ExecuteStart => IInv'
<1> SUFFICES ASSUME IInv, ExecuteStart PROVE IInv'
  OBVIOUS
<1> USE Constants DEF IInv, Types, ExecuteStart, modeVars, statusVars, taskVars
<1>0. allTaskFinish' = FALSE
  BY DEF ResetFlag
<1>1. Types'
  <2>1. ModeTypes'
    BY DEF ModeTypes
  <2>2. CallTypes'
    BY DEF CallTypes
  <2>3. FlagTypes'
    BY <1>0 DEF FlagTypes
  <2>4. TaskTypes'
    BY DEF TaskTypes
  <2>5. PackTypes' /\ Places'
    BY DEF PackTypes, Places, Busy
  <2> QED
    BY <2>1, <2>2, <2>3, <2>4, <2>5
<1>2. Packs'
  BY DEF PackTypes, TaskTypes, Packs, Busy, Nodes
<1>3. Routes'
  BY DEF Routes, HasTaskThread, PackTypes
<1>4. Reported'
  BY DEF Reported, Failed, StatusIsGood, Busy, PackTypes
<1>5. Behind'
  BY DEF Behind, InOrder, Healthy, Failed, Busy, Queued, PackTypes, NoTask
<1>6. InOrder'
  <2> SUFFICES ASSUME Healthy', ~runTaskFunc' PROVE InOrder'
    BY DEF InOrder
  <2>1. /\ preTaskQueue' = <<>> /\ taskQueue' = <<>> /\ task' = NoTask
        /\ (isUsePlanExecuteAsync' => processTaskCount' = 0) /\ nodeId' = 0
    BY DEF InOrder, Healthy, Failed, Busy
  <2>2. LaunchedUpTo(0, FALSE)'
    BY DEF LaunchedUpTo, PackTypes, Nodes
  <2>3. isUsePlanExecuteAsync' => Counted(0)'
    BY <1>0, <2>1 DEF Counted
  <2>4. /\ Numbered(0, <<>>, <<>>, NoTask) /\ Done(0, <<>>, <<>>, NoTask) = 0
        /\ ~PlaceIsHeld(<<>>, NoTask)
    BY EmptyPipe
  <2> QED
    BY <2>1, <2>2, <2>3, <2>4 DEF InOrder, LaunchedUpTo
<1>7. Preparing'
  <2> SUFFICES ASSUME ~Failed', isUsePlanPreExecuteAsync', runTaskFunc' PROVE Preparing'
    BY DEF Preparing
  <2>1. (0 \in Queued(runTasks') => preparedIn'[0] # 0) /\ NotLast(preTaskQueue)
    BY DEF Preparing, Failed, Busy
  <2>2. ~OnlyLaunched' /\ First' = 0
    BY DEF OnlyLaunched, First, PackTypes
  <2>3. Line(nodeId', preTaskQueue', First')
    BY <2>1, <2>2, LineStarts DEF TaskTypes
  <2>4. PreparedUpTo(0 - Len(preTaskQueue))'
    BY DEF PreparedUpTo, TaskTypes, Nodes
  <2> QED
    BY <1>0, <2>1, <2>2, <2>3, <2>4 DEF Preparing, Busy
<1> QED
  BY <1>1, <1>2, <1>3, <1>4, <1>5, <1>6, <1>7

LEMMA BuildStep == IInv /\ BuildNodeVariantPack => IInv'
<1> SUFFICES ASSUME IInv, BuildNodeVariantPack PROVE IInv'
  OBVIOUS
<1> USE Constants DEF IInv, Types, BuildNodeVariantPack, modeVars, statusVars, taskVars
<1>0. /\ variantPack' = [variantPack EXCEPT ![nodeId] = round] /\ round \in Nat /\ round > 0
      /\ nodeId \in Nodes /\ Busy /\ Busy'
  BY DEF PackTypes, CallTypes, Places, Busy, Nodes
<1>1. Types'
  <2>1. ModeTypes'
    BY DEF ModeTypes
  <2>2. CallTypes'
    BY DEF CallTypes
  <2>3. FlagTypes'
    BY DEF FlagTypes
  <2>4. TaskTypes'
    BY DEF TaskTypes
  <2>5. PackTypes' /\ Places'
    BY <1>0 DEF PackTypes, Places, Busy
  <2> QED
    BY <2>1, <2>2, <2>3, <2>4, <2>5
<1>2. Packs'
  <2>1. \A n \in Nodes : variantPack'[n] \in Nat /\ variantPack'[n] >= variantPack[n]
                          /\ variantPack'[n] = IF n = nodeId THEN round ELSE variantPack[n]
    BY <1>0 DEF PackTypes
  <2>2. \A n \in Nodes : launchedIn'[n] <= variantPack'[n] /\ preparedIn'[n] <= variantPack'[n]
    BY <2>1 DEF Packs, PackTypes
  <2>3. /\ \A n \in Nodes : n < nodeId' => variantPack'[n] = round'
        /\ variantPack'[nodeId'] = round'
    BY <1>0, <2>1 DEF Packs
  <2>4. \A i \in DOMAIN preTaskQueue' : variantPack'[preTaskQueue'[i]] > 0
    BY <1>0, <2>1 DEF Packs, TaskTypes, PackTypes
  <2> QED
    BY <2>2, <2>3, <2>4 DEF Packs
<1>3. Routes'
  BY DEF Routes, HasTaskThread
<1>4. Reported'
  BY DEF Reported, Failed, StatusIsGood, Busy
<1>5. Behind'
  BY <1>0 DEF Behind, Failed
<1>6. InOrder'
  BY <1>0 DEF InOrder, Healthy, Failed, Counted, LaunchedUpTo
<1>7. Preparing'
  BY <1>0 DEF Preparing, Failed, PreparedUpTo, First, OnlyLaunched
<1> QED
  BY <1>1, <1>2, <1>3, <1>4, <1>5, <1>6, <1>7

LEMMA CheckStep == IInv /\ CheckStatus => IInv'
<1> SUFFICES ASSUME IInv, CheckStatus PROVE IInv'
  OBVIOUS
<1> USE Constants DEF IInv, Types, CheckStatus, Leave, modeVars, statusVars, taskVars
<1>0. /\ Busy /\ UNCHANGED <<nodeId, round>>
      /\ \/ StatusIsGood /\ pc' = "run"
         \/ ~StatusIsGood /\ pc' = "idle"
  BY DEF Busy
<1>1. Types'
  <2>1. ModeTypes'
    BY DEF ModeTypes
  <2>2. CallTypes'
    BY <1>0 DEF CallTypes
  <2>3. FlagTypes'
    BY DEF FlagTypes
  <2>4. TaskTypes'
    BY DEF TaskTypes
  <2>5. PackTypes' /\ Places'
    BY <1>0 DEF PackTypes, Places, Busy
  <2> QED
    BY <2>1, <2>2, <2>3, <2>4, <2>5
<1>2. Packs'
  BY <1>0 DEF Packs, Busy
<1>3. Routes'
  BY <1>0 DEF Routes, HasTaskThread
<1>4. Reported'
  BY <1>0 DEF Reported, Failed, StatusIsGood, Busy
<1>5. Behind'
  BY <1>0 DEF Behind, Failed, Busy
<1>6. InOrder'
  BY <1>0 DEF Reported, InOrder, Healthy, Failed, Counted, LaunchedUpTo, Busy
<1>7. Preparing'
  BY <1>0 DEF Reported, Preparing, Failed, PreparedUpTo, First, OnlyLaunched, Busy
<1> QED
  BY <1>1, <1>2, <1>3, <1>4, <1>5, <1>6, <1>7

LEMMA SetupFailStep == IInv /\ SetupFail => IInv'
<1> SUFFICES ASSUME IInv, SetupFail PROVE IInv'
  OBVIOUS
<1> USE Constants DEF IInv, Types, SetupFail, Leave, modeVars, statusVars, taskVars
<1>0. /\ Busy /\ ~Busy' /\ setupFailed' /\ nodeId \in Nodes
  BY DEF Busy, CallTypes, Places, Nodes
<1>1. Types'
  <2>1. ModeTypes'
    BY DEF ModeTypes
  <2>2. CallTypes'
    BY DEF CallTypes
  <2>3. FlagTypes'
    BY DEF FlagTypes
  <2>4. TaskTypes'
    BY DEF TaskTypes
  <2>5. PackTypes' /\ Places'
    BY <1>0 DEF PackTypes, Places, Busy
  <2> QED
    BY <2>1, <2>2, <2>3, <2>4, <2>5
<1>2. Packs'
  BY <1>0 DEF Packs
<1>3. Routes'
  BY DEF Routes, HasTaskThread
<1>4. Reported'
  BY <1>0 DEF Reported, Failed, StatusIsGood
<1>5. Behind' /\ InOrder'
  BY <1>0 DEF Behind, InOrder, Healthy
<1>6. Preparing'
  <2> SUFFICES ASSUME ~Failed', isUsePlanPreExecuteAsync', runTaskFunc' PROVE Preparing'
    BY DEF Preparing
  <2>1. First \in {0, 1} /\ Line(nodeId, preTaskQueue, First) /\ (0 \in Queued(runTasks') => preparedIn'[0] # 0)
    BY <1>0 DEF Preparing, First, Failed
  <2>2. NotLast(preTaskQueue')
    BY <1>0, <2>1, LineEnds DEF TaskTypes
  <2> QED
    BY <1>0, <2>1, <2>2 DEF Preparing
<1> QED
  BY <1>1, <1>2, <1>3, <1>4, <1>5, <1>6

LEMMA WaitStep == IInv /\ WaitAsyncPlanExecuteFinish => IInv'
<1> SUFFICES ASSUME IInv, WaitAsyncPlanExecuteFinish PROVE IInv'
  OBVIOUS
<1> USE Constants DEF IInv, Types, WaitAsyncPlanExecuteFinish, Leave, modeVars, statusVars, taskVars
<1>0. Busy /\ ~Busy' /\ nodeId = NodeCount /\ nodeId \in Nat
  BY DEF Busy, CallTypes, Places
<1>1. Types'
  <2>1. ModeTypes'
    BY DEF ModeTypes
  <2>2. CallTypes'
    BY DEF CallTypes
  <2>3. FlagTypes'
    BY DEF FlagTypes
  <2>4. TaskTypes'
    BY DEF TaskTypes
  <2>5. PackTypes' /\ Places'
    BY <1>0 DEF PackTypes, Places, Busy
  <2> QED
    BY <2>1, <2>2, <2>3, <2>4, <2>5
<1>2. Packs'
  BY <1>0 DEF Packs
<1>3. Routes'
  BY DEF Routes, HasTaskThread
<1>4. Reported'
  BY <1>0 DEF Reported, Failed, StatusIsGood
<1>5. Behind'
  BY <1>0 DEF Behind
<1>6. InOrder'
  <2> SUFFICES ASSUME Healthy, ~runTaskFunc PROVE InOrder'
    BY DEF InOrder, Healthy, Failed
  <2>1. CASE ~isUsePlanExecuteAsync
    BY <1>0, <2>1 DEF Routes, HasTaskThread, InOrder
  <2>2. CASE isUsePlanExecuteAsync
    <3>1. Counted(Done(nodeId, preTaskQueue, taskQueue, task)) /\ allTaskFinish
      BY <1>0, <2>2 DEF InOrder, Waits
    <3>2. preTaskQueue = <<>> /\ taskQueue = <<>> /\ task = NoTask /\ processTaskCount = 0
      BY <1>0, <3>1, DoneFacts DEF Counted, TaskTypes
    <3> QED
      BY <1>0, <3>2 DEF InOrder
  <2> QED
    BY <2>1, <2>2
<1>7. Preparing'
  <2> SUFFICES ASSUME ~Failed, isUsePlanPreExecuteAsync, runTaskFunc PROVE Preparing'
    BY DEF Preparing, Failed
  <2>1. allTaskFinish
    BY DEF Waits, Routes
  <2>2. preTaskQueue = <<>> /\ (0 \in Queued(runTasks) => preparedIn[0] # 0)
    BY <1>0, <2>1 DEF Preparing
  <2> QED
    BY <1>0, <2>2 DEF Preparing, NotLast
<1> QED
  BY <1>1, <1>2, <1>3, <1>4, <1>5, <1>6, <1>7

LEMMA PlanAsyncStep == IInv /\ ExecutePlanAsync => IInv'
<1> SUFFICES ASSUME IInv, ExecutePlanAsync PROVE IInv'
  OBVIOUS
<1> USE Constants DEF IInv, Types, ExecutePlanAsync, NextNode, PushTask, modeVars, statusVars
<1>0. /\ Busy /\ Busy' /\ nodeId \in Nodes /\ nodeId \in Nat /\ nodeId' = nodeId + 1 /\ isUsePlanExecuteAsync
      /\ executeCount # 0 /\ round \in Nat /\ UNCHANGED <<round, executeCount, runTaskFunc, task, processTaskCount>>
  BY DEF Busy, CallTypes, PackTypes, Places, Nodes, FirstNode
<1>a. \/ /\ isUsePlanPreExecuteAsync /\ preTaskQueue' = Append(preTaskQueue, nodeId)
         /\ UNCHANGED <<runTasks, taskQueue>>
      \/ /\ ~isUsePlanPreExecuteAsync /\ runTaskFunc /\ runTasks' = Append(runTasks, nodeId)
         /\ UNCHANGED <<preTaskQueue, taskQueue>>
      \/ /\ ~isUsePlanPreExecuteAsync /\ ~runTaskFunc /\ taskQueue' = Append(taskQueue, nodeId)
         /\ UNCHANGED <<preTaskQueue, runTasks>>
  OBVIOUS
<1>1. Types'
  <2>1. ModeTypes'
    BY DEF ModeTypes
  <2>2. CallTypes'
    BY <1>0 DEF CallTypes, Nodes
  <2>3. FlagTypes'
    BY DEF FlagTypes
  <2>4. TaskTypes'
    <3>1. /\ Append(preTaskQueue, nodeId) \in Seq(Nodes) /\ Append(runTasks, nodeId) \in Seq(Nodes)
          /\ Append(taskQueue, nodeId) \in Seq(Nodes \cup {Placeholder})
      BY <1>0 DEF TaskTypes
    <3>2. /\ taskQueue' \in Seq(Nodes \cup {Placeholder})
          /\ preTaskQueue' \in Seq(Nodes) /\ runTasks' \in Seq(Nodes)
      BY <1>a, <3>1 DEF TaskTypes
    <3> QED
      BY <1>0, <3>2 DEF TaskTypes
  <2>5. PackTypes' /\ Places'
    BY <1>0 DEF PackTypes, Places, Busy, Nodes
  <2> QED
    BY <2>1, <2>2, <2>3, <2>4, <2>5
<1>2. Packs'
  <2>1. \A n \in Nodes : n < nodeId' => variantPack'[n] = round'
    <3>1. \A n \in Nodes : n < nodeId \/ n = nodeId \/ n > nodeId
      BY <1>0 DEF Nodes
    <3> QED
      BY <1>0, <3>1 DEF Packs, Nodes
  <2>2. \A i \in DOMAIN preTaskQueue' : variantPack'[preTaskQueue'[i]] > 0
    <3>1. variantPack'[nodeId] > 0
      BY <1>0 DEF Packs, Places
    <3> QED
      <4>1. CASE UNCHANGED preTaskQueue
        BY <4>1 DEF Packs
      <4>2. CASE preTaskQueue' = Append(preTaskQueue, nodeId)
        BY <1>0, <3>1, <4>2 DEF Packs, TaskTypes
      <4> QED
        BY <1>a, <4>1, <4>2
  <2> QED
    BY <2>1, <2>2 DEF Packs
<1>3. Routes'
  BY <1>0, <1>a DEF Routes, HasTaskThread
<1>4. Reported'
  BY DEF Reported, Failed, StatusIsGood, Busy
<1>5. Behind'
  <2> SUFFICES ASSUME ~runTaskFunc, ~setupFailed, Failed => failedIn = round
               PROVE  \A x \in Queued(taskQueue') \cup Queued(preTaskQueue') \cup {task} : x < nodeId + 1
    BY <1>0 DEF Behind, Failed
  <2>1. \A x \in Queued(taskQueue) \cup Queued(preTaskQueue) \cup {task} : x < nodeId
    BY <1>0 DEF Behind
  <2>2. Queued(taskQueue') \cup Queued(preTaskQueue') \subseteq Queued(taskQueue) \cup Queued(preTaskQueue) \cup {nodeId}
    BY <1>a, QueuedAppend DEF TaskTypes
  <2>3. \A x \in Queued(taskQueue) \cup Queued(preTaskQueue) \cup {task} : x \in Int
    BY DEF Queued, TaskTypes, Nodes, Placeholder, NoTask
  <2> QED
    BY <1>0, <2>1, <2>2, <2>3
<1>6. InOrder'
  <2> SUFFICES ASSUME Healthy, ~runTaskFunc PROVE InOrder'
    BY <1>0 DEF InOrder, Healthy, Failed
  <2>0. PICK d : d = Done(nodeId, preTaskQueue, taskQueue, task)
    OBVIOUS
  <2>1. /\ Numbered(nodeId, preTaskQueue, taskQueue, task) /\ Counted(d)
        /\ LaunchedUpTo(d, PlaceIsHeld(taskQueue, task))
    BY <1>0, <2>0 DEF InOrder
  <2>2. /\ Numbered(nodeId', preTaskQueue', taskQueue', task')
        /\ Done(nodeId', preTaskQueue', taskQueue', task') = d
        /\ PlaceIsHeld(taskQueue', task') <=> PlaceIsHeld(taskQueue, task)
    <3>1. CASE isUsePlanPreExecuteAsync
      <4>1. preTaskQueue' = Append(preTaskQueue, nodeId) /\ UNCHANGED taskQueue
        BY <1>a, <3>1
      <4>2. /\ Numbered(nodeId + 1, Append(preTaskQueue, nodeId), taskQueue, task)
            /\ Done(nodeId + 1, Append(preTaskQueue, nodeId), taskQueue, task) = d
        BY <1>0, <2>0, <2>1, PushPre DEF TaskTypes
      <4> QED
        BY <1>0, <4>1, <4>2
    <3>2. CASE ~isUsePlanPreExecuteAsync
      <4>1. preTaskQueue = <<>> /\ preTaskQueue' = <<>> /\ taskQueue' = Append(taskQueue, nodeId)
        BY <1>a, <3>2 DEF Routes
      <4> QED
        <5>1. /\ Numbered(nodeId, <<>>, taskQueue, task) /\ Done(nodeId, <<>>, taskQueue, task) = d
              /\ taskQueue \in Seq(Nodes \cup {Placeholder})
          BY <2>0, <2>1, <4>1 DEF TaskTypes
        <5>2. /\ Numbered(nodeId + 1, <<>>, Append(taskQueue, nodeId), task)
              /\ Done(nodeId + 1, <<>>, Append(taskQueue, nodeId), task) = d
              /\ PlaceIsHeld(Append(taskQueue, nodeId), task) <=> PlaceIsHeld(taskQueue, task)
          BY <1>0, <5>1, PushLast
        <5> QED
          BY <1>0, <4>1, <5>2
    <3> QED
      BY <3>1, <3>2
  <2>3. Counted(d)'
    BY <1>0, <2>1, <2>2 DEF Counted
  <2>4. LaunchedUpTo(d, PlaceIsHeld(taskQueue, task))'
    BY <1>0, <2>1, <2>2 DEF LaunchedUpTo
  <2> QED
    BY <1>0, <2>2, <2>3, <2>4 DEF InOrder
<1>7. Preparing'
  <2> SUFFICES ASSUME ~Failed, isUsePlanPreExecuteAsync, runTaskFunc PROVE Preparing'
    BY <1>0 DEF Preparing, Failed
  <2>1. /\ preTaskQueue' = Append(preTaskQueue, nodeId) /\ Len(preTaskQueue') = Len(preTaskQueue) + 1
        /\ Len(preTaskQueue) \in Nat /\ UNCHANGED runTasks
    BY <1>a DEF TaskTypes
  <2>2. /\ 0 \in Queued(runTasks) => preparedIn[0] # 0
        /\ Line(nodeId, preTaskQueue, First) /\ PreparedUpTo(nodeId - Len(preTaskQueue))
        /\ OnlyLaunched => Len(preTaskQueue) < nodeId
        /\ ~allTaskFinish
    BY <1>0 DEF Preparing, Nodes
  <2>3. First \in {0, 1} /\ nodeId >= First
    BY <1>0, <2>1, <2>2 DEF First
  <2>4. First' = First /\ (OnlyLaunched' <=> OnlyLaunched)
    BY <1>0 DEF First, OnlyLaunched
  <2>5. Line(nodeId', preTaskQueue', First')
    BY <1>0, <2>1, <2>2, <2>3, <2>4, LinePush DEF TaskTypes
  <2>6. PreparedUpTo(nodeId - Len(preTaskQueue))'
    BY <1>0, <2>1, <2>2, <2>4 DEF PreparedUpTo
  <2> QED
    BY <1>0, <2>1, <2>2, <2>4, <2>5, <2>6 DEF Preparing
<1> QED
  BY <1>1, <1>2, <1>3, <1>4, <1>5, <1>6, <1>7

LEMMA PopStep == IInv /\ PopTask => IInv'
<1> SUFFICES ASSUME IInv, PopTask PROVE IInv'
  OBVIOUS
<1> USE Constants DEF IInv, Types, PopTask, modeVars, callVars, statusVars
<1>0. /\ task' = Head(taskQueue) /\ taskQueue' = Tail(taskQueue) /\ task = NoTask /\ taskQueue # <<>>
      /\ isUsePlanExecuteAsync /\ ~runTaskFunc
      /\ UNCHANGED <<pc, nodeId, round, isUsePlanExecuteAsync, runTaskFunc, setupFailed, failedIn, preTaskQueue>>
      /\ taskQueue \in Seq(Nodes \cup {Placeholder}) /\ preTaskQueue \in Seq(Nodes) /\ nodeId \in Nat
  BY DEF HasTaskThread, TaskTypes, CallTypes
<1>1. Types'
  <2>1. ModeTypes'
    BY DEF ModeTypes
  <2>2. CallTypes'
    BY DEF CallTypes
  <2>3. FlagTypes'
    BY DEF FlagTypes
  <2>4. TaskTypes'
    BY <1>0 DEF TaskTypes
  <2>5. PackTypes' /\ Places'
    BY <1>0 DEF PackTypes, Places, Busy
  <2> QED
    BY <2>1, <2>2, <2>3, <2>4, <2>5
<1>2. Packs'
  BY <1>0 DEF Packs, Busy
<1>3. Routes'
  BY <1>0 DEF Routes, HasTaskThread
<1>4. Reported'
  BY <1>0 DEF Reported, Failed, StatusIsGood, Busy
<1>5. Behind'
  <2>1. Queued(taskQueue') \cup {task'} \subseteq Queued(taskQueue) \cup {task}
    BY <1>0, QueuedTail
  <2> QED
    BY <1>0, <2>1 DEF Behind, Failed, Busy
<1>6. InOrder'
  <2> SUFFICES ASSUME Healthy, ~runTaskFunc PROVE InOrder'
    BY <1>0 DEF InOrder, Healthy, Failed
  <2>0. PICK d : d = Done(nodeId, preTaskQueue, taskQueue, task)
    OBVIOUS
  <2>1. /\ Busy /\ Numbered(nodeId, preTaskQueue, taskQueue, task) /\ Counted(d)
        /\ LaunchedUpTo(d, PlaceIsHeld(taskQueue, task))
    BY <1>0, <2>0 DEF InOrder
  <2>2. /\ Numbered(nodeId', preTaskQueue', taskQueue', task')
        /\ Done(nodeId', preTaskQueue', taskQueue', task') = d
        /\ PlaceIsHeld(taskQueue', task') <=> PlaceIsHeld(taskQueue, task)
    BY <1>0, <2>0, <2>1, PopFirst
  <2>3. Counted(d)'
    BY <2>1, <2>2 DEF Counted
  <2>4. LaunchedUpTo(d, PlaceIsHeld(taskQueue, task))'
    BY <1>0, <2>1, <2>2 DEF LaunchedUpTo
  <2> QED
    BY <1>0, <2>1, <2>2, <2>3, <2>4 DEF InOrder, Busy
<1>7. Preparing'
  BY <1>0 DEF Preparing
<1> QED
  BY <1>1, <1>2, <1>3, <1>4, <1>5, <1>6, <1>7

\* What a node that is launched, or fails to, changes.
LEMMA SyncFacts ==
  ASSUME IInv, NEW n \in Nodes, NEW ok \in BOOLEAN, ExecutePlanSync(n, ok), round > 0,
         UNCHANGED <<round, variantPack, preparedIn>>
  PROVE  /\ PackTypes' /\ executeStatus' \in BOOLEAN
         /\ UNCHANGED <<preExecuteStatus, setupFailed>>
         /\ \A m \in Nodes : launchedIn'[m] <= variantPack'[m] /\ preparedIn'[m] <= variantPack'[m]
         /\ Failed' <=> ~StatusIsGood'
         /\ ok => /\ launchedIn' = [launchedIn EXCEPT ![n] = variantPack[n]]
                  /\ UNCHANGED <<executeStatus, failedIn>>
         /\ ~ok => Failed' /\ UNCHANGED launchedIn
         /\ failedIn' # failedIn => ~Failed /\ failedIn' = round
<1> USE DEF IInv, Types, ExecutePlanSync, Fail, Failed
<1>0. round \in Nat /\ failedIn \in 0 .. round /\ launchedIn \in [Nodes -> 0 .. round]
      /\ variantPack \in [Nodes -> 0 .. round] /\ preparedIn \in [Nodes -> 0 .. round]
      /\ \A m \in Nodes : launchedIn[m] <= variantPack[m] /\ preparedIn[m] <= variantPack[m]
  BY DEF PackTypes, Packs
<1>1. CASE ok
  <2>1. launchedIn' = [launchedIn EXCEPT ![n] = variantPack[n]] /\ UNCHANGED failedIn
    BY <1>1
  <2>2. UNCHANGED <<executeStatus, preExecuteStatus, setupFailed>>
    BY <1>1
  <2>3. PackTypes'
    BY <1>0, <2>1 DEF PackTypes
  <2>4. \A m \in Nodes : launchedIn'[m] <= variantPack'[m] /\ preparedIn'[m] <= variantPack'[m]
    BY <1>0, <2>1
  <2>5. Failed' <=> ~StatusIsGood'
    BY <2>1, <2>2 DEF Reported, StatusIsGood
  <2> QED
    BY <1>1, <2>1, <2>2, <2>3, <2>4, <2>5 DEF FlagTypes
<1>2. CASE ~ok
  <2>1. /\ executeStatus' = FALSE /\ UNCHANGED <<launchedIn, preExecuteStatus, setupFailed>>
        /\ failedIn' = IF failedIn = 0 THEN round ELSE failedIn
    BY <1>2
  <2>2. PackTypes'
    BY <1>0, <2>1 DEF PackTypes
  <2>3. Failed' /\ ~StatusIsGood'
    BY <1>0, <2>1 DEF StatusIsGood
  <2> QED
    BY <1>0, <1>2, <2>1, <2>2, <2>3
<1> QED
  BY <1>1, <1>2

LEMMA PreSyncFacts ==
  ASSUME IInv, NEW n \in Nodes, NEW ok \in BOOLEAN, PreExecutePlanSync(n, ok), round > 0,
         UNCHANGED <<round, variantPack, launchedIn>>
  PROVE  /\ PackTypes' /\ preExecuteStatus' \in BOOLEAN
         /\ UNCHANGED <<executeStatus, setupFailed>>
         /\ \A m \in Nodes : launchedIn'[m] <= variantPack'[m] /\ preparedIn'[m] <= variantPack'[m]
         /\ Failed' <=> ~StatusIsGood'
         /\ ok => /\ preparedIn' = [preparedIn EXCEPT ![n] = variantPack[n]]
                  /\ UNCHANGED <<preExecuteStatus, failedIn>>
         /\ ~ok => Failed' /\ UNCHANGED preparedIn
         /\ failedIn' # failedIn => ~Failed /\ failedIn' = round
<1> USE DEF IInv, Types, PreExecutePlanSync, Fail, Failed
<1>0. round \in Nat /\ failedIn \in 0 .. round /\ launchedIn \in [Nodes -> 0 .. round]
      /\ variantPack \in [Nodes -> 0 .. round] /\ preparedIn \in [Nodes -> 0 .. round]
      /\ \A m \in Nodes : launchedIn[m] <= variantPack[m] /\ preparedIn[m] <= variantPack[m]
  BY DEF PackTypes, Packs
<1>1. CASE ok
  <2>1. preparedIn' = [preparedIn EXCEPT ![n] = variantPack[n]] /\ UNCHANGED failedIn
    BY <1>1
  <2>2. UNCHANGED <<executeStatus, preExecuteStatus, setupFailed>>
    BY <1>1
  <2>3. PackTypes'
    BY <1>0, <2>1 DEF PackTypes
  <2>4. \A m \in Nodes : launchedIn'[m] <= variantPack'[m] /\ preparedIn'[m] <= variantPack'[m]
    BY <1>0, <2>1
  <2>5. Failed' <=> ~StatusIsGood'
    BY <2>1, <2>2 DEF Reported, StatusIsGood
  <2> QED
    BY <1>1, <2>1, <2>2, <2>3, <2>4, <2>5 DEF FlagTypes
<1>2. CASE ~ok
  <2>1. /\ preExecuteStatus' = FALSE /\ UNCHANGED <<preparedIn, executeStatus, setupFailed>>
        /\ failedIn' = IF failedIn = 0 THEN round ELSE failedIn
    BY <1>2
  <2>2. PackTypes'
    BY <1>0, <2>1 DEF PackTypes
  <2>3. Failed' /\ ~StatusIsGood'
    BY <1>0, <2>1 DEF StatusIsGood
  <2> QED
    BY <1>0, <1>2, <2>1, <2>2, <2>3
<1> QED
  BY <1>1, <1>2

LEMMA RunNodeStep == IInv /\ RunNode => IInv'
<1> SUFFICES ASSUME IInv, RunNode PROVE IInv'
  OBVIOUS
<1>p. PICK ok \in BOOLEAN : ExecutePlanSync(nodeId, ok) /\ (IF ok THEN NextNode ELSE Leave)
  BY DEF RunNode
<1> USE Constants DEF IInv, Types, RunNode, modeVars, taskVars
<1>0. /\ Busy /\ pc = "run" /\ nodeId \in Nodes /\ nodeId \in Nat /\ round \in Nat /\ round > 0
      /\ UNCHANGED <<round, variantPack, preparedIn, runTaskFunc>>
  BY <1>p DEF Busy, CallTypes, PackTypes, Places, Nodes, NextNode, Leave
<1>a. \/ /\ ok /\ nodeId' = nodeId + 1 /\ pc' = IF nodeId + 1 = NodeCount THEN "wait" ELSE "build"
      \/ /\ ~ok /\ nodeId' = nodeId /\ pc' = "idle"
  BY <1>p DEF NextNode, Leave
<1>s. /\ PackTypes' /\ executeStatus' \in BOOLEAN
      /\ UNCHANGED <<preExecuteStatus, setupFailed>>
      /\ \A m \in Nodes : launchedIn'[m] <= variantPack'[m] /\ preparedIn'[m] <= variantPack'[m]
      /\ Failed' <=> ~StatusIsGood'
      /\ ok => /\ launchedIn' = [launchedIn EXCEPT ![nodeId] = variantPack[nodeId]]
               /\ UNCHANGED <<executeStatus, failedIn>>
      /\ ~ok => Failed' /\ UNCHANGED launchedIn
      /\ failedIn' # failedIn => ~Failed /\ failedIn' = round
  BY <1>0, <1>p, SyncFacts
<1>e. /\ preTaskQueue = <<>> /\ taskQueue = <<>> /\ task = NoTask /\ ~isUsePlanExecuteAsync
      /\ UNCHANGED <<preTaskQueue, taskQueue, task, isUsePlanExecuteAsync>>
  BY DEF Routes, HasTaskThread
<1>1. Types'
  <2>1. ModeTypes'
    BY DEF ModeTypes
  <2>2. CallTypes'
    BY <1>0, <1>a DEF CallTypes, Nodes
  <2>3. FlagTypes'
    BY <1>s DEF FlagTypes
  <2>4. TaskTypes'
    BY DEF TaskTypes
  <2>5. Places'
    BY <1>0, <1>a DEF Places, Busy, Nodes
  <2> QED
    BY <1>s, <2>1, <2>2, <2>3, <2>4, <2>5
<1>2. Packs'
  <2>1. \A n \in Nodes : Busy' /\ n < nodeId' => variantPack'[n] = round'
    <3>1. \A n \in Nodes : n < nodeId \/ n = nodeId \/ n > nodeId
      BY <1>0 DEF Nodes
    <3> QED
      BY <1>0, <1>a, <3>1 DEF Packs, Nodes, Busy
  <2> QED
    BY <1>0, <1>a, <1>s, <2>1 DEF Packs
<1>3. Routes'
  BY <1>0, <1>e DEF Routes, HasTaskThread
<1>4. Reported'
  BY <1>0, <1>a, <1>s DEF Reported, Failed, Busy
<1>5. Behind'
  BY <1>0, <1>e, <1>a DEF Behind, Queued, NoTask
<1>6. InOrder'
  <2> SUFFICES ASSUME Healthy', ~runTaskFunc' PROVE InOrder'
    BY DEF InOrder
  <2>1. /\ ok /\ Healthy /\ ~runTaskFunc /\ Busy' /\ nodeId' = nodeId + 1
    BY <1>0, <1>a, <1>s DEF Healthy, Failed, Busy
  <2>2. LaunchedUpTo(Done(nodeId, <<>>, <<>>, NoTask), PlaceIsHeld(<<>>, NoTask))
    BY <1>0, <1>e, <2>1 DEF InOrder
  <2>3. Done(nodeId, <<>>, <<>>, NoTask) = nodeId /\ ~PlaceIsHeld(<<>>, NoTask)
    BY <1>0, EmptyPipe
  <2>4. /\ Numbered(nodeId + 1, <<>>, <<>>, NoTask)
        /\ Done(nodeId + 1, <<>>, <<>>, NoTask) = nodeId + 1
    BY <1>0, EmptyPipe
  <2>5. LaunchedUpTo(nodeId, FALSE)
    BY <2>2, <2>3 DEF LaunchedUpTo
  <2>6. variantPack[nodeId] = round /\ launchedIn \in [Nodes -> 0 .. round]
    BY <1>0 DEF Packs, PackTypes
  <2>7. \A n \in Nodes : launchedIn'[n] = round' <=> n < nodeId + 1
    <3>1. \A n \in Nodes : n < nodeId + 1 <=> n < nodeId \/ n = nodeId
      BY <1>0 DEF Nodes
    <3> QED
      BY <1>0, <1>s, <2>1, <2>5, <2>6, <3>1 DEF LaunchedUpTo
  <2>8. LaunchedUpTo(Done(nodeId, preTaskQueue, taskQueue, task), PlaceIsHeld(taskQueue, task))'
    BY <1>e, <2>1, <2>3, <2>4, <2>7 DEF LaunchedUpTo
  <2> QED
    BY <1>e, <2>1, <2>4, <2>8 DEF InOrder
<1>7. Preparing'
  BY <1>e DEF Preparing, Routes
<1> QED
  BY <1>1, <1>2, <1>3, <1>4, <1>5, <1>6, <1>7

LEMMA RunFirstStep == IInv /\ RunFirstNode => IInv'
<1> SUFFICES ASSUME IInv, RunFirstNode PROVE IInv'
  OBVIOUS
<1>p. PICK ok \in BOOLEAN : ExecutePlanSync(nodeId, ok)
  BY DEF RunFirstNode
<1> USE Constants DEF IInv, Types, RunFirstNode, NextNode, modeVars
<1>0. /\ Busy /\ Busy' /\ pc = "run" /\ nodeId \in Nodes /\ nodeId \in Nat /\ round \in Nat /\ round > 0
      /\ nodeId' = nodeId + 1 /\ pc' = IF nodeId + 1 = NodeCount THEN "wait" ELSE "build"
      /\ UNCHANGED <<round, variantPack, preparedIn, runTaskFunc>>
  BY DEF Busy, CallTypes, PackTypes, Places, Nodes
<1>s. /\ PackTypes' /\ executeStatus' \in BOOLEAN
      /\ UNCHANGED <<preExecuteStatus, setupFailed>>
      /\ \A m \in Nodes : launchedIn'[m] <= variantPack'[m] /\ preparedIn'[m] <= variantPack'[m]
      /\ Failed' <=> ~StatusIsGood'
      /\ ok => /\ launchedIn' = [launchedIn EXCEPT ![nodeId] = variantPack[nodeId]]
               /\ UNCHANGED <<executeStatus, failedIn>>
      /\ ~ok => Failed' /\ UNCHANGED launchedIn
      /\ failedIn' # failedIn => ~Failed /\ failedIn' = round
  BY <1>0, <1>p, SyncFacts
<1>e. /\ preTaskQueue = <<>> /\ taskQueue = <<>> /\ task = NoTask /\ runTasks = <<>> /\ isUsePlanExecuteAsync
      /\ nodeId = 0 /\ preparedIn[0] = 0 /\ taskQueue' = <<Placeholder>> /\ executeCount' = 1
      /\ UNCHANGED <<preTaskQueue, task, runTasks, isUsePlanExecuteAsync, processTaskCount, allTaskFinish>>
  BY DEF Routes, FirstNode, PushPlaceholder, PushTask
<1>1. Types'
  <2>1. ModeTypes'
    BY DEF ModeTypes
  <2>2. CallTypes'
    BY <1>0, <1>e DEF CallTypes, Nodes
  <2>3. FlagTypes'
    BY <1>s DEF FlagTypes
  <2>4. TaskTypes'
    BY <1>e DEF TaskTypes
  <2>5. Places'
    BY <1>0 DEF Places, Busy, Nodes
  <2> QED
    BY <1>s, <2>1, <2>2, <2>3, <2>4, <2>5
<1>2. Packs'
  <2>1. \A n \in Nodes : n < nodeId' => variantPack'[n] = round'
    BY <1>0, <1>e DEF Packs, Nodes
  <2> QED
    BY <1>0, <1>e, <1>s, <2>1 DEF Packs
<1>3. Routes'
  BY <1>0, <1>e DEF Routes, HasTaskThread
<1>4. Reported'
  BY <1>0, <1>s DEF Reported, Failed, Busy
<1>5. Behind'
  <2>1. Queued(taskQueue') = {Placeholder} /\ Queued(preTaskQueue') = {} /\ nodeId' = 1
    BY <1>0, <1>e DEF Queued
  <2> QED
    BY <1>e, <2>1 DEF Behind, NoTask, Placeholder
<1>6. InOrder'
  <2> SUFFICES ASSUME Healthy', ~runTaskFunc' PROVE InOrder'
    BY DEF InOrder
  <2>1. ok /\ Healthy /\ ~runTaskFunc /\ nodeId' = 1
    BY <1>0, <1>s, <1>e DEF Healthy, Failed
  <2>2. /\ LaunchedUpTo(Done(0, <<>>, <<>>, NoTask), PlaceIsHeld(<<>>, NoTask))
        /\ Counted(Done(0, <<>>, <<>>, NoTask))
    BY <1>0, <1>e, <2>1 DEF InOrder
  <2>3. Done(0, <<>>, <<>>, NoTask) = 0 /\ ~PlaceIsHeld(<<>>, NoTask)
    BY EmptyPipe
  <2>4. LaunchedUpTo(0, FALSE) /\ Counted(0)
    BY <2>2, <2>3 DEF LaunchedUpTo
  <2>5. Counted(0)'
    BY <1>e, <2>4 DEF Counted
  <2>6. variantPack[0] = round /\ launchedIn \in [Nodes -> 0 .. round]
    BY <1>0, <1>e DEF Packs, PackTypes
  <2>7. LaunchedUpTo(0, TRUE)'
    BY <1>0, <1>e, <1>s, <2>1, <2>4, <2>6 DEF LaunchedUpTo
  <2>8. LaunchedUpTo(Done(nodeId, preTaskQueue, taskQueue, task), PlaceIsHeld(taskQueue, task))'
    BY <1>e, <2>1, <2>7, FirstPipe DEF LaunchedUpTo
  <2> QED
    BY <1>0, <1>e, <2>1, <2>5, <2>8, FirstPipe DEF InOrder
<1>7. Preparing'
  <2> SUFFICES ASSUME ~Failed', isUsePlanPreExecuteAsync', runTaskFunc' PROVE Preparing'
    BY DEF Preparing
  <2>1. ok /\ ~Failed /\ ~allTaskFinish
    BY <1>0, <1>s, <1>e DEF Preparing, Failed
  <2>2. variantPack[0] = round /\ launchedIn \in [Nodes -> 0 .. round]
    BY <1>0, <1>e DEF Packs, PackTypes
  <2>3. OnlyLaunched' /\ First' = 1
    BY <1>0, <1>s, <1>e, <2>1, <2>2 DEF OnlyLaunched, First
  <2>4. Line(nodeId', preTaskQueue', First')
    BY <1>e DEF Line
  <2>5. PreparedUpTo(nodeId - Len(preTaskQueue))'
    BY <1>0, <1>e, <2>3 DEF PreparedUpTo, Nodes
  <2>6. ~allTaskFinish' /\ Len(preTaskQueue') < nodeId' /\ 0 \notin Queued(runTasks')
    BY <1>0, <1>e, <2>1 DEF Queued
  <2> QED
    BY <1>0, <2>4, <2>5, <2>6 DEF Preparing
<1> QED
  BY <1>1, <1>2, <1>3, <1>4, <1>5, <1>6, <1>7

LEMMA ThreadStep == IInv /\ ThreadProcessTask => IInv'
<1> SUFFICES ASSUME IInv, ThreadProcessTask PROVE IInv'
  OBVIOUS
<1> USE Constants DEF IInv, Types, modeVars, callVars
<1>0. /\ task # NoTask /\ task' = NoTask /\ isUsePlanExecuteAsync /\ ~runTaskFunc /\ round > 0 /\ round \in Nat
      /\ nodeId \in Nat /\ nodeId <= NodeCount /\ processTaskCount \in -1 .. NodeCount - 1
      /\ UNCHANGED <<pc, nodeId, round, isUsePlanExecuteAsync, isUsePlanPreExecuteAsync, runTaskFunc,
                     taskQueue, preTaskQueue, runTasks, variantPack, preparedIn, executeCount>>
      /\ taskQueue \in Seq(Nodes \cup {Placeholder}) /\ preTaskQueue \in Seq(Nodes)
  BY DEF ThreadProcessTask, Routes, HasTaskThread, TaskTypes, PackTypes, CallTypes
<1>a. \/ /\ task = Placeholder /\ CountTask /\ UNCHANGED <<statusVars, launchedIn>>
      \/ /\ task # Placeholder /\ task \in Nodes
         /\ \E ok \in BOOLEAN : ExecutePlanSync(task, ok) /\ (IF ok THEN CountTask ELSE StopThread)
  BY DEF ThreadProcessTask, TaskTypes
<1>s. /\ PackTypes' /\ executeStatus' \in BOOLEAN
      /\ UNCHANGED <<preExecuteStatus, setupFailed>>
      /\ \A m \in Nodes : launchedIn'[m] <= variantPack'[m] /\ preparedIn'[m] <= variantPack'[m]
      /\ Failed' <=> ~StatusIsGood'
      /\ failedIn' # failedIn => ~Failed /\ failedIn' = round
      /\ \/ Failed' /\ StopThread
         \/ /\ CountTask /\ UNCHANGED <<executeStatus, failedIn>>
            /\ launchedIn' = IF task = Placeholder THEN launchedIn
                                                   ELSE [launchedIn EXCEPT ![task] = variantPack[task]]
  <2>1. CASE task = Placeholder
    <3>1. CountTask /\ UNCHANGED <<executeStatus, preExecuteStatus, setupFailed, failedIn, launchedIn>>
      BY <1>a, <2>1 DEF statusVars, Nodes, Placeholder
    <3>2. PackTypes'
      BY <1>0, <3>1 DEF PackTypes
    <3>3. /\ executeStatus' \in BOOLEAN
          /\ \A m \in Nodes : launchedIn'[m] <= variantPack'[m] /\ preparedIn'[m] <= variantPack'[m]
      BY <1>0, <3>1 DEF FlagTypes, Packs
    <3>4. Failed' <=> ~StatusIsGood'
      BY <3>1 DEF Reported, Failed, StatusIsGood
    <3> QED
      BY <2>1, <3>1, <3>2, <3>3, <3>4
  <2>2. CASE task # Placeholder
    <3>1. PICK ok \in BOOLEAN : ExecutePlanSync(task, ok) /\ (IF ok THEN CountTask ELSE StopThread)
      BY <1>a, <2>2
    <3>2. task \in Nodes
      BY <1>a, <2>2
    <3>3. /\ PackTypes' /\ executeStatus' \in BOOLEAN
          /\ UNCHANGED <<preExecuteStatus, setupFailed>>
          /\ \A m \in Nodes : launchedIn'[m] <= variantPack'[m] /\ preparedIn'[m] <= variantPack'[m]
          /\ Failed' <=> ~StatusIsGood'
          /\ ok => /\ launchedIn' = [launchedIn EXCEPT ![task] = variantPack[task]]
                   /\ UNCHANGED <<executeStatus, failedIn>>
          /\ ~ok => Failed' /\ UNCHANGED launchedIn
          /\ failedIn' # failedIn => ~Failed /\ failedIn' = round
      BY <1>0, <3>1, <3>2, SyncFacts
    <3> QED
      BY <2>2, <3>1, <3>3
  <2> QED
    BY <2>1, <2>2
<1>c. allTaskFinish' \in BOOLEAN /\ processTaskCount' \in -1 .. NodeCount - 1
  <2>1. CASE StopThread
    BY <2>1 DEF StopThread
  <2>2. CASE CountTask
    <3>1. CASE processTaskCount + 1 = NodeCount
      BY <1>0, <2>2, <3>1 DEF CountTask
    <3>2. CASE processTaskCount + 1 # NodeCount
      <4>1. processTaskCount' = processTaskCount + 1 /\ UNCHANGED allTaskFinish
        BY <2>2, <3>2 DEF CountTask
      <4> QED
        BY <1>0, <3>2, <4>1 DEF FlagTypes
    <3> QED
      BY <3>1, <3>2
  <2> QED
    BY <1>s, <2>1, <2>2
<1>1. Types'
  <2>1. ModeTypes'
    BY <1>0 DEF ModeTypes
  <2>2. CallTypes'
    BY <1>0 DEF CallTypes
  <2>3. FlagTypes'
    BY <1>s, <1>c DEF FlagTypes
  <2>4. TaskTypes'
    BY <1>0, <1>c DEF TaskTypes
  <2>5. Places'
    BY <1>0 DEF Places, Busy
  <2> QED
    BY <1>s, <2>1, <2>2, <2>3, <2>4, <2>5
<1>2. Packs'
  BY <1>0, <1>s DEF Packs, Busy
<1>3. Routes'
  BY <1>0 DEF Routes, HasTaskThread
<1>4. Reported'
  BY <1>0, <1>s DEF Reported, Failed, Busy
<1>5. Behind'
  <2>1. Busy' => NoTask < nodeId'
    BY <1>0 DEF NoTask
  <2> QED
    BY <1>0, <1>s, <2>1 DEF Behind, Failed, Busy
<1>6. InOrder'
  <2> SUFFICES ASSUME Healthy', ~runTaskFunc' PROVE InOrder'
    BY DEF InOrder
  <2>1. /\ CountTask /\ Healthy /\ Busy
        /\ launchedIn' = IF task = Placeholder THEN launchedIn
                                               ELSE [launchedIn EXCEPT ![task] = variantPack[task]]
    BY <1>0, <1>s DEF Healthy, Failed, InOrder
  <2>0. PICK d : d = Done(nodeId, preTaskQueue, taskQueue, task)
    OBVIOUS
  <2>2. /\ Numbered(nodeId, preTaskQueue, taskQueue, task) /\ Counted(d)
        /\ LaunchedUpTo(d, PlaceIsHeld(taskQueue, task))
    BY <1>0, <2>0, <2>1 DEF InOrder
  <2>3. /\ Numbered(nodeId, preTaskQueue, taskQueue, NoTask) /\ IsTask(task, d)
        /\ Done(nodeId, preTaskQueue, taskQueue, NoTask) = d + 1
        /\ ~PlaceIsHeld(taskQueue, NoTask)
    BY <1>0, <2>0, <2>2, Finish
  <2>4. d \in Nat /\ d + 1 <= nodeId
    <3>1. d >= 0
      BY <2>0, <2>2 DEF Numbered
    <3>2. d \in Int /\ d + 1 <= nodeId
      <4>1. Done(nodeId, preTaskQueue, taskQueue, task) \in Int
        BY <1>0, DoneFacts
      <4>2. Done(nodeId, preTaskQueue, taskQueue, NoTask) <= nodeId
        BY <1>0, DoneFacts
      <4> QED
        BY <2>0, <2>3, <4>1, <4>2
    <3> QED
      BY <3>1, <3>2
  <2>5. processTaskCount = d
    BY <1>0, <2>2, <2>4 DEF Counted
  <2>6. Counted(d + 1)'
    BY <1>0, <2>1, <2>2, <2>4, <2>5 DEF Counted, CountTask
  <2>7. \A n \in Nodes : launchedIn'[n] = round <=> n < d + 1
    <3>1. \A n \in Nodes : n < d + 1 <=> n < d \/ n = d
      BY <2>4 DEF Nodes
    <3>2. CASE task = Placeholder
      <4>1. d = 0
        BY <2>3, <2>4, <3>2 DEF IsTask, Placeholder
      <4>2. LaunchedUpTo(d, TRUE)
        BY <2>2, <3>2 DEF LaunchedUpTo, PlaceIsHeld
      <4> QED
        BY <2>1, <3>1, <3>2, <4>1, <4>2 DEF LaunchedUpTo
    <3>3. CASE task # Placeholder
      <4>1. task = d /\ task \in Nodes
        BY <1>a, <2>3, <3>3 DEF IsTask
      <4>2. ~PlaceIsHeld(taskQueue, task)
        BY <2>3, <3>3 DEF PlaceIsHeld
      <4>3. LaunchedUpTo(d, FALSE)
        BY <2>2, <4>2 DEF LaunchedUpTo
      <4>4. variantPack[task] = round /\ launchedIn \in [Nodes -> 0 .. round]
        BY <1>0, <2>1, <2>4, <4>1 DEF Packs, PackTypes
      <4> QED
        BY <2>1, <3>1, <3>3, <4>1, <4>3, <4>4 DEF LaunchedUpTo
    <3> QED
      BY <3>2, <3>3
  <2>8. LaunchedUpTo(Done(nodeId, preTaskQueue, taskQueue, task), PlaceIsHeld(taskQueue, task))'
    BY <1>0, <2>3, <2>7 DEF LaunchedUpTo
  <2> QED
    BY <1>0, <2>1, <2>3, <2>6, <2>8 DEF InOrder, Busy
<1>7. Preparing'
  BY <1>0 DEF Preparing
<1> QED
  BY <1>1, <1>2, <1>3, <1>4, <1>5, <1>6, <1>7

LEMMA PreTaskStep == IInv /\ PreTask => IInv'
<1> SUFFICES ASSUME IInv, PreTask PROVE IInv'
  OBVIOUS
<1> USE Constants DEF IInv, Types, modeVars, callVars
<1>0. /\ preTaskQueue # <<>> /\ preTaskQueue' = Tail(preTaskQueue) /\ isUsePlanPreExecuteAsync
      /\ isUsePlanExecuteAsync /\ executeCount # 0 /\ round > 0 /\ round \in Nat
      /\ nodeId \in Nat /\ nodeId <= NodeCount /\ Head(preTaskQueue) \in Nodes
      /\ UNCHANGED <<pc, nodeId, round, isUsePlanExecuteAsync, isUsePlanPreExecuteAsync, runTaskFunc,
                     variantPack, launchedIn, executeCount, task, processTaskCount>>
      /\ taskQueue \in Seq(Nodes \cup {Placeholder}) /\ preTaskQueue \in Seq(Nodes) /\ runTasks \in Seq(Nodes)
      /\ preTaskQueue' \in Seq(Nodes)
  BY DEF PreTask, Routes, HasTaskThread, TaskTypes, PackTypes, CallTypes
<1>p. PICK ok \in BOOLEAN : PreExecutePlanSync(Head(preTaskQueue), ok) /\ HandOn(Head(preTaskQueue), ok)
  BY DEF PreTask
<1>s. /\ PackTypes' /\ preExecuteStatus' \in BOOLEAN
      /\ UNCHANGED <<executeStatus, setupFailed>>
      /\ \A m \in Nodes : launchedIn'[m] <= variantPack'[m] /\ preparedIn'[m] <= variantPack'[m]
      /\ Failed' <=> ~StatusIsGood'
      /\ ok => /\ preparedIn' = [preparedIn EXCEPT ![Head(preTaskQueue)] = variantPack[Head(preTaskQueue)]]
               /\ UNCHANGED <<preExecuteStatus, failedIn>>
      /\ ~ok => Failed' /\ UNCHANGED preparedIn
      /\ failedIn' # failedIn => ~Failed /\ failedIn' = round
  BY <1>0, <1>p, PreSyncFacts
<1>a. /\ \/ ok /\ runTaskFunc /\ runTasks' = Append(runTasks, Head(preTaskQueue)) /\ UNCHANGED taskQueue
         \/ ok /\ ~runTaskFunc /\ taskQueue' = Append(taskQueue, Head(preTaskQueue)) /\ UNCHANGED runTasks
         \/ ~ok /\ UNCHANGED <<taskQueue, runTasks>>
      /\ allTaskFinish' \in BOOLEAN
  BY <1>p DEF HandOn, PushTask
<1>b. allTaskFinish' <=> allTaskFinish \/ (ok /\ runTaskFunc /\ Head(preTaskQueue) + 1 = NodeCount)
  BY <1>p DEF HandOn
<1>1. Types'
  <2>1. ModeTypes'
    BY <1>0 DEF ModeTypes
  <2>2. CallTypes'
    BY <1>0 DEF CallTypes
  <2>3. FlagTypes'
    BY <1>s, <1>a DEF FlagTypes
  <2>4. TaskTypes'
    <3>1. /\ Append(runTasks, Head(preTaskQueue)) \in Seq(Nodes)
          /\ Append(taskQueue, Head(preTaskQueue)) \in Seq(Nodes \cup {Placeholder})
      BY <1>0
    <3>2. taskQueue' \in Seq(Nodes \cup {Placeholder}) /\ runTasks' \in Seq(Nodes)
      BY <1>0, <1>a, <3>1
    <3> QED
      BY <1>0, <3>2 DEF TaskTypes
  <2>5. Places'
    BY <1>0 DEF Places, Busy
  <2> QED
    BY <1>s, <2>1, <2>2, <2>3, <2>4, <2>5
<1>2. Packs'
  <2>1. \A i \in DOMAIN preTaskQueue' : i + 1 \in DOMAIN preTaskQueue /\ preTaskQueue'[i] = preTaskQueue[i + 1]
    BY <1>0
  <2> QED
    BY <1>0, <1>s, <2>1 DEF Packs, Busy
<1>3. Routes'
  BY <1>0, <1>a DEF Routes, HasTaskThread
<1>4. Reported'
  BY <1>0, <1>s DEF Reported, Failed, Busy
<1>5. Behind'
  <2>1. /\ Queued(preTaskQueue) = Queued(preTaskQueue') \cup {Head(preTaskQueue)}
        /\ Queued(taskQueue') \subseteq Queued(taskQueue) \cup {Head(preTaskQueue)}
    <3>1. Queued(preTaskQueue) = Queued(Tail(preTaskQueue)) \cup {Head(preTaskQueue)}
      BY <1>0, QueuedTail
    <3>2. Queued(Append(taskQueue, Head(preTaskQueue))) = Queued(taskQueue) \cup {Head(preTaskQueue)}
      BY <1>0, QueuedAppend
    <3> QED
      BY <1>0, <1>a, <3>1, <3>2
  <2>2. /\ Queued(taskQueue') \cup Queued(preTaskQueue') \cup {task'}
              \subseteq Queued(taskQueue) \cup Queued(preTaskQueue) \cup {task}
    BY <1>0, <2>1
  <2> QED
    BY <1>0, <1>s, <2>2 DEF Behind, Failed, Busy
<1>6. InOrder'
  <2> SUFFICES ASSUME Healthy', ~runTaskFunc' PROVE InOrder'
    BY DEF InOrder
  <2>1. /\ ok /\ Healthy /\ Busy /\ ~runTaskFunc
        /\ taskQueue' = Append(taskQueue, Head(preTaskQueue))
        /\ (allTaskFinish' <=> allTaskFinish)
    BY <1>0, <1>s, <1>a, <1>b DEF Healthy, Failed, InOrder
  <2>0. PICK d : d = Done(nodeId, preTaskQueue, taskQueue, task)
    OBVIOUS
  <2>2. /\ Numbered(nodeId, preTaskQueue, taskQueue, task) /\ Counted(d)
        /\ LaunchedUpTo(d, PlaceIsHeld(taskQueue, task))
    BY <1>0, <2>0, <2>1 DEF InOrder
  <2>3. /\ Numbered(nodeId', preTaskQueue', taskQueue', task')
        /\ Done(nodeId', preTaskQueue', taskQueue', task') = d
        /\ PlaceIsHeld(taskQueue', task') <=> PlaceIsHeld(taskQueue, task)
    BY <1>0, <2>0, <2>1, <2>2, MoveOn
  <2>4. Counted(d)'
    BY <1>0, <2>1, <2>2 DEF Counted
  <2>5. LaunchedUpTo(d, PlaceIsHeld(taskQueue, task))'
    BY <1>0, <2>2, <2>3 DEF LaunchedUpTo
  <2> QED
    BY <1>0, <2>1, <2>3, <2>4, <2>5 DEF InOrder, Busy
<1>7. Preparing'
  <2> SUFFICES ASSUME ~Failed', isUsePlanPreExecuteAsync', runTaskFunc' PROVE Preparing'
    BY DEF Preparing
  <2>0. PICK h : h = Head(preTaskQueue)
    OBVIOUS
  <2>1. /\ ok /\ ~Failed /\ runTaskFunc /\ runTasks' = Append(runTasks, h) /\ h \in Nodes
        /\ preparedIn' = [preparedIn EXCEPT ![h] = variantPack[h]]
        /\ (allTaskFinish' <=> allTaskFinish \/ h + 1 = NodeCount)
    BY <1>0, <1>s, <1>a, <1>b, <2>0 DEF Failed
  <2>2. variantPack[h] > 0 /\ preparedIn \in [Nodes -> 0 .. round] /\ variantPack[h] \in Nat
    <3>1. 1 \in DOMAIN preTaskQueue /\ preTaskQueue[1] = h
      BY <1>0, <2>0
    <3> QED
      BY <2>1, <3>1 DEF Packs, PackTypes
  <2>3. 0 \in Queued(runTasks') => preparedIn'[0] # 0
    <3>1. Queued(runTasks') = Queued(runTasks) \cup {h}
      BY <1>0, <2>1, QueuedAppend
    <3>2. 0 \in Queued(runTasks) => preparedIn[0] # 0
      BY <1>0, <2>1 DEF Preparing
    <3> QED
      BY <2>1, <2>2, <3>1, <3>2
  <2>4. CASE ~Busy
    <3>1. NotLast(preTaskQueue')
      BY <1>0, <2>1, <2>4, NotLastPop DEF Preparing
    <3> QED
      BY <1>0, <2>3, <2>4, <3>1 DEF Preparing, Busy
  <2>5. CASE Busy
    <3>0. /\ Len(preTaskQueue) \in Nat /\ Len(preTaskQueue) > 0 /\ Len(preTaskQueue') = Len(preTaskQueue) - 1
      BY <1>0
    <3>1. /\ Line(nodeId, preTaskQueue, First) /\ PreparedUpTo(nodeId - Len(preTaskQueue))
          /\ OnlyLaunched => Len(preTaskQueue) < nodeId
          /\ ~allTaskFinish /\ First \in {0, 1}
      BY <1>0, <2>1, <2>5 DEF Preparing, First
    <3>2. /\ Line(nodeId, preTaskQueue', First)
          /\ IF nodeId - Len(preTaskQueue) >= First THEN h = nodeId - Len(preTaskQueue) ELSE h < NodeCount - 1
      BY <1>0, <2>0, <3>1, LinePop
    <3>3. (OnlyLaunched' <=> OnlyLaunched) /\ First' = First
      <4>1. CASE OnlyLaunched
        <5>1. h # 0
          BY <1>0, <3>0, <3>1, <3>2, <4>1 DEF First
        <5> QED
          BY <1>0, <2>1, <2>2, <4>1, <5>1 DEF OnlyLaunched, First
      <4>2. CASE ~OnlyLaunched
        <5>1. preparedIn'[0] = 0 => preparedIn[0] = 0
          BY <2>1, <2>2
        <5> QED
          BY <1>0, <4>2, <5>1 DEF OnlyLaunched, First
      <4> QED
        BY <4>1, <4>2
    <3>4. PreparedUpTo(nodeId - Len(preTaskQueue))'
      <4>1. nodeId' - Len(preTaskQueue') = nodeId - Len(preTaskQueue) + 1
        BY <1>0, <3>0
      <4>2. ASSUME NEW n \in Nodes, First <= n, n < nodeId - Len(preTaskQueue) + 1
            PROVE  preparedIn'[n] = round
        <5>0. n \in Nat /\ nodeId - Len(preTaskQueue) \in Int
          BY <1>0, <3>0 DEF Nodes
        <5>1. n < nodeId - Len(preTaskQueue) \/ n = nodeId - Len(preTaskQueue)
          BY <4>2, <5>0
        <5>2. CASE n = nodeId - Len(preTaskQueue)
          <6>1. n = h /\ n < nodeId
            BY <1>0, <3>0, <3>1, <3>2, <4>2, <5>2
          <6> QED
            BY <1>0, <2>1, <2>2, <2>5, <6>1 DEF Packs
        <5>3. CASE n < nodeId - Len(preTaskQueue)
          <6>1. preparedIn[n] = round
            BY <3>1, <4>2, <5>3 DEF PreparedUpTo
          <6>2. nodeId - Len(preTaskQueue) >= First
            BY <3>1, <4>2, <5>0, <5>3
          <6>3. h # n
            BY <1>0, <3>0, <3>2, <5>3, <6>2
          <6> QED
            BY <2>1, <2>2, <6>1, <6>3
        <5> QED
          BY <5>1, <5>2, <5>3
      <4> QED
        BY <1>0, <3>3, <4>1, <4>2 DEF PreparedUpTo
    <3>5. OnlyLaunched' => Len(preTaskQueue') < nodeId'
      BY <1>0, <3>0, <3>1, <3>3
    <3>6. allTaskFinish' => nodeId' = NodeCount /\ preTaskQueue' = <<>>
      <4>0. Len(preTaskQueue) = 1 => preTaskQueue' = <<>>
        BY <1>0
      <4> SUFFICES ASSUME allTaskFinish' PROVE nodeId = NodeCount /\ Len(preTaskQueue) = 1
        BY <1>0, <4>0
      <4>1. h + 1 = NodeCount
        BY <2>1, <3>1
      <4>2. h = nodeId - Len(preTaskQueue)
        BY <1>0, <2>1, <3>2, <4>1 DEF Nodes
      <4> QED
        BY <1>0, <3>0, <4>1, <4>2
    <3> QED
      BY <1>0, <2>3, <2>5, <3>2, <3>3, <3>4, <3>5, <3>6 DEF Preparing, Busy
  <2> QED
    BY <2>4, <2>5
<1> QED
  BY <1>1, <1>2, <1>3, <1>4, <1>5, <1>6, <1>7

LEMMA RunTaskStep == IInv /\ RunTask => IInv'
<1> SUFFICES ASSUME IInv, RunTask PROVE IInv'
  OBVIOUS
<1> USE Constants DEF IInv, Types, modeVars, callVars, taskVars
<1>0. /\ runTasks # <<>> /\ runTasks' = Tail(runTasks) /\ isUsePlanExecuteAsync /\ runTaskFunc
      /\ round > 0 /\ round \in Nat /\ Head(runTasks) \in Nodes /\ runTasks \in Seq(Nodes) /\ runTasks' \in Seq(Nodes)
      /\ UNCHANGED <<pc, nodeId, round, isUsePlanExecuteAsync, isUsePlanPreExecuteAsync, runTaskFunc, allTaskFinish,
                     variantPack, preparedIn, executeCount, task, processTaskCount, taskQueue, preTaskQueue>>
  BY DEF RunTask, Routes, TaskTypes, PackTypes
<1>p. PICK ok \in BOOLEAN : ExecutePlanSync(Head(runTasks), ok)
  BY DEF RunTask
<1>s. /\ PackTypes' /\ executeStatus' \in BOOLEAN
      /\ UNCHANGED <<preExecuteStatus, setupFailed>>
      /\ \A m \in Nodes : launchedIn'[m] <= variantPack'[m] /\ preparedIn'[m] <= variantPack'[m]
      /\ Failed' <=> ~StatusIsGood'
      /\ ok => /\ launchedIn' = [launchedIn EXCEPT ![Head(runTasks)] = variantPack[Head(runTasks)]]
               /\ UNCHANGED <<executeStatus, failedIn>>
      /\ ~ok => Failed' /\ UNCHANGED launchedIn
      /\ failedIn' # failedIn => ~Failed /\ failedIn' = round
  BY <1>0, <1>p, SyncFacts
<1>1. Types'
  <2>1. ModeTypes'
    BY <1>0 DEF ModeTypes
  <2>2. CallTypes'
    BY <1>0 DEF CallTypes
  <2>3. FlagTypes'
    BY <1>0, <1>s DEF FlagTypes
  <2>4. TaskTypes'
    BY <1>0 DEF TaskTypes
  <2>5. Places'
    BY <1>0 DEF Places, Busy
  <2> QED
    BY <1>s, <2>1, <2>2, <2>3, <2>4, <2>5
<1>2. Packs'
  BY <1>0, <1>s DEF Packs, Busy
<1>3. Routes'
  BY <1>0 DEF Routes, HasTaskThread
<1>4. Reported'
  BY <1>0, <1>s DEF Reported, Failed, Busy
<1>5. Behind' /\ InOrder'
  BY <1>0 DEF Behind, InOrder
<1>6. Preparing'
  <2> SUFFICES ASSUME ~Failed', isUsePlanPreExecuteAsync' PROVE Preparing'
    BY DEF Preparing
  <2>1. /\ ok /\ ~Failed /\ isUsePlanPreExecuteAsync
        /\ launchedIn' = [launchedIn EXCEPT ![Head(runTasks)] = variantPack[Head(runTasks)]]
    BY <1>0, <1>s DEF Failed
  <2>2. Queued(runTasks) = Queued(runTasks') \cup {Head(runTasks)}
    BY <1>0, QueuedTail
  <2>3. 0 \in Queued(runTasks) => preparedIn[0] # 0
    BY <1>0, <2>1 DEF Preparing
  <2>4. Head(runTasks) # 0 => launchedIn'[0] = launchedIn[0]
    BY <1>0, <2>1 DEF PackTypes
  <2>5. (OnlyLaunched' <=> OnlyLaunched) /\ First' = First
    BY <1>0, <2>2, <2>3, <2>4 DEF OnlyLaunched, First
  <2> QED
    BY <1>0, <2>1, <2>2, <2>5 DEF Preparing, Busy, PreparedUpTo
<1> QED
  BY <1>1, <1>2, <1>3, <1>4, <1>5, <1>6

LEMMA Step == IInv /\ [Next]_vars => IInv'
<1> SUFFICES ASSUME IInv, [Next]_vars PROVE IInv'
  OBVIOUS
<1>1. CASE Caller
  BY <1>1, StartStep, BuildStep, CheckStep, SetupFailStep, RunNodeStep, RunFirstStep, PlanAsyncStep, WaitStep
     DEF Caller
<1>2. CASE TaskThread
  BY <1>2, PopStep, ThreadStep DEF TaskThread
<1>3. CASE PreTask \/ RunTask
  BY <1>3, PreTaskStep, RunTaskStep
<1>4. CASE UNCHANGED vars
  <2> USE <1>4 DEF vars, modeVars, callVars, taskVars, statusVars, IInv, Types
  <2>1. ModeTypes' /\ CallTypes'
    BY DEF ModeTypes, CallTypes
  <2>2. FlagTypes'
    BY DEF FlagTypes
  <2>3. TaskTypes' /\ PackTypes' /\ Places'
    BY DEF TaskTypes, PackTypes, Places, Busy
  <2>4. Packs' /\ Routes' /\ Reported'
    BY DEF Packs, Routes, HasTaskThread, Reported, Failed, StatusIsGood, Busy
  <2>5. Behind' /\ InOrder'
    BY DEF Behind, InOrder, Healthy, Failed, Busy, Counted, LaunchedUpTo
  <2>6. Preparing'
    BY DEF Preparing, Failed, Busy, PreparedUpTo, First, OnlyLaunched
  <2> QED
    BY <2>1, <2>2, <2>3, <2>4, <2>5, <2>6
<1> QED
  BY <1>1, <1>2, <1>3, <1>4 DEF Next

LEMMA Invariance == Spec => []IInv
BY InitHolds, Step, PTL DEF Spec
-----------------------------------------------------------------------------
LEMMA TypesHold == IInv => TypeOK
BY DEF IInv, Types, TypeOK, ModeTypes, CallTypes, FlagTypes, TaskTypes, PackTypes

\* The fields of the model keep their types, whatever fails and whoever runs the nodes.
THEOREM TypeCorrect == Spec => []TypeOK
BY Invariance, TypesHold, PTL

\* Only BuildNodeVariantPack changes packs, that of the node the caller is at.
LEMMA PackStep ==
  IInv /\ [Next]_vars =>
    \A n \in Nodes :
       /\ variantPack'[n] # variantPack[n]
       /\ ~runTaskFunc /\ ~setupFailed
       /\ ~(Failed /\ n = 0)
       => n \notin Queued(taskQueue) \cup Queued(preTaskQueue) \cup {task}
<1> SUFFICES ASSUME IInv, [Next]_vars, NEW n \in Nodes, variantPack'[n] # variantPack[n],
                    ~runTaskFunc, ~setupFailed, ~(Failed /\ n = 0)
             PROVE  n \notin Queued(taskQueue) \cup Queued(preTaskQueue) \cup {task}
  OBVIOUS
<1>1. BuildNodeVariantPack
  BY DEF Next, Caller, TaskThread, vars, ExecuteStart, CheckStatus, SetupFail, RunNode, RunFirstNode,
         ExecutePlanAsync, WaitAsyncPlanExecuteFinish, PopTask, ThreadProcessTask, PreTask, RunTask
<1>2. n = nodeId /\ Busy /\ nodeId \in Nat
  BY <1>1 DEF BuildNodeVariantPack, Busy, IInv, Types, CallTypes, PackTypes, Nodes
<1>3. Failed => failedIn = round
  BY <1>2 DEF IInv, Reported
<1>4. \A x \in Queued(taskQueue) \cup Queued(preTaskQueue) \cup {task} : x < nodeId
  BY <1>2, <1>3 DEF IInv, Behind
<1> QED
  BY <1>2, <1>4

\* Without a RunTaskFunc Execute does not rebuild the pack of a node that another thread still
\* has to read (BuildNodeVariantPack), but for the leftovers of a failure.
THEOREM PacksAreKept == Spec => PackIsNotInUse
BY Invariance, PackStep, PTL DEF Spec, PackIsNotInUse

LEMMA ReportStep == IInv => (Returns /\ Failed => failedIn = round)
BY DEF IInv, Reported, Returns, Busy

\* After a failure Execute returns normally from the call it fell into at most; every
\* later call throws in ExecuteNode.
THEOREM FailuresAreReported == Spec => FailureIsReported
BY Invariance, ReportStep, PTL DEF FailureIsReported

LEMMA ReturnStep ==
  IInv /\ [Next]_vars =>
    (Returns /\ ~Failed /\ isUsePlanPreExecuteAsync /\ runTaskFunc =>
       /\ preTaskQueue = <<>>
       /\ \A n \in Nodes :
            \/ preparedIn[n] = round
            \/ n = 0 /\ preparedIn[0] = 0 /\ launchedIn[0] = round)
<1> SUFFICES ASSUME IInv, [Next]_vars, Returns, ~Failed, isUsePlanPreExecuteAsync, runTaskFunc
             PROVE  /\ preTaskQueue = <<>>
                    /\ \A n \in Nodes :
                         \/ preparedIn[n] = round
                         \/ n = 0 /\ preparedIn[0] = 0 /\ launchedIn[0] = round
  OBVIOUS
<1>1. WaitAsyncPlanExecuteFinish
  BY DEF Next, Caller, TaskThread, vars, callVars, Returns, ExecuteStart, BuildNodeVariantPack, CheckStatus,
         SetupFail, RunNode, RunFirstNode, ExecutePlanAsync, PopTask, ThreadProcessTask, PreTask, RunTask
<1>2. allTaskFinish /\ Busy
  BY <1>1 DEF WaitAsyncPlanExecuteFinish, Waits, IInv, Routes, Busy
<1>3. nodeId = NodeCount /\ preTaskQueue = <<>> /\ PreparedUpTo(nodeId - Len(preTaskQueue))
  BY <1>2 DEF IInv, Preparing
<1>4. PreparedUpTo(NodeCount)
  BY <1>3, Constants
<1>5. ASSUME NEW n \in Nodes PROVE preparedIn[n] = round \/ (n = 0 /\ OnlyLaunched)
  BY <1>4, Constants DEF PreparedUpTo, First, Nodes
<1> QED
  BY <1>3, <1>5 DEF OnlyLaunched

\* With a RunTaskFunc and pre-execution Execute returns when every node is prepared for this call.
THEOREM PreparedOnReturn == Spec => ReturnsPrepared
BY Invariance, ReturnStep, PTL DEF Spec, ReturnsPrepared
-----------------------------------------------------------------------------
(* OrderedRun, seen through the refinement mapping of ModelExecute.        *)

InCall == pc # "idle" /\ ~runTaskFunc
LaunchedNow == {n \in Nodes : ~runTaskFunc /\ round > 0 /\ launchedIn[n] = round}
Broken == ~runTaskFunc /\ (Failed \/ setupFailed)
Stutter == (InCall' <=> InCall) /\ LaunchedNow' = LaunchedNow /\ (Broken' <=> Broken)

LEMMA Mapping ==
  /\ Promise!Init <=> ~InCall /\ LaunchedNow = {} /\ ~Broken
  /\ Promise!Nodes = Nodes
  /\ Promise!Call <=> ~InCall /\ InCall' /\ LaunchedNow' = {} /\ (Broken' <=> Broken)
  /\ Promise!Launch <=>
       /\ \E n \in Nodes :
            /\ (InCall /\ LaunchedNow = 0 .. n - 1) \/ Broken
            /\ LaunchedNow' = LaunchedNow \cup {n}
       /\ (InCall' <=> InCall) /\ (Broken' <=> Broken)
  /\ Promise!Return <=>
       /\ InCall /\ (LaunchedNow = Nodes \/ Broken) /\ ~InCall'
       /\ LaunchedNow' = LaunchedNow /\ (Broken' <=> Broken)
  /\ Promise!Break <=> Broken' /\ (InCall' => InCall) /\ LaunchedNow' = LaunchedNow
<1>1. Promise!Init <=> ~InCall /\ LaunchedNow = {} /\ ~Broken
  BY DEF Promise!Init, InCall, LaunchedNow, Broken
<1>2. Promise!Nodes = Nodes
  BY DEF Promise!Nodes, Nodes
<1>3. Promise!Call <=> ~InCall /\ InCall' /\ LaunchedNow' = {} /\ (Broken' <=> Broken)
  BY DEF Promise!Call, InCall, LaunchedNow, Broken
<1>4. Promise!Launch <=>
       /\ \E n \in Nodes :
            /\ (InCall /\ LaunchedNow = 0 .. n - 1) \/ Broken
            /\ LaunchedNow' = LaunchedNow \cup {n}
       /\ (InCall' <=> InCall) /\ (Broken' <=> Broken)
  BY <1>2 DEF Promise!Launch, InCall, LaunchedNow, Broken
<1>5. Promise!Return <=>
       /\ InCall /\ (LaunchedNow = Nodes \/ Broken) /\ ~InCall'
       /\ LaunchedNow' = LaunchedNow /\ (Broken' <=> Broken)
  BY <1>2 DEF Promise!Return, InCall, LaunchedNow, Broken
<1>6. Promise!Break <=> Broken' /\ (InCall' => InCall) /\ LaunchedNow' = LaunchedNow
  BY DEF Promise!Break, InCall, LaunchedNow, Broken
<1> QED
  BY <1>1, <1>2, <1>3, <1>4, <1>5, <1>6

\* A node that is launched is the next one, or something is broken.
LEMMA LaunchStep ==
  ASSUME IInv, ~runTaskFunc, UNCHANGED <<runTaskFunc, round, failedIn, setupFailed>>, pc' = "idle" <=> pc = "idle",
         NEW n \in Nodes, launchedIn' = [launchedIn EXCEPT ![n] = variantPack[n]], round > 0,
         Healthy => Busy /\ variantPack[n] = round /\ LaunchedUpTo(n, FALSE)
  PROVE  Promise!Launch \/ Stutter
<1> USE DEF IInv, Types
<1>0. /\ launchedIn \in [Nodes -> 0 .. round] /\ variantPack \in [Nodes -> 0 .. round] /\ round \in Nat
      /\ launchedIn[n] <= variantPack[n]
  BY DEF PackTypes, Packs
<1>1. (InCall' <=> InCall) /\ (Broken' <=> Broken)
  BY DEF InCall, Broken, Failed
<1>2. CASE variantPack[n] # round
  <2>1. launchedIn[n] # round
    BY <1>0, <1>2
  <2>2. \A m \in Nodes : launchedIn'[m] = round' <=> launchedIn[m] = round
    BY <1>0, <1>2, <2>1
  <2> QED
    BY <1>1, <2>2 DEF Stutter, LaunchedNow
<1>3. CASE variantPack[n] = round
  <2>1. \A m \in Nodes : launchedIn'[m] = round' <=> launchedIn[m] = round \/ m = n
    BY <1>0, <1>3
  <2>2. LaunchedNow' = LaunchedNow \cup {n}
    BY <2>1 DEF LaunchedNow
  <2>3. Healthy => LaunchedNow = 0 .. n - 1
    <3> SUFFICES ASSUME Healthy PROVE LaunchedNow = 0 .. n - 1
      OBVIOUS
    <3>1. \A m \in Nodes : launchedIn[m] = round <=> m < n
      BY Constants DEF LaunchedUpTo, Nodes
    <3>2. \A m : m \in 0 .. n - 1 <=> m \in Nodes /\ m < n
      BY Constants DEF Nodes
    <3> QED
      BY <3>1, <3>2 DEF LaunchedNow
  <2>4. (InCall /\ LaunchedNow = 0 .. n - 1) \/ Broken
    BY <2>3 DEF InCall, Broken, Healthy, Busy
  <2> QED
    BY <1>1, <2>2, <2>4, Mapping
<1> QED
  BY <1>2, <1>3

LEMMA ModesKept == [Next]_vars => UNCHANGED <<isUsePlanExecuteAsync, isUsePlanPreExecuteAsync, runTaskFunc>>
BY DEF Next, Caller, TaskThread, vars, modeVars, ExecuteStart, BuildNodeVariantPack, CheckStatus, SetupFail, RunNode,
       RunFirstNode, ExecutePlanAsync, WaitAsyncPlanExecuteFinish, PopTask, ThreadProcessTask, PreTask, RunTask

LEMMA PromiseCallerStep ==
  ASSUME IInv, Caller, ~runTaskFunc, UNCHANGED runTaskFunc
  PROVE  Promise!Next \/ Stutter
<1> USE DEF IInv, Types
<1>1. CASE ExecuteStart
  <2>1. LaunchedNow' = {}
    BY <1>1 DEF ExecuteStart, LaunchedNow, PackTypes
  <2>2. ~InCall /\ InCall' /\ (Broken' <=> Broken)
    BY <1>1 DEF ExecuteStart, InCall, Broken, Failed, statusVars
  <2> QED
    BY <2>1, <2>2, Mapping DEF Promise!Next
<1>2. CASE BuildNodeVariantPack
  BY <1>2 DEF BuildNodeVariantPack, Stutter, InCall, LaunchedNow, Broken, Failed, statusVars
<1>3. CASE CheckStatus
  <2>1. LaunchedNow' = LaunchedNow /\ (Broken' <=> Broken) /\ InCall
    BY <1>3 DEF CheckStatus, Leave, InCall, LaunchedNow, Broken, Failed, statusVars
  <2>2. CASE StatusIsGood
    <3>1. InCall'
      BY <1>3, <2>2 DEF CheckStatus, InCall
    <3> QED
      BY <2>1, <3>1 DEF Stutter
  <2>3. CASE ~StatusIsGood
    <3>1. ~InCall' /\ Broken
      BY <1>3, <2>3 DEF CheckStatus, Leave, InCall, Broken, Reported
    <3> QED
      BY <2>1, <3>1, Mapping DEF Promise!Next
  <2> QED
    BY <2>2, <2>3
<1>4. CASE SetupFail
  <2>1. Broken' /\ ~InCall' /\ LaunchedNow' = LaunchedNow
    BY <1>4 DEF SetupFail, Leave, InCall, LaunchedNow, Broken
  <2> QED
    BY <2>1, Mapping DEF Promise!Next
<1>5. CASE RunNode
  <2>1. PICK ok \in BOOLEAN : ExecutePlanSync(nodeId, ok) /\ (IF ok THEN NextNode ELSE Leave)
    BY <1>5 DEF RunNode
  <2>2. /\ nodeId \in Nodes /\ nodeId \in Nat /\ round > 0 /\ Busy /\ pc = "run"
        /\ UNCHANGED <<round, variantPack, preparedIn>>
    BY <1>5, <2>1, Constants DEF RunNode, NextNode, Leave, Busy, CallTypes, Places, Nodes
  <2>3. CASE ok
    <3>1. /\ launchedIn' = [launchedIn EXCEPT ![nodeId] = variantPack[nodeId]] /\ UNCHANGED <<failedIn, setupFailed>>
      BY <2>1, <2>3 DEF ExecutePlanSync
    <3>2. pc' # "idle" /\ pc # "idle"
      BY <1>5, <2>1, <2>3 DEF RunNode, NextNode
    <3>3. Healthy => LaunchedUpTo(nodeId, FALSE)
      <4> SUFFICES ASSUME Healthy PROVE LaunchedUpTo(nodeId, FALSE)
        OBVIOUS
      <4>1. preTaskQueue = <<>> /\ taskQueue = <<>> /\ task = NoTask
        BY <1>5 DEF RunNode, Routes, HasTaskThread
      <4>2. LaunchedUpTo(Done(nodeId, <<>>, <<>>, NoTask), PlaceIsHeld(<<>>, NoTask))
        BY <2>2, <4>1 DEF InOrder
      <4>3. Done(nodeId, <<>>, <<>>, NoTask) = nodeId /\ ~PlaceIsHeld(<<>>, NoTask)
        BY <2>2, EmptyPipe
      <4> QED
        BY <4>2, <4>3 DEF LaunchedUpTo
    <3>4. variantPack[nodeId] = round
      BY <2>2 DEF Packs
    <3>5. Promise!Launch \/ Stutter
      BY <2>2, <3>1, <3>2, <3>3, <3>4, LaunchStep
    <3> QED
      BY <3>5 DEF Promise!Next
  <2>4. CASE ~ok
    <3>1. Failed' /\ UNCHANGED launchedIn /\ pc' = "idle"
      BY <2>1, <2>2, <2>4, SyncFacts DEF Leave
    <3>2. Broken' /\ ~InCall' /\ LaunchedNow' = LaunchedNow
      BY <2>2, <3>1 DEF InCall, LaunchedNow, Broken
    <3> QED
      BY <3>2, Mapping DEF Promise!Next
  <2> QED
    BY <2>3, <2>4
<1>6. CASE RunFirstNode
  <2>1. PICK ok \in BOOLEAN : ExecutePlanSync(nodeId, ok)
    BY <1>6 DEF RunFirstNode
  <2>2. /\ nodeId = 0 /\ nodeId \in Nodes /\ round > 0 /\ Busy /\ pc = "run" /\ pc' # "idle" /\ pc # "idle"
        /\ UNCHANGED <<round, variantPack, preparedIn>>
    BY <1>6, Constants DEF RunFirstNode, FirstNode, Routes, NextNode, Busy, Places
  <2>3. CASE ok
    <3>1. /\ launchedIn' = [launchedIn EXCEPT ![nodeId] = variantPack[nodeId]] /\ UNCHANGED <<failedIn, setupFailed>>
      BY <2>1, <2>3 DEF ExecutePlanSync
    <3>3. Healthy => LaunchedUpTo(nodeId, FALSE)
      <4> SUFFICES ASSUME Healthy PROVE LaunchedUpTo(nodeId, FALSE)
        OBVIOUS
      <4>1. preTaskQueue = <<>> /\ taskQueue = <<>> /\ task = NoTask
        BY <1>6 DEF RunFirstNode, FirstNode, Routes
      <4>2. LaunchedUpTo(Done(0, <<>>, <<>>, NoTask), PlaceIsHeld(<<>>, NoTask))
        BY <2>2, <4>1 DEF InOrder
      <4>3. Done(0, <<>>, <<>>, NoTask) = 0 /\ ~PlaceIsHeld(<<>>, NoTask)
        BY EmptyPipe
      <4> QED
        BY <2>2, <4>2, <4>3 DEF LaunchedUpTo
    <3>4. variantPack[nodeId] = round
      BY <2>2 DEF Packs
    <3>5. Promise!Launch \/ Stutter
      BY <2>2, <3>1, <3>3, <3>4, LaunchStep
    <3> QED
      BY <3>5 DEF Promise!Next
  <2>4. CASE ~ok
    <3>1. Failed' /\ UNCHANGED launchedIn
      BY <2>1, <2>2, <2>4, SyncFacts
    <3>2. Broken' /\ InCall /\ LaunchedNow' = LaunchedNow
      BY <2>2, <3>1 DEF InCall, LaunchedNow, Broken
    <3> QED
      BY <3>2, Mapping DEF Promise!Next
  <2> QED
    BY <2>3, <2>4
<1>7. CASE ExecutePlanAsync
  BY <1>7 DEF ExecutePlanAsync, NextNode, Stutter, InCall, LaunchedNow, Broken, Failed, statusVars
<1>8. CASE WaitAsyncPlanExecuteFinish
  <2>1. InCall /\ ~InCall' /\ LaunchedNow' = LaunchedNow /\ (Broken' <=> Broken)
    BY <1>8 DEF WaitAsyncPlanExecuteFinish, Leave, InCall, LaunchedNow, Broken, Failed, statusVars
  <2>2. ASSUME ~Broken PROVE LaunchedNow = Nodes
    <3>0. /\ Healthy /\ Busy /\ nodeId = NodeCount /\ nodeId \in Nat /\ round > 0
          /\ taskQueue \in Seq(Nodes \cup {Placeholder}) /\ preTaskQueue \in Seq(Nodes)
      BY <1>8, <2>2, Constants DEF WaitAsyncPlanExecuteFinish, Broken, Healthy, Busy, Places, TaskTypes
    <3>1. Done(nodeId, preTaskQueue, taskQueue, task) = NodeCount
      <4>1. CASE isUsePlanExecuteAsync
        BY <1>8, <3>0, <4>1 DEF WaitAsyncPlanExecuteFinish, Waits, InOrder, Counted
      <4>2. CASE ~isUsePlanExecuteAsync
        <5>1. preTaskQueue = <<>> /\ taskQueue = <<>> /\ task = NoTask
          BY <4>2 DEF Routes, HasTaskThread
        <5> QED
          BY <3>0, <5>1, EmptyPipe
      <4> QED
        BY <4>1, <4>2
    <3>2. LaunchedUpTo(NodeCount, PlaceIsHeld(taskQueue, task))
      BY <3>0, <3>1 DEF InOrder
    <3>3. \A n \in Nodes : n < NodeCount
      BY Constants DEF Nodes
    <3> QED
      BY <3>0, <3>2, <3>3 DEF LaunchedUpTo, LaunchedNow
  <2> QED
    BY <2>1, <2>2, Mapping DEF Promise!Next
<1> QED
  BY <1>1, <1>2, <1>3, <1>4, <1>5, <1>6, <1>7, <1>8 DEF Caller

LEMMA PromiseThreadStep ==
  ASSUME IInv, TaskThread \/ PreTask \/ RunTask, ~runTaskFunc, UNCHANGED runTaskFunc
  PROVE  Promise!Next \/ Stutter
<1> USE DEF IInv, Types
<1>1. CASE PopTask
  BY <1>1 DEF PopTask, callVars, Stutter, InCall, LaunchedNow, Broken, Failed, statusVars
<1>2. CASE ThreadProcessTask
  <2>1. UNCHANGED <<pc, nodeId, round, variantPack, preparedIn>> /\ round > 0 /\ task # NoTask
    BY <1>2 DEF ThreadProcessTask, callVars, Routes, PackTypes
  <2>2. CASE task = Placeholder
    <3>1. UNCHANGED <<failedIn, setupFailed, launchedIn>>
      BY <1>2, <2>2 DEF ThreadProcessTask, statusVars
    <3> QED
      BY <2>1, <3>1 DEF Stutter, InCall, LaunchedNow, Broken, Failed
  <2>3. CASE task # Placeholder
    <3>1. PICK ok \in BOOLEAN : ExecutePlanSync(task, ok)
      BY <1>2, <2>3 DEF ThreadProcessTask
    <3>2. task \in Nodes
      BY <2>1, <2>3 DEF TaskTypes
    <3>3. CASE ok
      <4>1. /\ launchedIn' = [launchedIn EXCEPT ![task] = variantPack[task]] /\ UNCHANGED <<failedIn, setupFailed>>
        BY <3>1, <3>3 DEF ExecutePlanSync
      <4>2. Healthy => Busy /\ variantPack[task] = round /\ LaunchedUpTo(task, FALSE)
        <5> SUFFICES ASSUME Healthy PROVE Busy /\ variantPack[task] = round /\ LaunchedUpTo(task, FALSE)
          OBVIOUS
        <5>0. PICK d : d = Done(nodeId, preTaskQueue, taskQueue, task)
          OBVIOUS
        <5>1. /\ Busy /\ Numbered(nodeId, preTaskQueue, taskQueue, task)
              /\ LaunchedUpTo(d, PlaceIsHeld(taskQueue, task))
          BY <2>1, <5>0 DEF InOrder
        <5>2. /\ nodeId \in Nat /\ taskQueue \in Seq(Nodes \cup {Placeholder}) /\ preTaskQueue \in Seq(Nodes)
          BY Constants DEF CallTypes, TaskTypes
        <5>3. IsTask(task, d) /\ ~PlaceIsHeld(taskQueue, NoTask)
              /\ Done(nodeId, preTaskQueue, taskQueue, NoTask) = d + 1
          BY <2>1, <5>0, <5>1, <5>2, Finish
        <5>4. task = d /\ ~PlaceIsHeld(taskQueue, task)
          BY <2>3, <5>3 DEF IsTask, PlaceIsHeld
        <5>5. d < nodeId
          <6>1. Done(nodeId, preTaskQueue, taskQueue, NoTask) <= nodeId
            BY <5>2, DoneFacts
          <6> QED
            BY <3>2, <5>2, <5>3, <5>4, <6>1, Constants DEF Nodes
        <5> QED
          BY <3>2, <5>1, <5>4, <5>5 DEF LaunchedUpTo, Packs
      <4>3. Promise!Launch \/ Stutter
        BY <2>1, <3>2, <4>1, <4>2, LaunchStep
      <4> QED
        BY <4>3 DEF Promise!Next
    <3>4. CASE ~ok
      <4>1. Failed' /\ UNCHANGED launchedIn
        BY <2>1, <3>1, <3>2, <3>4, SyncFacts
      <4>2. Broken' /\ (InCall' => InCall) /\ LaunchedNow' = LaunchedNow
        BY <2>1, <4>1 DEF InCall, LaunchedNow, Broken
      <4> QED
        BY <4>2, Mapping DEF Promise!Next
    <3> QED
      BY <3>3, <3>4
  <2> QED
    BY <2>2, <2>3
<1>3. CASE PreTask
  <2>1. PICK ok \in BOOLEAN : PreExecutePlanSync(Head(preTaskQueue), ok)
    BY <1>3 DEF PreTask
  <2>2. /\ UNCHANGED <<pc, nodeId, round, variantPack, launchedIn>> /\ round > 0 /\ Head(preTaskQueue) \in Nodes
    BY <1>3 DEF PreTask, callVars, Routes, PackTypes, TaskTypes
  <2>3. /\ UNCHANGED setupFailed /\ (~ok => Failed') /\ (ok => UNCHANGED failedIn)
    BY <2>1, <2>2, PreSyncFacts
  <2>4. (InCall' <=> InCall) /\ LaunchedNow' = LaunchedNow
    BY <2>2 DEF InCall, LaunchedNow
  <2>5. (Broken' <=> Broken) \/ Broken'
    BY <2>3 DEF Broken, Failed
  <2> QED
    BY <2>4, <2>5, Mapping DEF Promise!Next, Stutter
<1>4. ~RunTask
  BY DEF RunTask, Routes
<1> QED
  BY <1>1, <1>2, <1>3, <1>4 DEF TaskThread

LEMMA PromiseStep ==
  IInv /\ [Next]_vars => [Promise!Next]_<<pc # "idle" /\ ~runTaskFunc,
     {n \in Nodes : ~runTaskFunc /\ round > 0 /\ launchedIn[n] = round}, ~runTaskFunc /\ (Failed \/ setupFailed)>>
<1> SUFFICES ASSUME IInv, [Next]_vars PROVE Promise!Next \/ Stutter
  BY DEF Stutter, InCall, LaunchedNow, Broken
<1>1. UNCHANGED runTaskFunc
  BY ModesKept
<1>2. CASE runTaskFunc
  BY <1>1, <1>2 DEF Stutter, InCall, LaunchedNow, Broken
<1>3. CASE ~runTaskFunc /\ Next
  BY <1>1, <1>3, PromiseCallerStep, PromiseThreadStep DEF Next
<1>4. CASE UNCHANGED vars
  <2>1. UNCHANGED <<pc, round, launchedIn, runTaskFunc, failedIn, setupFailed>>
    BY <1>4 DEF vars, modeVars, callVars, statusVars
  <2>2. (InCall' <=> InCall) /\ LaunchedNow' = LaunchedNow
    BY <2>1 DEF InCall, LaunchedNow
  <2>3. Broken' <=> Broken
    BY <2>1 DEF Broken, Failed
  <2> QED
    BY <2>2, <2>3 DEF Stutter
<1> QED
  BY <1>2, <1>3, <1>4

\* Without a RunTaskFunc a call of Execute launches each node once, in the order of the graph and
\* with the call's packs, before it returns, whatever threads it has: the model implements
\* OrderedRun.
THEOREM KeepsPromise == Spec => ImplementsOrderedRun
<1>1. Init => Promise!Init
  BY Mapping DEF Init, InCall, LaunchedNow, Broken, Failed
<1> QED
  BY <1>1, Invariance, PromiseStep, PTL DEF Spec, ImplementsOrderedRun, Promise!Spec

-----------------------------------------------------------------------------
ThreadHasTask == HasTaskThread /\ processTaskCount >= 0 /\ (task # NoTask \/ taskQueue # <<>>)

\* What a caller in WaitAsyncPlanExecuteFinish waits for is on its way, whatever Setups and launches have
\* failed and whatever tasks earlier calls left behind.  Not so when a pre-execution failed, nor when a
\* RunTaskFunc gets the only node.
WaitIsAnswered ==
  /\ pc = "wait" /\ Waits /\ ~allTaskFinish /\ preExecuteStatus
  /\ ~(runTaskFunc /\ NodeCount = 1)
  => preTaskQueue # <<>> \/ ThreadHasTask

\* A thread that has stopped has raised the flag; in a later call the caller does not get to wait.
StopIsSeen == processTaskCount = -1 => task = NoTask /\ Failed /\ (allTaskFinish \/ failedIn # round)
\* With a task thread: what has been counted and what is under way, leftovers included, are enough.
TasksAreLeft ==
  HasTaskThread /\ Busy /\ ~allTaskFinish /\ preExecuteStatus /\ processTaskCount >= 0 =>
    processTaskCount + AtWork(task) + Len(taskQueue) + Len(preTaskQueue) >= nodeId
\* With a RunTaskFunc: the worker has yet to pre-execute the last node, which raises the flag.
LastIsLeft ==
  runTaskFunc /\ isUsePlanPreExecuteAsync /\ pc = "wait" /\ ~allTaskFinish /\ preExecuteStatus /\ NodeCount > 1
    => NodeCount - 1 \in Queued(preTaskQueue)
Awaited == StopIsSeen /\ TasksAreLeft /\ LastIsLeft

LEMMA AwaitedCaller ==
  ASSUME IInv, Awaited, Caller
  PROVE  Awaited'
<1>0. /\ NodeCount \in Nat /\ nodeId \in Nat /\ round \in Nat /\ failedIn \in 0 .. round
      /\ processTaskCount \in Int /\ taskQueue \in Seq(Nodes \cup {Placeholder}) /\ preTaskQueue \in Seq(Nodes)
      /\ AtWork(task) \in {0, 1} /\ UNCHANGED <<task, processTaskCount, runTaskFunc, isUsePlanExecuteAsync,
                                               isUsePlanPreExecuteAsync, preExecuteStatus>>
  <2>1. UNCHANGED <<task, processTaskCount, runTaskFunc, isUsePlanExecuteAsync, isUsePlanPreExecuteAsync,
                    preExecuteStatus>>
    BY DEF Caller, ExecuteStart, BuildNodeVariantPack, CheckStatus, SetupFail, RunNode, RunFirstNode,
           ExecutePlanAsync, WaitAsyncPlanExecuteFinish, ExecutePlanSync, modeVars, statusVars, taskVars
  <2> QED
    BY <2>1, Constants DEF IInv, Types, CallTypes, TaskTypes, PackTypes, AtWork
<1>1. CASE ExecuteStart
  <2>1. /\ round' = round + 1 /\ nodeId' = 0 /\ pc' = "build" /\ UNCHANGED <<failedIn, taskQueue, preTaskQueue>>
    BY <1>1 DEF ExecuteStart, statusVars, taskVars
  <2>2. StopIsSeen'
    BY <1>0, <2>1 DEF Awaited, StopIsSeen, Failed
  <2>3. TasksAreLeft' /\ LastIsLeft'
    BY <1>0, <2>1 DEF TasksAreLeft, LastIsLeft, AtWork
  <2> QED
    BY <2>2, <2>3 DEF Awaited
<1>2. CASE BuildNodeVariantPack \/ CheckStatus \/ SetupFail \/ WaitAsyncPlanExecuteFinish
  <2>1. /\ UNCHANGED <<round, nodeId, allTaskFinish, failedIn, taskQueue, preTaskQueue>>
        /\ pc # "idle" /\ pc' # "wait"
    BY <1>2 DEF BuildNodeVariantPack, CheckStatus, SetupFail, WaitAsyncPlanExecuteFinish, Leave, statusVars, taskVars
  <2>2. StopIsSeen'
    BY <1>0, <2>1 DEF Awaited, StopIsSeen, Failed
  <2>3. TasksAreLeft' /\ LastIsLeft'
    BY <1>0, <2>1 DEF Awaited, TasksAreLeft, LastIsLeft, AtWork, HasTaskThread, Busy
  <2> QED
    BY <2>2, <2>3 DEF Awaited
<1>3. CASE RunNode
  <2>1. /\ UNCHANGED <<round, allTaskFinish, preTaskQueue>> /\ ~isUsePlanExecuteAsync
        /\ ~isUsePlanPreExecuteAsync
        /\ failedIn' = failedIn \/ failedIn' = IF failedIn = 0 THEN round ELSE failedIn
    BY <1>3 DEF RunNode, NextNode, Leave, ExecutePlanSync, Fail, IInv, Routes
  <2>2. StopIsSeen'
    BY <1>0, <2>1 DEF Awaited, StopIsSeen, Failed
  <2>3. TasksAreLeft' /\ LastIsLeft'
    BY <1>0, <2>1 DEF TasksAreLeft, LastIsLeft, HasTaskThread
  <2> QED
    BY <2>2, <2>3 DEF Awaited
<1>4. CASE RunFirstNode
  <2>1. /\ UNCHANGED <<round, allTaskFinish, preTaskQueue>> /\ nodeId' = nodeId + 1 /\ nodeId = 0 /\ pc = "run"
        /\ pc' = "wait" => NodeCount = 1
        /\ Len(taskQueue') = Len(taskQueue) + 1
        /\ failedIn' = failedIn \/ failedIn' = IF failedIn = 0 THEN round ELSE failedIn
    BY <1>0, <1>4 DEF RunFirstNode, FirstNode, NextNode, PushPlaceholder, PushTask, ExecutePlanSync, Fail, IInv, Routes
  <2>2. StopIsSeen'
    BY <1>0, <2>1 DEF Awaited, StopIsSeen, Failed
  <2>3. TasksAreLeft'
    BY <1>0, <2>1 DEF Awaited, TasksAreLeft, AtWork, HasTaskThread, Busy
  <2>4. LastIsLeft'
    BY <1>0, <2>1 DEF LastIsLeft
  <2> QED
    BY <2>2, <2>3, <2>4 DEF Awaited
<1>5. CASE ExecutePlanAsync
  <2>0. /\ UNCHANGED <<round, allTaskFinish, failedIn>> /\ nodeId' = nodeId + 1 /\ pc = "run"
        /\ pc' = IF nodeId + 1 = NodeCount THEN "wait" ELSE "build"
        /\ isUsePlanExecuteAsync
    BY <1>5 DEF ExecutePlanAsync, NextNode, statusVars
  <2>1. /\ UNCHANGED <<round, allTaskFinish, failedIn>> /\ nodeId' = nodeId + 1 /\ pc = "run"
        /\ nodeId \in Nodes /\ (pc' = "wait" => nodeId = NodeCount - 1)
    <3>1. nodeId \in Nodes
      BY <1>0, <2>0 DEF IInv, Types, Places, Nodes, PackTypes, CallTypes
    <3>2. pc' = "wait" => nodeId = NodeCount - 1
      BY <1>0, <2>0
    <3> QED
      BY <2>0, <3>1, <3>2
  <2>a. \/ /\ isUsePlanPreExecuteAsync /\ preTaskQueue' = Append(preTaskQueue, nodeId)
           /\ UNCHANGED taskQueue
        \/ /\ ~isUsePlanPreExecuteAsync /\ runTaskFunc
           /\ UNCHANGED <<preTaskQueue, taskQueue>>
        \/ /\ ~isUsePlanPreExecuteAsync /\ ~runTaskFunc /\ taskQueue' = Append(taskQueue, nodeId)
           /\ UNCHANGED preTaskQueue
    BY <1>5 DEF ExecutePlanAsync, PushTask
  <2>b. /\ Append(preTaskQueue, nodeId) \in Seq(Nodes)
        /\ Len(Append(preTaskQueue, nodeId)) = Len(preTaskQueue) + 1
        /\ Append(taskQueue, nodeId) \in Seq(Nodes \cup {Placeholder})
        /\ Len(Append(taskQueue, nodeId)) = Len(taskQueue) + 1
        /\ Len(taskQueue) \in Nat /\ Len(preTaskQueue) \in Nat
    BY <1>0, <2>1
  <2>2. HasTaskThread => Len(taskQueue') + Len(preTaskQueue') = Len(taskQueue) + Len(preTaskQueue) + 1
    <3>1. CASE UNCHANGED taskQueue /\ preTaskQueue' = Append(preTaskQueue, nodeId)
      BY <2>b, <3>1
    <3>2. CASE UNCHANGED preTaskQueue /\ taskQueue' = Append(taskQueue, nodeId)
      BY <2>b, <3>2
    <3> QED
      BY <2>a, <3>1, <3>2 DEF HasTaskThread
  <2>3. isUsePlanPreExecuteAsync => nodeId \in Queued(preTaskQueue')
    <3>1. nodeId \in Queued(Append(preTaskQueue, nodeId))
      BY <1>0, <2>1, QueuedAppend
    <3> QED
      BY <2>a, <3>1
  <2>4. /\ taskQueue' \in Seq(Nodes \cup {Placeholder}) /\ preTaskQueue' \in Seq(Nodes)
    BY <1>0, <2>a, <2>b
  <2>5. StopIsSeen'
    BY <1>0, <2>1 DEF Awaited, StopIsSeen, Failed
  <2>6. TasksAreLeft'
    BY <1>0, <2>1, <2>2, <2>4 DEF Awaited, TasksAreLeft, AtWork, HasTaskThread, Busy
  <2>7. LastIsLeft'
    BY <1>0, <2>1, <2>3 DEF LastIsLeft
  <2> QED
    BY <2>5, <2>6, <2>7 DEF Awaited
<1> QED
  BY <1>1, <1>2, <1>3, <1>4, <1>5 DEF Caller

LEMMA AwaitedTaskThread ==
  ASSUME IInv, Awaited, TaskThread
  PROVE  Awaited'
<1>0. /\ NodeCount \in Nat /\ NodeCount > 0 /\ nodeId \in Nat /\ round \in Nat /\ round > 0
      /\ failedIn \in 0 .. round /\ processTaskCount \in -1 .. NodeCount - 1
      /\ taskQueue \in Seq(Nodes \cup {Placeholder}) /\ preTaskQueue \in Seq(Nodes)
      /\ UNCHANGED <<pc, nodeId, round, runTaskFunc, isUsePlanExecuteAsync, isUsePlanPreExecuteAsync,
                     preExecuteStatus, preTaskQueue>>
  <2>1. UNCHANGED <<pc, nodeId, round, runTaskFunc, isUsePlanExecuteAsync, isUsePlanPreExecuteAsync,
                    preExecuteStatus, preTaskQueue>>
    BY DEF TaskThread, PopTask, ThreadProcessTask, ExecutePlanSync, modeVars, callVars, statusVars
  <2>2. round > 0
    <3>1. executeCount # 0
      BY DEF TaskThread, PopTask, ThreadProcessTask, IInv, Routes
    <3> QED
      BY <3>1 DEF IInv, Routes
  <2> QED
    BY <2>1, <2>2, Constants DEF IInv, Types, CallTypes, TaskTypes, PackTypes
<1>1. CASE PopTask
  <2>1. /\ processTaskCount' = processTaskCount /\ processTaskCount # -1 /\ task = NoTask
        /\ taskQueue # <<>> /\ taskQueue' = Tail(taskQueue) /\ UNCHANGED allTaskFinish
    BY <1>0, <1>1 DEF PopTask
  <2>2. StopIsSeen'
    BY <2>1 DEF StopIsSeen
  <2>3. Len(taskQueue) = Len(taskQueue') + 1 /\ Len(taskQueue') \in Nat
    BY <1>0, <2>1
  <2>4. AtWork(task) = 0 /\ AtWork(task') = 1
    <3>1. Head(taskQueue) \in Nodes \cup {Placeholder}
      BY <1>0, <2>1
    <3>2. task' # NoTask
      BY <1>1, <3>1 DEF PopTask, NoTask, Placeholder, Nodes
    <3> QED
      BY <2>1, <3>2 DEF AtWork
  <2>5. TasksAreLeft'
    BY <1>0, <2>1, <2>3, <2>4 DEF Awaited, TasksAreLeft, HasTaskThread, Busy
  <2>6. LastIsLeft'
    BY <1>0, <2>1 DEF Awaited, LastIsLeft
  <2> QED
    BY <2>2, <2>5, <2>6 DEF Awaited
<1>2. CASE ThreadProcessTask
  <2>1. /\ task # NoTask /\ task' = NoTask /\ UNCHANGED taskQueue /\ processTaskCount # -1
        /\ CountTask \/ (StopThread /\ Fail)
    BY <1>2 DEF ThreadProcessTask, ExecutePlanSync, Awaited, StopIsSeen
  <2>2. AtWork(task) = 1 /\ AtWork(task') = 0
    BY <2>1 DEF AtWork
  <2>3. CASE CountTask
    <3>1. processTaskCount' # -1
      <4>1. processTaskCount' = 0 \/ processTaskCount' = processTaskCount + 1
        BY <2>3 DEF CountTask
      <4>2. processTaskCount + 1 # -1
        BY <1>0, <2>1
      <4> QED
        BY <4>1, <4>2
    <3>2. StopIsSeen'
      BY <3>1 DEF StopIsSeen
    <3>3. (allTaskFinish' = allTaskFinish /\ processTaskCount' = processTaskCount + 1) \/ allTaskFinish' = TRUE
      BY <2>3 DEF CountTask
    <3>4. TasksAreLeft'
      BY <1>0, <2>1, <2>2, <3>3 DEF Awaited, TasksAreLeft, HasTaskThread, Busy
    <3>5. LastIsLeft'
      BY <1>0, <3>3 DEF Awaited, LastIsLeft
    <3> QED
      BY <3>2, <3>4, <3>5 DEF Awaited
  <2>4. CASE StopThread /\ Fail
    <3>1. Failed' /\ allTaskFinish' = TRUE
      BY <1>0, <2>4 DEF StopThread, Fail, Failed
    <3> QED
      BY <2>1, <3>1 DEF Awaited, StopIsSeen, TasksAreLeft, LastIsLeft
  <2> QED
    BY <2>1, <2>3, <2>4
<1> QED
  BY <1>1, <1>2 DEF TaskThread

LEMMA AwaitedPreTask ==
  ASSUME IInv, Awaited, PreTask
  PROVE  Awaited'
<1>0. /\ NodeCount \in Nat /\ nodeId \in Nat /\ processTaskCount \in Int /\ AtWork(task) \in {0, 1}
      /\ taskQueue \in Seq(Nodes \cup {Placeholder}) /\ preTaskQueue \in Seq(Nodes) /\ preTaskQueue # <<>>
      /\ preTaskQueue' = Tail(preTaskQueue) /\ Head(preTaskQueue) \in Nodes
      /\ round \in Nat /\ failedIn \in 0 .. round
  BY Constants DEF PreTask, AtWork, IInv, Types, CallTypes, TaskTypes, PackTypes
<1>1. UNCHANGED <<pc, nodeId, round, runTaskFunc, isUsePlanExecuteAsync, isUsePlanPreExecuteAsync,
                  task, processTaskCount>>
  BY DEF PreTask, modeVars, callVars
<1>2. PICK ok \in BOOLEAN : PreExecutePlanSync(Head(preTaskQueue), ok) /\ HandOn(Head(preTaskQueue), ok)
  BY DEF PreTask
<1>3. StopIsSeen'
  <2>1. Failed => failedIn' = failedIn
    BY <1>2 DEF PreExecutePlanSync, Fail, Failed
  <2>2. allTaskFinish => allTaskFinish' = TRUE
    BY <1>2 DEF HandOn
  <2> QED
    BY <1>1, <2>1, <2>2 DEF Awaited, StopIsSeen, Failed
<1>4. CASE ~ok
  <2>1. ~preExecuteStatus'
    BY <1>2, <1>4 DEF PreExecutePlanSync
  <2> QED
    BY <1>3, <2>1 DEF Awaited, TasksAreLeft, LastIsLeft
<1>5. CASE ok
  <2>1. UNCHANGED preExecuteStatus
    BY <1>2, <1>5 DEF PreExecutePlanSync
  <2>2. HasTaskThread => /\ Len(taskQueue') + Len(preTaskQueue') = Len(taskQueue) + Len(preTaskQueue)
                         /\ allTaskFinish' = allTaskFinish
    <3> SUFFICES ASSUME HasTaskThread
                 PROVE  /\ Len(taskQueue') + Len(preTaskQueue') = Len(taskQueue) + Len(preTaskQueue)
                        /\ allTaskFinish' = allTaskFinish
      OBVIOUS
    <3>1. ~runTaskFunc
      BY DEF HasTaskThread
    <3>2. taskQueue' = Append(taskQueue, Head(preTaskQueue))
      BY <1>2, <1>5, <3>1 DEF HandOn, PushTask
    <3>3. allTaskFinish' = allTaskFinish
      <4>1. allTaskFinish' = (allTaskFinish \/ FALSE)
        BY <1>2, <3>1 DEF HandOn
      <4>2. allTaskFinish \in BOOLEAN
        BY DEF IInv, Types, FlagTypes
      <4> QED
        BY <4>1, <4>2
    <3>4. Len(Append(taskQueue, Head(preTaskQueue))) = Len(taskQueue) + 1
      BY <1>0
    <3>5. Len(Tail(preTaskQueue)) = Len(preTaskQueue) - 1
      BY <1>0
    <3>6. Len(taskQueue) \in Nat /\ Len(preTaskQueue) \in Nat
      BY <1>0
    <3> QED
      BY <1>0, <3>2, <3>3, <3>4, <3>5, <3>6
  <2>3. taskQueue' \in Seq(Nodes \cup {Placeholder}) /\ preTaskQueue' \in Seq(Nodes)
    BY <1>0, <1>2, <1>5 DEF HandOn, PushTask
  <2>4. TasksAreLeft'
    BY <1>0, <1>1, <2>1, <2>2, <2>3 DEF Awaited, TasksAreLeft, HasTaskThread, Busy, AtWork
  <2>5. LastIsLeft'
    <3>1. SUFFICES ASSUME runTaskFunc, isUsePlanPreExecuteAsync, pc = "wait", ~allTaskFinish', preExecuteStatus,
                          NodeCount > 1
                   PROVE  NodeCount - 1 \in Queued(preTaskQueue')
      BY <1>1, <2>1 DEF LastIsLeft
    <3>2. ~allTaskFinish /\ Head(preTaskQueue) + 1 # NodeCount
      BY <1>2, <1>5, <3>1 DEF HandOn
    <3>3. NodeCount - 1 \in Queued(preTaskQueue)
      BY <3>1, <3>2 DEF Awaited, LastIsLeft
    <3> QED
      BY <1>0, <3>2, <3>3, QueuedTail DEF Nodes
  <2> QED
    BY <1>3, <2>4, <2>5 DEF Awaited
<1> QED
  BY <1>4, <1>5

LEMMA AwaitedRunTask ==
  ASSUME IInv, Awaited, RunTask
  PROVE  Awaited'
<1>1. /\ UNCHANGED <<pc, nodeId, round, runTaskFunc, isUsePlanExecuteAsync, isUsePlanPreExecuteAsync, task,
                     processTaskCount, taskQueue, preTaskQueue, allTaskFinish, preExecuteStatus>>
      /\ Failed => failedIn' = failedIn
  BY DEF RunTask, modeVars, callVars, taskVars, ExecutePlanSync, Fail, Failed
<1>2. StopIsSeen'
  BY <1>1 DEF Awaited, StopIsSeen, Failed
<1>3. TasksAreLeft' /\ LastIsLeft'
  BY <1>1 DEF Awaited, TasksAreLeft, LastIsLeft, HasTaskThread, Busy
<1> QED
  BY <1>2, <1>3 DEF Awaited

LEMMA AwaitedHolds == Spec => []Awaited
<1>1. Init => Awaited
  BY DEF Init, Awaited, StopIsSeen, TasksAreLeft, LastIsLeft, Busy
<1>2. IInv /\ Awaited /\ [Next]_vars => Awaited'
  <2> SUFFICES ASSUME IInv, Awaited, [Next]_vars PROVE Awaited'
    OBVIOUS
  <2>1. CASE Next
    BY <2>1, AwaitedCaller, AwaitedTaskThread, AwaitedPreTask, AwaitedRunTask DEF Next
  <2>2. CASE UNCHANGED vars
    <3>1. UNCHANGED <<pc, nodeId, round, runTaskFunc, isUsePlanExecuteAsync, isUsePlanPreExecuteAsync, task, failedIn,
                      processTaskCount, taskQueue, preTaskQueue, allTaskFinish, preExecuteStatus>>
      BY <2>2 DEF vars, modeVars, callVars, taskVars, statusVars
    <3> QED
      BY <3>1 DEF Awaited, StopIsSeen, TasksAreLeft, LastIsLeft, HasTaskThread, Busy, Failed
  <2> QED
    BY <2>1, <2>2
<1> QED
  BY <1>1, <1>2, Invariance, PTL DEF Spec

LEMMA Answered == IInv /\ Awaited => WaitIsAnswered
<1> SUFFICES ASSUME IInv, Awaited, pc = "wait", Waits, ~allTaskFinish, preExecuteStatus,
                    ~(runTaskFunc /\ NodeCount = 1), preTaskQueue = <<>>
             PROVE  ThreadHasTask
  BY DEF WaitIsAnswered
<1>0. /\ NodeCount \in Nat /\ NodeCount > 0 /\ nodeId = NodeCount /\ processTaskCount \in -1 .. NodeCount - 1
      /\ taskQueue \in Seq(Nodes \cup {Placeholder})
  BY Constants DEF IInv, Types, Places, TaskTypes
<1>1. ~runTaskFunc /\ HasTaskThread
  <2>1. CASE runTaskFunc
    <3>1. NodeCount - 1 \in Queued(preTaskQueue)
      BY <1>0, <2>1 DEF Waits, Awaited, LastIsLeft
    <3> QED
      BY <3>1 DEF Queued
  <2> QED
    BY <2>1 DEF Waits, HasTaskThread
<1>2. processTaskCount # -1
  <2>1. Failed => failedIn = round
    BY DEF IInv, Reported, Busy
  <2> QED
    BY <2>1 DEF Awaited, StopIsSeen
<1>3. processTaskCount + AtWork(task) + Len(taskQueue) + 0 >= NodeCount
  BY <1>0, <1>1, <1>2 DEF Awaited, TasksAreLeft, Busy
<1> QED
  BY <1>0, <1>1, <1>2, <1>3 DEF ThreadHasTask, AtWork

\* A caller of Execute that waits for its nodes waits for a thread that has something to do, whatever
\* Setups and launches have failed (WaitAsyncPlanExecuteFinish).  It says of every number of nodes what
\* keeps ExecuteEnds true.
THEOREM NoVainWait == Spec => []WaitIsAnswered
BY AwaitedHolds, Invariance, Answered, PTL
=============================================================================
