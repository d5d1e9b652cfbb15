---------------------------- MODULE ModelExecute ----------------------------
(***************************************************************************)
(* Model::Execute and the threads it hands nodes to (core/base/model.cpp,  *)
(* core/utils/ModelTaskExecutor.cpp).                                      *)
(*                                                                         *)
(* The caller's thread prepares the nodes of the graph one by one.         *)
(* ATB_OPERATION_EXECUTE_ASYNC says who runs them: the caller itself       *)
(* ("0"); the model's own task thread ("1"); or the device's               *)
(* ModelTaskExecutor worker, which pre-executes a node and then hands it   *)
(* to the task thread ("2").  A model that was given a RunTaskFunc hands   *)
(* nodes to that queue in place of its own task thread.  The queue itself  *)
(* belongs to the framework (torch_npu) and runs its tasks one at a time,  *)
(* in order, ignoring their status.                                        *)
(*                                                                         *)
(* A node's variant pack and workspace live in the node, not in the task:  *)
(* they are here the number of the call that built them.                   *)
(***************************************************************************)
EXTENDS Integers, Sequences, FiniteSets

CONSTANTS
  NodeCount,           \* graph_.nodes.size()
  MaxExecutes,         \* bound: calls of Execute
  Envs,                \* values ATB_OPERATION_EXECUTE_ASYNC may have
  RunTaskFuncs,        \* subset of BOOLEAN: is Init given a RunTaskFunc?
  SetupMayFail,        \* may an operation's Setup fail?
  ExecuteMayFail,      \* may an operation's Execute fail?
  PreExecuteMayFail    \* may an operation's pre-execution fail?

Unset == "unset"
Placeholder == -1      \* the node id of the placeholder task
NoTask == -2           \* a thread that waits for a task

ASSUME NodeCountAssumption == NodeCount \in Nat \ {0}
ASSUME MaxExecutesAssumption == MaxExecutes \in Nat
ASSUME EnvsAssumption == Envs \subseteq {Unset, "0", "1", "2"}
ASSUME RunTaskFuncsAssumption == RunTaskFuncs \subseteq BOOLEAN
ASSUME FailureAssumption ==
  SetupMayFail \in BOOLEAN /\ ExecuteMayFail \in BOOLEAN /\ PreExecuteMayFail \in BOOLEAN

Nodes == 0 .. NodeCount - 1

VARIABLES
  isUsePlanExecuteAsync, isUsePlanPreExecuteAsync, runTaskFunc, \* set by Model::Init
  pc, nodeId,          \* where the caller is in Execute, and its loop variable
  executeCount,        \* executeCount_
  allTaskFinish,       \* allTaskFinish_
  executeStatus,       \* g_executeStatus = NO_ERROR
  preExecuteStatus,    \* g_preExecuteStatus = NO_ERROR
  variantPack,         \* per node, the call whose variant pack it holds
  taskQueue,           \* taskQueue_
  task,                \* what the task thread is at
  processTaskCount,    \* the task thread's counter; -1: the thread has returned
  preTaskQueue,        \* queue of the ModelTaskExecutor worker of the device
  runTasks,            \* queue behind the RunTaskFunc
  round,               \* number of Execute calls so far
  launchedIn,          \* history: per node, the call whose pack it was last launched with
  preparedIn,          \* history: the same for its pre-execution
  failedIn,            \* history: the call in which something first failed; 0: none
  setupFailed          \* history: has a Setup failed?

modeVars == <<isUsePlanExecuteAsync, isUsePlanPreExecuteAsync, runTaskFunc>>
callVars == <<pc, nodeId, round>>
taskVars == <<taskQueue, task, processTaskCount>>
statusVars == <<executeStatus, preExecuteStatus, failedIn, setupFailed>>
vars == <<modeVars, callVars, executeCount, allTaskFinish, statusVars, variantPack,
          taskVars, preTaskQueue, runTasks, launchedIn, preparedIn>>

HasTaskThread == isUsePlanExecuteAsync /\ ~runTaskFunc

TypeOK ==
  /\ isUsePlanExecuteAsync \in BOOLEAN
  /\ isUsePlanPreExecuteAsync \in BOOLEAN
  /\ runTaskFunc \in BOOLEAN
  /\ pc \in {"idle", "build", "check", "run", "wait"}
  /\ nodeId \in 0 .. NodeCount
  /\ executeCount \in {0, 1}
  /\ allTaskFinish \in BOOLEAN
  /\ executeStatus \in BOOLEAN
  /\ preExecuteStatus \in BOOLEAN
  /\ variantPack \in [Nodes -> 0 .. round]
  /\ taskQueue \in Seq(Nodes \cup {Placeholder})
  /\ task \in Nodes \cup {Placeholder, NoTask}
  /\ processTaskCount \in -1 .. NodeCount - 1
  /\ preTaskQueue \in Seq(Nodes)
  /\ runTasks \in Seq(Nodes)
  /\ round \in 0 .. MaxExecutes
  /\ launchedIn \in [Nodes -> 0 .. round]
  /\ preparedIn \in [Nodes -> 0 .. round]
  /\ failedIn \in 0 .. round
  /\ setupFailed \in BOOLEAN

(* Model::Init reads the environment.                                      *)
Init ==
  /\ \E env \in Envs :
       /\ isUsePlanExecuteAsync = (env \in {"1", "2"})
       /\ isUsePlanPreExecuteAsync = (env = "2")
  /\ runTaskFunc \in RunTaskFuncs
  /\ pc = "idle"
  /\ nodeId = 0
  /\ executeCount = 0
  /\ allTaskFinish \in BOOLEAN
  /\ executeStatus = TRUE
  /\ preExecuteStatus = TRUE
  /\ variantPack = [n \in Nodes |-> 0]
  /\ taskQueue = <<>>
  /\ task = NoTask
  /\ processTaskCount = 0
  /\ preTaskQueue = <<>>
  /\ runTasks = <<>>
  /\ round = 0
  /\ launchedIn = [n \in Nodes |-> 0]
  /\ preparedIn = [n \in Nodes |-> 0]
  /\ failedIn = 0
  /\ setupFailed = FALSE

-----------------------------------------------------------------------------
Fail == failedIn' = IF failedIn = 0 THEN round ELSE failedIn

(* ExecutePlanSync: node n is launched with the pack it holds, or fails.   *)
ExecutePlanSync(n, ok) ==
  /\ ok \/ ExecuteMayFail
  /\ IF ok THEN /\ launchedIn' = [launchedIn EXCEPT ![n] = variantPack[n]]
                /\ UNCHANGED <<executeStatus, failedIn>>
           ELSE /\ executeStatus' = FALSE
                /\ Fail
                /\ UNCHANGED launchedIn
  /\ UNCHANGED <<preExecuteStatus, setupFailed>>

(* PreExecutePlanSync: the same in a pre-launch.                           *)
PreExecutePlanSync(n, ok) ==
  /\ ok \/ PreExecuteMayFail
  /\ IF ok THEN /\ preparedIn' = [preparedIn EXCEPT ![n] = variantPack[n]]
                /\ UNCHANGED <<preExecuteStatus, failedIn>>
           ELSE /\ preExecuteStatus' = FALSE
                /\ Fail
                /\ UNCHANGED preparedIn
  /\ UNCHANGED <<executeStatus, setupFailed>>

NextNode ==
  /\ nodeId' = nodeId + 1
  /\ pc' = IF nodeId + 1 = NodeCount THEN "wait" ELSE "build"
  /\ UNCHANGED round

(* The caller leaves Execute, by return or exception.                      *)
Leave == pc' = "idle" /\ UNCHANGED <<nodeId, round>>

-----------------------------------------------------------------------------
(* Mutant: the flag keeps the value of the last call.                      *)
KeepFlag == UNCHANGED allTaskFinish

ResetFlag == allTaskFinish' = FALSE

(* Execute, up to its loop.                                                *)
ExecuteStart ==
  /\ pc = "idle"
  /\ round < MaxExecutes
  /\ round' = round + 1
  /\ ResetFlag
  /\ nodeId' = 0
  /\ pc' = "build"
  /\ UNCHANGED <<modeVars, executeCount, statusVars, variantPack, taskVars, preTaskQueue,
                 runTasks, launchedIn, preparedIn>>

BuildNodeVariantPack ==
  /\ pc = "build"
  /\ variantPack' = [variantPack EXCEPT ![nodeId] = round]
  /\ pc' = "check"
  /\ UNCHANGED <<modeVars, nodeId, round, executeCount, allTaskFinish, statusVars, taskVars,
                 preTaskQueue, runTasks, launchedIn, preparedIn>>

(* Mutant: only pre-executions are looked at.                              *)
ExecuteStatusIgnored == preExecuteStatus

StatusIsGood == executeStatus /\ preExecuteStatus

(* ExecuteNode reads the status of what has run so far, and throws.        *)
CheckStatus ==
  /\ pc = "check"
  /\ IF StatusIsGood
     THEN pc' = "run" /\ UNCHANGED <<nodeId, round>>
     ELSE Leave
  /\ UNCHANGED <<modeVars, executeCount, allTaskFinish, statusVars, variantPack, taskVars,
                 preTaskQueue, runTasks, launchedIn, preparedIn>>

(* Setup fails: Execute throws, and no status is set.                      *)
SetupFail ==
  /\ pc = "run"
  /\ SetupMayFail
  /\ setupFailed' = TRUE
  /\ Leave
  /\ UNCHANGED <<modeVars, executeCount, allTaskFinish, executeStatus, preExecuteStatus, failedIn,
                 variantPack, taskVars, preTaskQueue, runTasks, launchedIn, preparedIn>>

(* Setup is fine and the caller runs the node itself; a failure ends the   *)
(* call with its status.                                                   *)
RunNode ==
  /\ pc = "run"
  /\ ~isUsePlanExecuteAsync
  /\ \E ok \in BOOLEAN :
       /\ ExecutePlanSync(nodeId, ok)
       /\ IF ok THEN NextNode ELSE Leave
  /\ UNCHANGED <<modeVars, executeCount, allTaskFinish, variantPack, taskVars, preTaskQueue,
                 runTasks, preparedIn>>

PushTask(n) == taskQueue' = Append(taskQueue, n)

(* Mutant: no placeholder.                                                 *)
PushNothing == UNCHANGED taskQueue

PushPlaceholder == PushTask(Placeholder)

FirstNode == isUsePlanExecuteAsync /\ executeCount = 0

(* ExecutePlanAsync, for the first node ever: the caller runs it and       *)
(* leaves a placeholder in the queue; the status is not looked at.         *)
RunFirstNode ==
  /\ pc = "run"
  /\ FirstNode
  /\ \E ok \in BOOLEAN : ExecutePlanSync(nodeId, ok)
  /\ executeCount' = 1
  /\ PushPlaceholder
  /\ NextNode
  /\ UNCHANGED <<modeVars, allTaskFinish, variantPack, task, processTaskCount, preTaskQueue,
                 runTasks, preparedIn>>

(* ExecutePlanAsync, for every other node.                                 *)
ExecutePlanAsync ==
  /\ pc = "run"
  /\ isUsePlanExecuteAsync /\ ~FirstNode
  /\ CASE isUsePlanPreExecuteAsync ->
            preTaskQueue' = Append(preTaskQueue, nodeId) /\ UNCHANGED <<runTasks, taskQueue>>
       [] ~isUsePlanPreExecuteAsync /\ runTaskFunc ->
            runTasks' = Append(runTasks, nodeId) /\ UNCHANGED <<preTaskQueue, taskQueue>>
       [] OTHER ->
            PushTask(nodeId) /\ UNCHANGED <<preTaskQueue, runTasks>>
  /\ NextNode
  /\ UNCHANGED <<modeVars, executeCount, allTaskFinish, statusVars, variantPack, task,
                 processTaskCount, launchedIn, preparedIn>>

(* WaitAsyncPlanExecuteFinish, and Execute returns NO_ERROR.               *)
Waits == isUsePlanExecuteAsync /\ (isUsePlanPreExecuteAsync \/ ~runTaskFunc)

WaitAsyncPlanExecuteFinish ==
  /\ pc = "wait"
  /\ Waits => allTaskFinish
  /\ Leave
  /\ UNCHANGED <<modeVars, executeCount, allTaskFinish, statusVars, variantPack, taskVars,
                 preTaskQueue, runTasks, launchedIn, preparedIn>>

-----------------------------------------------------------------------------
(* The task thread takes a task.                                           *)
PopTask ==
  /\ HasTaskThread
  /\ processTaskCount >= 0
  /\ task = NoTask
  /\ taskQueue # <<>>
  /\ task' = Head(taskQueue)
  /\ taskQueue' = Tail(taskQueue)
  /\ UNCHANGED <<modeVars, callVars, executeCount, allTaskFinish, statusVars, variantPack,
                 processTaskCount, preTaskQueue, runTasks, launchedIn, preparedIn>>

(* Mutant: the flag is raised one task early.                              *)
CountTaskEarly ==
  IF processTaskCount + 2 >= NodeCount
  THEN processTaskCount' = 0 /\ allTaskFinish' = TRUE
  ELSE processTaskCount' = processTaskCount + 1 /\ UNCHANGED allTaskFinish

(* A task is done: one more, and after as many as there are nodes the flag *)
(* is raised.                                                              *)
CountTask ==
  IF processTaskCount + 1 = NodeCount
  THEN processTaskCount' = 0 /\ allTaskFinish' = TRUE
  ELSE processTaskCount' = processTaskCount + 1 /\ UNCHANGED allTaskFinish

StopThread == processTaskCount' = -1 /\ allTaskFinish' = TRUE

(* ThreadProcessTask: the thread runs what it took.  A failure raises the  *)
(* flag too, and the thread returns.                                       *)
ThreadProcessTask ==
  /\ task # NoTask
  /\ task' = NoTask
  /\ \/ /\ task = Placeholder
        /\ CountTask
        /\ UNCHANGED <<statusVars, launchedIn>>
     \/ /\ task # Placeholder
        /\ \E ok \in BOOLEAN :
             /\ ExecutePlanSync(task, ok)
             /\ IF ok THEN CountTask ELSE StopThread
  /\ UNCHANGED <<modeVars, callVars, executeCount, variantPack, taskQueue, preTaskQueue,
                 runTasks, preparedIn>>

(* Mutant: a node is handed on although its pre-execution failed, and the  *)
(* flag is raised with any node.                                           *)
HandOnUnchecked(n, ok) ==
  /\ IF runTaskFunc THEN runTasks' = Append(runTasks, n) /\ UNCHANGED taskQueue
                    ELSE PushTask(n) /\ UNCHANGED runTasks
  /\ allTaskFinish' = (allTaskFinish \/ runTaskFunc)

(* Mutant: the node always goes to the task thread.                        *)
HandOnToTaskThread(n, ok) ==
  /\ IF ok THEN PushTask(n) ELSE UNCHANGED taskQueue
  /\ UNCHANGED runTasks
  /\ allTaskFinish' = (allTaskFinish \/ (ok /\ runTaskFunc /\ n + 1 = NodeCount))

(* What follows the pre-execution of node n: when it failed, nothing.      *)
HandOn(n, ok) ==
  /\ IF ok /\ runTaskFunc THEN runTasks' = Append(runTasks, n) ELSE UNCHANGED runTasks
  /\ IF ok /\ ~runTaskFunc THEN PushTask(n) ELSE UNCHANGED taskQueue
  /\ allTaskFinish' = (allTaskFinish \/ (ok /\ runTaskFunc /\ n + 1 = NodeCount))

(* The ModelTaskExecutor worker runs the task of PushPreTask.              *)
PreTask ==
  /\ preTaskQueue # <<>>
  /\ preTaskQueue' = Tail(preTaskQueue)
  /\ \E ok \in BOOLEAN :
       /\ PreExecutePlanSync(Head(preTaskQueue), ok)
       /\ HandOn(Head(preTaskQueue), ok)
  /\ UNCHANGED <<modeVars, callVars, executeCount, variantPack, task, processTaskCount,
                 launchedIn>>

(* The framework's queue runs the next task, and ignores its status.       *)
RunTask ==
  /\ runTasks # <<>>
  /\ runTasks' = Tail(runTasks)
  /\ \E ok \in BOOLEAN : ExecutePlanSync(Head(runTasks), ok)
  /\ UNCHANGED <<modeVars, callVars, executeCount, allTaskFinish, variantPack, taskVars,
                 preTaskQueue, preparedIn>>

Caller ==
  \/ ExecuteStart
  \/ BuildNodeVariantPack
  \/ CheckStatus
  \/ SetupFail
  \/ RunNode
  \/ RunFirstNode
  \/ ExecutePlanAsync
  \/ WaitAsyncPlanExecuteFinish

TaskThread == PopTask \/ ThreadProcessTask

Next == Caller \/ TaskThread \/ PreTask \/ RunTask

(* Every thread that can run does.  Nothing obliges the caller to call     *)
(* Execute once more.                                                      *)
Fairness ==
  /\ WF_vars(Caller /\ pc # "idle")
  /\ WF_vars(TaskThread)
  /\ WF_vars(PreTask)
  /\ WF_vars(RunTask)

Spec == Init /\ [][Next]_vars /\ Fairness

-----------------------------------------------------------------------------
Failed == failedIn # 0
Returns == pc = "wait" /\ pc' = "idle"
Queued(s) == {s[i] : i \in DOMAIN s}

(* A model without a RunTaskFunc keeps the promise of OrderedRun: every    *)
(* call of Execute launches all nodes with that call's variant packs, in   *)
(* graph order, before it returns; up to the first failure.                *)
Promise == INSTANCE OrderedRun WITH
  busy <- pc # "idle" /\ ~runTaskFunc,
  launched <- {n \in Nodes : ~runTaskFunc /\ round > 0 /\ launchedIn[n] = round},
  broken <- ~runTaskFunc /\ (Failed \/ setupFailed)

ImplementsOrderedRun == Promise!Spec

(* Without a RunTaskFunc the caller never rebuilds the variant pack of a   *)
(* node that another thread still has to read.  After a failure it does,   *)
(* once per call: the pack of node 0 is built before the status is read;   *)
(* after a failed Setup, whose status nobody keeps, any.                   *)
PackIsNotInUse ==
  [][\A n \in Nodes :
       /\ variantPack'[n] # variantPack[n]
       /\ ~runTaskFunc /\ ~setupFailed
       /\ ~(Failed /\ n = 0)
       => n \notin Queued(taskQueue) \cup Queued(preTaskQueue) \cup {task}]_vars

(* "Execute fail": once something has failed, the calls after the one it   *)
(* failed in never return without an exception (model.cpp, ExecuteNode).   *)
FailureIsReported == [][Returns /\ Failed => failedIn = round]_vars

(* With a RunTaskFunc and pre-execution, a call that returns normally      *)
(* while nothing has failed leaves every node pre-executed with the pack   *)
(* of the call, but for the first node ever, which was launched at once:   *)
(* only the launches of the framework's queue are open.                    *)
ReturnsPrepared ==
  [][Returns /\ ~Failed /\ isUsePlanPreExecuteAsync /\ runTaskFunc =>
       /\ preTaskQueue = <<>>
       /\ \A n \in Nodes :
            \/ preparedIn[n] = round
            \/ n = 0 /\ preparedIn[0] = 0 /\ launchedIn[0] = round]_vars

(* Execute ends, unless a pre-execution failed.                            *)
ExecuteEnds == pc # "idle" ~> (pc = "idle" \/ ~preExecuteStatus)

(* Every task the caller left to a thread is launched, with the pack it    *)
(* was left with or a later one, or something has failed.                  *)
TasksAreRun ==
  \A n \in Nodes, r \in 1 .. MaxExecutes :
    (/\ n \in Queued(taskQueue) \cup Queued(preTaskQueue) \cup Queued(runTasks)
     /\ variantPack[n] = r) ~> (Failed \/ launchedIn[n] >= r)
=============================================================================
