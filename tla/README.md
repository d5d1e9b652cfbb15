# Verification of the ATB layers

TLA+ models of xllm-atb-layers, the C++ library that builds transformer models as graphs of
Ascend operations (ATB and AclNN) and executes them. All paths are relative to `src/`.

To check one run: `tlc -config <cfg> <module>`, e.g. `tlc -config EventManager.cfg EventManager`.
To check the proofs of a module: `tlapm EventProofs.tla`. `PROJECT.json` lists the runs,
which definition models which lines, the findings, the hazards and the theorems.

## 1. The system

A *builder* turns parameters into a graph of operations, once, when a model is created. The
*runtime* executes the graph, once per token or prompt, from one thread per device, possibly with
helper threads. State lives in four places: in `Model` (one graph), in process-wide singletons
(`EventManager`, `ExternalCommManager`, `AclNNGlobalCache`, `ExecutorManager`, `DapManager`,
`CommOpCounter`), in the operations, and, for the rendezvous of processes, in the operating system.

| component | state | operations | interacts through |
|---|---|---|---|
| `Model` (core/base/model.cpp) | mode flags, `allTaskFinish_`, task queue, packs and workspaces of the nodes, internal tensor pool | Init, Execute, the task thread, pre-execution | `ModelTaskExecutor`, a `RunTaskFunc` of the framework, operations |
| `ModelTaskExecutor`, `TaskQueue` | a worker thread and queue per device | PushTask, WorkerThread | closures that capture the model and a node id |
| `GraphOperation` (pytorch/atb_torch) | cached tensors, last user of each tensor | build, ExecuteAtbTensor | operations, torch allocator |
| AclNN core (operations/aclnn/core) | cache object per operation, global cache, reference counts by executor address | Setup, Execute, Destroy | shared pointers; CANN creates and releases executors |
| `EventManager` | event queue and queue of operations without event, per key | RecordEvent, WaitEvent (PUSH, POP) | called by builders; device events |
| DAP (operations/fusion/utils.cpp, decoder_model.cpp) | role, stream id, counters of communications | events before and after communications | `EventManager` |
| two-stream prefill (models/base/util.h, linear_parallel.cpp, deepseekv2) | the flag `inited` | push and pop events | `EventManager` |
| `ExternalCommManager`, `Mapping`, `ParallelInfo` | per rank: cache of groups, counter of domains, global communicator | Init, GetCommDomain, GetCommPtr | builders call it; the ranks meet by name only |
| `HcclRunner`, `ShareMemory` | shared segment, semaphore, flags | exchange of the root information, barrier | processes of one node |
| builders (operations/fusion, models) | graphs under construction | one function per fused operation, layer or model | the singletons above |
| PyTorch adapter (`OperationTorch`, `Workspace`, `operation_creator`) | variant pack and workspace of an operation, device buffer | execute, GetWorkspaceBuffer | `RunTaskFunc` |
| AclNN operations (operations/aclnn/ops) | the pack and host data of the last Setup | how many tensors, which aclTensor goes where in the aclnn call, shapes of the outputs | the AclNN core, which calls them |
| bindings, logging, utilities | registries, environment switches | conversion, one library call each | - |

Behaviours that are hard to test, and what correctness means:

* **Model execution.** Caller, task thread and pre-execution worker share one flag and one counter
  and pass node ids, not data. Correct: each call launches every node once, in order, with this
  call's pack, before it returns; a failure is reported and does not block later calls.
* **Internal memory.** Buffers are recycled by address while a call is being prepared, and tensors
  keep the addresses of the last call. Correct: no two live tensors share a buffer, on no stream.
* **Executor sharing.** Lookup, replacement, failure and destruction by several operations on
  shared objects counted by reissuable addresses. Correct: what Execute uses is live and was built
  for these tensors; the last holder, and only it, destroys.
* **Events.** A RECORD and its WAIT are created in different functions and layers, and meet only by
  the order of calls. Correct: they pair up, the streams compute what one stream would, and never
  wait for each other in a circle.
* **Communication groups.** Every rank counts on its own. Correct: ranks of one group get one
  name, different groups never the same.
* **Rendezvous.** Crash leftovers, time-outs, retries. Correct: nobody takes stale information,
  and nobody waits for a rank that will not come.
* **Builders.** Hundreds of flags decide which tensors exist. Correct: each tensor a node reads is
  in the tensor map and has been written before; no result is overwritten unread or computed for
  nothing; and an argument arrives at the port it is meant for, which only its position decides.
* **AclNN operations.** Each writes down three times where a tensor goes: for the creation of its
  aclTensor, for the aclnn call, and for the refresh of the address at every Execute. Correct: the
  call runs with this Setup's tensors and host data, and each object is released once.

## 2. Modules

| module | models | state and actions in the code |
|---|---|---|
| `AclNNExecutorCache` | AclNN core | `aclnnOpCache`, `opCache`, `executorCount`, `aclnnGlobalCache`, `nextUpdateIndex` are the members of the same names; Setup is four actions (local hit, global hit, create, fail), Execute two, the destructor one |
| `SharedExecutors` | abstract: an executor exists exactly while somebody holds it | refined by `AclNNExecutorCache` (`ImplementsPromise`) |
| `ModelExecute` | Execute, ExecuteNode, the task thread, the worker, `RunTaskFunc` | one action per stretch between two accesses to shared state; `pc`, `nodeId` are the caller's place; packs are the number of the call that built them |
| `OrderedRun` | abstract: a call launches all nodes once, in order, then returns | refined by `ModelExecute` (`ImplementsOrderedRun`) |
| `InternalTensorPool`, `GraphTensorPool` | memory of internal tensors in `Model` and `GraphOperation` | one action per allocation, one per node executed |
| `BufferAssignment` | abstract: no two live tensors share a buffer | refined by both pools |
| `EventManager` | event_manager.cpp | PUSH, POP, and POP without an event at hand, which a later PUSH completes |
| `EventGraphBuilder` | the graph under construction, with events numbered as `EventManager` pairs them | pure operators |
| `DecoderModelDap` | builders of a DAP model | pure: `DapGraphs` is the set of graphs they make |
| `MicroBatchLayer` | builders of two-stream prefill layers, base and DeepSeek | pure: `MicroBatchGraphs` |
| `EventGraph` | the device: two streams run a graph several times | one action per node of a stream |
| `HcclRunner` | hccl_runner.cpp over share_memory.cpp | one action per system call or critical section of a process; crash and restart of all processes |
| `ExternalCommManager` | the managers of all ranks | one action per request of a rank |
| `GraphBuild` | what every builder works with: names, tensor packs, nodes, the tensor map | `Graph`, `EnumGraph`, `BuilderGraph` are the three ways the code makes an `atb::GraphParam` |
| `LinearBuilder`, `NormMlpBuilder`, `AttentionBuilder`, `FusionAttentionBuilder` | operations/fusion: linear, linear_parallel, norm_linear, mlp, rotary embedding, QKV split, attention, cross attention | pure: a record of the flags of a parameter to a graph |
| `MoeBuilder`, `ExpertParallelBuilder` | operations/fusion/moe: integrated_gmm, moe_mlp, shared expert, dynamic EP, sparse_moe | pure |
| `LatentAttentionBuilder` | models/deepseekv2/operation: latent attention, the ring of a prefill split over ranks, the merge of a decode split over ranks | pure |
| `DeepseekLayerBuilder` | models/deepseekv2/layer: what the ranks exchange around attention and experts, and the layer that follows from it, on one or two half-batches | pure; `Prepared` is what `DecoderLayer` computes first |
| `MoeLayerBuilder` | models/moe/layer: the layer of a dense model with experts and with the exchanges that the ranks need around both parts | pure; `MoePrepared` is what `BuildGraph` computes first |
| `BaseLayerBuilder`, `BaseModelBuilder` | models/base: layer, model (both batches), embedding, lm head | pure |
| `AtbOps` | how many tensors the operations of ATB and AclNN take, from how the code calls them | `Arity` of those that depend on a parameter |
| `GraphRun` | a graph that runs node by node, and the graphs among its nodes, each built with the parameter its parent gives it | `RunNode`; `Enter` |
| `AclNNOpTable` | operations/aclnn/ops: one record per class of operation | the slots `CreateAclNNInTensorVariantPack` fills, the arguments of the aclnn call, host data, `InferShape` |
| `AclNNOps` | AclNNOperation and AclNNOpCache around one of these | Setup (hit, create, fail), Execute with `UpdateAclNNVariantPack`, destruction |

`MCEventGraph` composes the builders with the device. That `EventManager` numbers events the way
`EventGraphBuilder` does (the n-th PUSH and the n-th POP of a key share one) is what its theorems
`Pairing` and `Binding` say for all orders of calls.
`GraphRun` composes the builders: a layer in the model is built with the parameter that the model's
builder makes for it, and so on down to the linear. `AclNNOps` has one operation and all details
of its tensors, `AclNNExecutorCache` many operations that share executors and no tensors.
The proofs are in `AclNNExecutorCacheProofs`, `AclNNOpsProofs`, `ModelExecuteProofs`, `InternalTensorPoolProofs`,
`GraphTensorPoolProofs`, `EventProofs` (of `EventManager` and `EventGraph`), `HcclRunnerProofs` and
`ExternalCommManagerProofs`.
Modules named `MC...` give TLC its instances.

Definitions marked "Mutant", or standing just before the definition of the code they deviate from,
are plausible mistakes. They are used by no specification; putting one in the place of the real
definition shows that a property depends on it.

## 3. Runs

| run | instance | shows |
|---|---|---|
| `executor_cache` | 3 operations of 2 names, 2 packs, 2 executor addresses, lists of 2 | counts are holders; no leak; hits are live and unique; what Execute uses fits; refinement |
| `double_destroy` | 3 operations whose derived destructor destroys too | **violation**: the executor goes while another operation holds it |
| `model_execute` | 3 nodes, 3 calls, levels 0 to 2, with and without RunTaskFunc, every failure | refinement of `OrderedRun`; packs are not rebuilt while in use; failures are reported, calls end, tasks are run |
| `internal_tensor_pool` | all well-used graphs of 4 nodes and 3 tensors, 2 calls | inputs intact, refinement, streams respected |
| `graph_tensor_pool` | all graphs of 4 nodes and 3 tensors that write before they read, 2 calls | the same without streams |
| `event_manager` | 6 calls in all orders on 2 keys | pairing and late binding |
| `event_graph` | DAP: up to 3 layers of up to 2 communications; prefill: up to 2 base layers (all combinations of skips and gathers) or 3 DeepSeek layers; 2 executions | pairing and the other ties (`GraphIsTied`), no lost signal, alternation, data flow, every execution ends |
| `decoder_model_dap_flash_comm` | DAP with enableFlashComm, one layer | **violation**: unpaired events |
| `hccl_runner` | 3 processes, 2 exchanges or one on each side of a crash, up to 2 kinds of failure | fresh information, matching barrier, segment removed, calls return |
| `graph_run` | layers under every quantisation and every pair of options, models, heads, experts, routing, shared experts, latent attention, DeepSeek and MoE layers under several layouts of ranks; 9 150 top graphs and all graphs inside them | names resolve, nothing is read before it is written, lost or computed for nothing, arguments arrive where they belong |
| `aclnn_ops` | every class of AclNN operation, every parameter that changes its tensors; 3 Setups | the call has this pack's addresses and host data, release; slots, lists and shapes fit together (`OperationIsSound`) |
| `external_comm_manager` | 4 ranks, 1 or 2 nodes, a first Init that may fail and 3 later requests, among them a second Init and worlds without a buffer size | groups meet, strangers do not, reuse |

### Bounds, and why they are enough

* Executor cache: three operations are needed for a holder to lose an executor through another
  operation while a third evicts it; two packs and two executor addresses for a reissued address
  to be mistaken for the old one; lists of two so that the common replacement index is wrong for
  the list of one name. The state is viewed up to the identity of cache objects (only their
  contents and holders matter to any action), and alike operations and executors are symmetric.
* `ModelExecute`: with three nodes the task thread can lag behind the caller and be at a node in
  the middle; with three calls a failure in the first is followed by a call that meets its
  leftovers and one that does not.
* `GraphRun`: options are switched on in pairs, over every value of those that matter everywhere
  (quantisation, prefill, parallelism). A clash of a map with a node needs the flag of the one and
  the flag of the other; the experts and the routing, whose conditions nest, have bases of up to
  four options below the pairs. Three layers give a first, a middle and a last one, and three ranks
  give the ring of context parallelism a first, a middle and a last place. DeepSeek's layer is at
  every place where its conditions differ (dense, first and later with experts, last), under layouts
  of one, two and four ranks that make every combination of exchanges `CalculateCommType` knows.
* `AclNNOps`: with three Setups an executor is made, reused at other addresses and replaced, or
  fails in between; two shapes and two values of host data tell a hit from a miss. Ranks are those
  the callers in this repository use.
* Pools: graphs are enumerated. With four nodes a tensor can be freed, its buffer taken and the
  new owner read; the second call starts with the addresses of the first and other descriptions.
  Graphs on two streams have at most two tensors.
* `EventGraph`: with three layers a protocol has a first, a middle and a last layer; the second
  execution starts with whatever the first leaves raised. `GraphIsTied` holds of every graph of the
  run and carries the other properties over to any number of executions (section 4).
* `HcclRunner`: the third rank is the one that comes late to the barrier of two others.
  `CallsReturn` is a liveness property and limits the instance to two calls. A restart begins a
  new program, so a run has two calls in one life or one in each of two.
* `ExternalCommManager`: four ranks have two ways to form pairs, which overlap. The counter can
  only go wrong by what one request reserves, and the range [2, 7) ends within three requests. A
  request for the world without a buffer size is the only one that finds what Init has stored.

`CHECK_DEADLOCK FALSE` stands where behaviours really end: the bounded number of calls is used up,
a graph has been executed, or a manager has thrown.

### Fairness

* `ModelExecute`: a thread that can run does (weak fairness of each thread); the operating system
  schedules them. Nothing obliges the caller to call Execute again.
* `EventGraph`: a stream whose next node can run runs it.
* `HcclRunner`: weak fairness of the steps of a process; strong fairness of `SemLock`, since a
  critical section ends and the semaphore is free again and again; weak fairness of the lock's
  time-out, a timed wait of 300 s. Failures are never obliged to happen, apart from that time-out.

## 4. Proofs

**Executor cache** (for every set of operations, names, packs, caches, executors and every size
of the global cache from 0 to 99, the values the constructor lets pass):

* `TypeCorrect`, `LookupSafe`, `NoLeak` hold even for operations that destroy twice.
  `CountCorrect` assumes `DoubleDestroyOps = {}`: with them the count is wrong, as the run
  `double_destroy` shows.
* `IInv` adds to the types that a repeatable cache object owns a live, counted executor which no
  other object owns, and every counted executor has such an object (`WellFormed`); and that no
  executor is counted more often than it is held, and exactly as often if no destructor destroys
  twice (`CountsHolders`). Each is needed by the other: an executor's address may be reissued once it is
  dead, so a wrong count would make two objects own the same address.
* `PendingAlone` is needed for Execute, after which CANN releases an
  executor that is not repeatable: no repeatable object and no other pending operation has it.
* `ExecutorFits` and `KeepsPromise` assume `DoubleDestroyOps = {}` too. Their invariant `FitInv` adds
  that a free cache object is empty, that an object which is not repeatable has one holder, and that
  lists and operations have objects of their own kind. All three are needed because Destroy empties an
  object only with its last reference: an object with two holders must be counted twice, so that the
  one that leaves does not empty it. Every action is shown to change what one operation holds and
  nothing of what the others hold (`OthersKeep`), which is also the step of `SharedExecutors`.
* `Destroy` and `Reclaim` have lemmas of their own about a *heap* (objects, counts, live
  executors); each action is a composition of them.

**Model execution** (any number of nodes and calls, every environment value, with and without a
RunTaskFunc, every failure): `TypeCorrect`, `KeepsPromise`, `PacksAreKept`, `FailuresAreReported`,
`PreparedOnReturn`, `NoVainWait`. A task is the number of a node and says nothing of the call it belongs to, and all
calls share one counter and one flag. So the invariant has to find a task's call and place again:

* `Places` and `Packs`: where the caller is, and that it has built the packs of the nodes it has
  passed. `Routes`: which mode uses which queue, and nobody has a task before the first node has run.
* `Reported`: the two statuses remember every failure of a task, and a later call comes no further
  than to look at them, at its first node. `FailuresAreReported` is a consequence.
* `Behind`: without a RunTaskFunc what other threads have to read belongs to nodes the caller has
  passed, so that `PacksAreKept` follows for the pack built next.
* `InOrder`: without a failure the threads form one pipeline, and the place of a task in the graph
  is its distance from the caller: through the worker's queue, the task queue and the task thread
  (`Numbered`). The nodes before that are launched (`LaunchedUpTo`) and counted (`Counted`), but for the
  first node of all, which is launched at once and whose placeholder comes through the queue later.
* `Preparing`: with a RunTaskFunc and pre-execution, calls whose Setup failed leave tasks behind in
  the worker's queue, for a call that returns early waits for nobody. The leftovers never include the last
  node, which alone lets a call return, so the call waits for its own tasks (`Line`).

* `Awaited` is the part that speaks of failures too, for `NoVainWait`: a thread that has stopped has raised
  the flag, or the caller will not get as far as to wait (`StopIsSeen`); what the task thread has counted
  and what is still under way, leftovers included, are as many as the caller has passed (`TasksAreLeft`);
  with a RunTaskFunc the worker still has the last node (`LastIsLeft`). So a caller that waits in
  `WaitAsyncPlanExecuteFinish` waits for a thread that has a task, unless a pre-execution failed or a
  RunTaskFunc gets a graph of one node, the two hazards named there. With the fairness of the threads
  this is what `ExecuteEnds` needs; the temporal formula itself stays with TLC.

`KeepsPromise` maps `busy` to a call under way, `launched` to the nodes launched in it and `broken`
to any failure; each step of each thread is a step of `OrderedRun` or a stutter (`PromiseStep`). TLC
checked the invariant on the run's instance.

**Memory of internal tensors** (any graph, number of nodes, tensors, streams, calls; any outputs per
node, where the runs have at most one): `InputsAreIntact` and `KeepsPromise` for both pools,
`RecyclesWithinStream` for `Model`. They assume what the runs' graphs satisfy: a node reads only what
an earlier one has written (`WrittenFirst`); for `Model`, also that what a node writes is read, by it or
later (`ReadLast`), since `InitTensorMaxNodeMap` counts readers only. The invariants rest on the
tensors that are *held*: still to be used, and written or about to be.

* Held tensors have different buffers (`HeldApart`), and these are in use (`HeldInUse`); a tensor that is
  freed was held and is dead after the node (`FreedAreDead`), so no other one loses its buffer.
* A node's inputs are where the variant pack found them before the outputs got their buffers
  (`InputsInUse`, `InputsAtHome`); the two places differ for a tensor that is read and written.
* `Model` writes in place what was created in this call on this stream, which is then held
  (`MadeAreHeld`). `GraphOperation` writes in place whatever the entry was made for, in use or not; so its
  invariant says that while the creator of an entry is alive nobody else has the entry (`CreatorFirst`).
* `ReadHere`: besides nodes of its own stream only readers of its holder have read a buffer. A tensor
  whose last reader is on another stream is looked for in the wrong pool and never freed, which
  wastes its buffer, and is what makes the recycled ones safe.

**AclNN operation** (any shapes, host data and number of Setups): `AddressesAreCurrent`, `HostDataStays`,
`NothingReleasedTwice`, for operations whose tensors are *well numbered* (`WellNumbered`): no two tensors have
one slot, every argument has one and is passed once, and the lists hold just the tensors whose slots name
them. That is enough, whatever sequence of hits, misses, failures and destructions follows.
`OperationsAreSound` says that every operation of the table has it, with all dimensions of its outputs
assigned: for tensors of any rank, any number of split results and every combination of parameters
(`KnownOperations`, which lists them and what their callers never ask for). So `OperationStaysSound` proves
`OperationIsSound` for any set of these operations, and `KnownOperationsRunWell` the other three invariants
with no condition on the operation. The run has ranks up to 4, and tells first when a slot in the table changes.

* An operation is sound if its two sides are (`SoundBySides`). Most keep the numbers of their tensors and
  differ in the call (`CallIsSound`); one tensor has another slot (`MovedIsSound`) or none (`KeptIsSound`),
  the slots are numbered anew (`SideNumbered`), two inputs are in lists (`KeyAndValueSide`), or all but
  one are (`OneEachSide`). Optional inputs that follow the required ones without gaps make slots that
  grow (`GrowsByOne`), however many are there.
* `RefreshedAddress`: refreshing well-numbered slots gives each argument its address in the new pack,
  whatever it was before, so nothing need be known of the executor's history.
* `DestroyReleases`: what Destroy releases is what the cache object was made with, but the loose objects;
  own and listed tensors are disjoint (`SideReleased`). It needs that a cache object's things are
  all there, which `ReleasedOnce` says, and that an object tells the Setup that made it (`ObjectsInv`).
* `CacheInv`: a Setup whose Execute is to come left a cache object with its host data: a hit compares
  them, and nobody changes the object in between. (Other operations share it in `AclNNExecutorCache`,
  whose `ExecutorFits` says the same of the pack.)

**EventManager** (any keys, any number of calls): `ManagerTypeCorrect`, `Pairing`, `Binding`. The
inductive invariant says what the queues hold: the events from `popped` to `pushed` of a key if
there are more PUSHes (`QueueInv`); the POPs that wait, in order, if there are more POPs
(`WaitingInv`), never both; and that an operation has its event exactly if the PUSH of its rank
has been made (`OpsInv`).

**EventGraph** (any graph that is *tied*, any number of executions): `SignalsStay`,
`BatchesAlternate`, `DataFlows`, `NeverStuck`. `WellTied` says of a graph, without running it, which events
it has: each leads from one RECORD to one WAIT on the other stream (`Paired`); one in the other
direction answers before it is recorded again (`Answered`); of two tasks on one unit an event hands the unit over
and another one back (`UnitsShared`); an event leads from a task to each later one on its data
(`DataOrdered`); and no two events cross so that each WAIT comes before the RECORD the other stream
waits for (`Uncrossed`). The run finds that all its graphs are tied (`GraphIsTied`), so together they
show the properties of these graphs for every number of executions, where the states show two. The
next theorems remove the bounds of the run on the graphs, too: `BuiltGraphsRunWell` says of the graphs of both builders,
of whatever size, that the device may run them as often as it likes.

* The invariant `EventsInTurn` counts: a stream has run a node `Times` often, an event is raised
  exactly while its RECORD is one ahead of its WAIT, and it is never further ahead. It is inductive
  only because a RECORD that is reached finds its event lowered (`NotRaised`).
* `BeforeHolds` and `BeforeNextHolds` turn a tie into an order of two nodes of different streams, in the
  same execution and over to the next; the theorems combine these.
* Fairness of the streams and `NeverStuck` give `ExecutionsEnd`, which stays with TLC as a temporal formula.

**DecoderModelDap** (any numbers of layers and of communications, without enableFlashComm, which is the second
finding): `DapGraphsAreTied`, every graph that `BuildGraph` makes is `WellTied`. Only naturalness of the two bounds is
assumed.

* Every node has a *label*: 8n + r is node r of the n-th communication of its stream, with r = 0 for the
  computation, 1, 3 and 4 for the RECORD before, the communication and the RECORD after, and so on.
  Labels grow along a stream (`Labelled`), and the label of an event tells its key and its rank.
* `TiedByLabels` says between which labels events lead; that they order what they must is then arithmetic
  (`BeforeByLabels`, `AnsweredByLabels`, `UncrossedByLabels`). A graph that has just the labels of m communications
  (`DapGraph`) is tied by them (`DapTiedByLabels`) and therefore `WellTied` (`DapWellTied`), for every m > 0.
* The builder is followed call by call. `StreamAt` says what labels a stream under construction has, `BatchAt` that a batch is
  between two communications: its counter, its calls of PUSH or POP, and its labels agree on how many it has had.
  One lemma per builder operation takes it a step further; `LayerPoint` holds between two layers, of both
  batches with the same number. It is what the reset of the counter makes true at first and what lets the
  PRECEDER's one WAIT less and the SUCCESSOR's one WAIT more match for all layers.
* The folds over layers and communications are recursive functions. What they compute is shown with `UpTo` (a subset
  of 0..n that has 0 and every successor has n) and `Iterated` (the function exists), both from the
  library's well-founded induction through sets, without an operator as a parameter.

**MicroBatchLayer** (any sequence of base and DeepSeek layers): `MicroBatchGraphsAreTied`, every graph is `WellTied`,
and with the theorem above `BuiltGraphIsTied`, for the graphs handed to the device. `FullLayers` are the layers the run
takes: a base layer that does not skip both parts and whose parts end in a communication, a DeepSeek layer whose dense part
reduces or whose experts scatter and gather (the others pop more or less often than they push).

* The witness is the sequence `h` of half-batches in the order of their computation over all layers (`GoodHalves`). Labels
  number the halves, not the layers, because a half on stream 1 is taken back only after the next one is computed; only
  `cc_start` counts layers (`MicroEvent`), so it occurs at the first half of each (`First`).
* A call is made in one of three states: `Boundary` between layers, `Handed` with a half on stream 1, `Open` with a half
  that stream 1 has ended and stream 0 has not taken back. `MicroPoint` ties the labels of both streams to the counters; it is
  one half ahead on stream 1 in `Open`, which is why the hand-over at the end of a layer is needed.
* `inited` is FALSE in `Boundary` and TRUE in `Open`, so the first pop of a layer starts both streams and every later one hands
  over (`BoundaryStarts`, `OpenGoesOn`). The layers are then chains of these steps (`BaseLayerKeeps`, `DeepseekLayerKeeps`).

**HcclRunner** (any ranks, segments, calls, restarts and failures): `TypeCorrect`, `RootInfoIsFresh`,
`NoSegmentStays`, `BarrierIsSafe`. The invariant has these parts:

* `Local`, what a process knows whatever the others do, and `Filled`, a signalled segment has a
  root information. Neither needs the semaphore.
* `Mutex`: who is in a critical section holds the semaphore, alone. It holds until a lock times
  out, since the code then goes on without it, and so do the next three.
* `OneSegment`: all attached processes are attached to one segment. It needs the semaphore between
  shmget and shmat.
* `Fresh`: a segment in use has nothing in it from an earlier run, as the first to attach clears it.
* `Exchange`: flags are set only by those who know the root information, and nobody leaves
  `HcclCommInitRootInfo` while the segment is in use; so no exchange overlaps the next.
* `Removable`: some process that will look whether it is the last still has the segment. It holds
  without mutual exclusion, since the kernel counts those attached.

**ExternalCommManager** (any world, strategies, bounds of the domains and sequences of requests):
`TypeCorrect`, `RanksMeet`, `StrangersStayApart`, `GroupsStayShared`. The ranks run at their own pace, so
at no moment do their variables agree. What they share is the order of the requests, and the
invariant speaks about histories:

* `Agrees`: the domains a rank got so far determine its counter (`CounterAt`), its cache (`CacheAt`) and
  whether it has a global communicator (`GlobalAt`); and each of its domains is decided by the
  request and by what the requests before it led to (`Decided`). A new domain differs from all earlier ones
  (`FirstIsNew`), and a repeated one goes to the same use (`SharedUse`).
* `Lockstep`: as far as two ranks have come, their domains are of the same kinds, the first number of each
  self-assigned one is the same, and so is the domain itself if they are in one group. It is inductive
  only with `Agrees`: the rank behind decides as the one ahead has decided, since what they decided
  from is alike.
* `RanksMeet` is a part of `Lockstep`. For `StrangersStayApart` the numbers that two requests take are
  disjoint intervals, of which every group has one number: that needs groups of one size, numbered
  below `WorldSize \div SizeOf(t)` (`UniformMapping`). `GroupsStayShared` follows from the history of one rank.

TLC checked the invariant on the run's instance with the ranks one after another.

Assumptions are the named ASSUMEs of the modules (constants are of the right kind, `Null` is no
object, the operations are finitely many); TLC evaluates them in every run.

Only model-checked: the graphs of `GraphRun`, which are facts about data built by folds over configurations.
Liveness (`ExecuteEnds`, `TasksAreRun`, `ExecutionsEnd`, `CallsReturn`) needs fairness and ENABLED. Both
are beyond the prover and stay with TLC.

## 5. What the code does otherwise than it says

Two findings, each shown by a run (details in `PROJECT.json`):

1. *double_destroy*: 36 destructors call `DestroyOperation`, and the base destructor calls it
   again, so an operation gives up two references (operations/aclnn/ops/matmul_operation.cpp:41).
2. *decoder_model_dap_flash_comm*: `AddReduceScatterOp` inserts the events before the
   communication twice and never those after it (operations/fusion/linear/linear_parallel.cpp:224).

Met on the way and not the subject of a run:

* The comment at core/base/model.cpp:185 calls the level-2 pipeline the default, but with the
  variable unset line 187 disables it.
* A Setup that fails half way leaves aclTensors that `Destroy` does not release, since it returns
  at once without an executor (operations/aclnn/core/acl_nn_operation_cache.cpp:27); lists, arrays
  and scalars that `SetAclNNWorkspaceExecutor` makes for itself are never released.
* `ShareMemory` never sets `fullName_`, so the semaphore is never unlinked; a process that dies
  with it leaves it at zero. `SemLock` goes on, and posts, also after EINTR.
* `globalCacheCountMax_` has 16 bits and is checked after the conversion, and 100 is rejected
  though the header allows it (operations/aclnn/core/acl_nn_global_cache.cpp:37).
* The property `ExecuteEnds` stops at a failed pre-execution: there the caller can spin in
  `WaitAsyncPlanExecuteFinish` for ever (hazard core/base/model.cpp:481). Likewise a graph of one
  node with a RunTaskFunc and pre-execution (core/base/model.cpp:495).
* `BarrierMeansExchanged` and `InfoIsOfThisRun` stop at a time-out that separates the ranks
  (`Together`): a rank that tries again then meets the flags of the old exchange.
* A group whose size does not divide the world reserves too few names
  (core/base/external_comm_manager.cpp:181; excluded by `UniformMapping`).
* Init without HCCL looks for the world with a buffer size of 200 and stores what it finds with none
  (core/base/external_comm_manager.cpp:99 and 103), so the users of one domain may have asked for different buffers
  (`SameUse`).
* An Init that fails leaves its entry under the empty name. A request for the world that matches it
  counts as not found for ever (line 157), and each opens a communicator of its own (`FailedBefore`).
* In pure tensor parallelism the expert layer of DeepSeek pops twice for every push
  (models/deepseekv2/layer/decoder_layer.cpp:1773 and 1880, linear_parallel.cpp:259 and 1323).
* "When n_group == 1, grouptopk degrades to the ordinary topk" (operations/fusion/moe/sparse_moe.cpp:617),
  but the line below tests the number of groups that are chosen.
* `shuffle_idx_2` is computed and read by nobody (operations/fusion/moe/dynamic_ep_moe.cpp:357).

### What the builders ask of their callers and do not check

`MCGraphRun` and `MCAclNNOps` leave these combinations out; each is a place where a graph would name a tensor
that does not exist, read one that is not written, or pass one more or fewer than is taken.
Whether a model sets such a combination is decided by the configuration files of the framework.

| combination | what happens | where |
|---|---|---|
| enableRopeQuantKvcache without KV quantisation | scales in no map | fusion_attention.cpp |
| FA3 with split fuse in prefill | reads `q_int8`, in no map | fusion_attention.cpp |
| enableReduceQuant with flash comm, or with quantised linears | the reduce inputs are pushed under one condition and taken under another | mlp.cpp:442, fusion_attention.cpp:1119, linear_parallel.cpp:166 |
| inter-layer add norm without the one inside the layer, or with LAYER_NORM | `out` is not written; AddRmsNorm gets a fourth input | base/layer/decoder_layer.cpp |
| LoRA with quantised linears, with query and key norms, or with flash comm | arity, and the order of the packs | qkv_linear_split.cpp:102, fusion_attention.cpp:746 |
| compressed heads with omni attention or absolute positions | the same input twice | base/layer/decoder_layer.cpp |
| two streams, skipped halves or add norm with data parallel attention | gathered rows read and not written | base/layer/decoder_layer.cpp:1158 |
| flash comm without word embedding, or with data parallel attention | `hidden_states` in no map; an all-gather nobody reads | decoder_model.cpp:585 |
| no word embedding with data parallel attention and an MLP in tensor parallelism | the final norm reads the embedding | decoder_model.cpp:1024 |
| greedy post-processing | `logits_offset_tensor` in no map | decoder_model.cpp:1160 |
| head: argmax with context parallelism, row parallelism, or outputs not gathered first | two tensors with one number; more names than declared | lmhead.cpp, linear_parallel.cpp |
| InitRoutingV3 with expert parallelism or cutoff | reads `group_list`, in no map; excluded at deepseekv2/layer/decoder_layer.cpp:1086, not at models/moe/layer/decoder_layer.cpp:682 | dynamic_ep_moe.cpp, moe_mlp.cpp |
| initial quantisation or cutoff without fused routing; expert parallelism without fused routing | the filter runs and its result is not used | moe_mlp.cpp, dynamic_ep_moe.cpp |
| GMM with SwiGLU other than W8A8 per token, or with bias; quantised SwiGLU with split activation | scales in no map | moe_mlp.cpp |
| cumulated expert sums with communication inside the operation | the output is not written | dynamic_ep_moe.cpp |
| data parallel gating with redundant experts, load balance or distribution | results ignored, `reduced_fp16` in no map | sparse_moe.cpp |
| mixed shared routing without redundant experts or with the fused top-k | arity | sparse_moe.cpp |
| pre-norm quantisation of shared experts | 7 inputs for 8; no caller sets it | shared_expert.cpp |
| W8A8 with its bias both dequantised outside and inside; IndexGmm with a bias or another quantisation | bias dropped; another library call than the one set up | w8a8_operation.cpp, grouped_matmul_operation.cpp |
| attention without a mask over paged memory | reads past the inputs | fused infer attention |
| quantised dispatch with smooth scales | one input passed twice, refreshed once | moe_distribute_dispatch |
| negative dimensions | index before the array | index_select_operation.cpp:80 |

Latent attention (models/deepseekv2/operation/latent_attention.cpp, where no other file is named):

| combination | what happens |
|---|---|
| preprocessing with communication inside, without dividing the down projection | names in no map |
| dividing the down projection without gathering the rows of the feed-forward (deepseekv2/layer/decoder_layer.cpp:1930 excludes it) | the rows are gathered and nobody reads them |
| dividing it without q LoRA, or in decode with fused preprocessing | declared tensors are not written |
| no q LoRA, or preprocessing with communication inside, with W8A8 per token | 7 inputs for 8 |
| fused preprocessing without q LoRA | names in no map |
| fused preprocessing with transposed rotation | `rope_q_t`, `rope_k_t` are not written |
| prefill with context parallelism and prefix cache | `kv_cp` is read and not written |
| the same with fused MLA | `intermediate_q` in no map |
| the same with FA3 | the quantised keys and values are read by nobody |
| W8A8SC with the output projection on a group of its own | the quantised rows are read by nobody |
| unpadded heads with the output projection on a group of its own and W8A8, or fused with its communication | tensors read by nobody, `o_unpad` not written |
| output projection both in tensor and in inner tensor parallelism | `linear_out` in no map (linear_parallel.cpp:104, 431) |
| customised MLA with context parallelism and no sequence parallelism, or with speculation and sequence parallelism | 2 outputs for 1 |
| no rotation | `rope_q_o` is read and not written |

W4A8 was not tried there.

DeepSeek's layer (models/deepseekv2/layer/decoder_layer.cpp):

| combination | what happens | where |
|---|---|---|
| rows gathered but not scattered after the attention, without enableGatherPreNorm | the residual is padded and sliced and nobody reads it | 1768, 750 |
| enableIntraLayerAddNorm with a scattered attention | the attention's rows are read by nobody | 940 |
| the same on two half-batches | the second half adds the attention of the first | 945 |
| enableExtraOprojTp with an exchange around the attention, or with a divided down projection | `norm_out_partial` is read and not written, `norm_out` written twice | 1645, 1861 |
| enableExtraOprojTp with an all-reduce of the attention, its projection not fused with it | `linear_out` in no map | linear_parallel.cpp:104 |
| enableSharedExpertDp without a reduce-scatter of the feed-forward | the shared expert's result is dropped; it reads `norm_out_partial`, in no map | 1628, 1891 |
| enableSharedExpertOverlap without enableSharedExpertDp (models/moe/model/decoder_model.cpp:556 excludes it), or in decode with the weights of prefill and decode | the shared expert reads rows that are gathered after it | 1810, 1215 |
| enableGatingDp without an exchange around the attention or without expert parallelism | `norm_out_partial`, `filtered_experts` in no map | 1120 |
| a divided down projection with a dense layer that all ranks share (isMlpFullTP) | isGatherPreNorm asks whether it is the first layer with experts, SetPostAttnProcess whether it is a later one: `norm_out_fp32` in no map | 227, 1790 |
| cumulated expert sums on two half-batches | both halves write the same output | 1120 |

The layer of the other models with experts (models/moe/layer/decoder_layer.cpp):

| combination | what happens | where |
|---|---|---|
| enableIntraLayerAddNorm with an exchange after the attention | `BuildGraph` turns the switch on in the layer's own parameter; the dense layer's parameter keeps the caller's. With the caller's switch on, `InsertNorm` adds the residual once more and asks for `intermediate_rstd`, in no map; a norm with bias has one input too many besides | 239, 443, 484 |
| inter-layer add norm, KV quantisation, FA3, LoRA, enableReduceQuant, compressed heads, omni attention, flash comm, weight prefetch | the attention asks for inputs that this layer's list does not have | 152 |
| load balance, EPWB, data parallel gating in prefill, cumulated expert sums | the operation of the experts has inputs or outputs that `AddMoe` does not pass | 733 |
| the fused top-k, always on, without processing of the logits | the fused top-k writes `router_weights_topk_reduced_fp32`, in no map (sparse_moe.cpp:132, 373) | 243 |
| a last layer that is dense, in data and tensor parallelism | the reduce-scatter reads a padding that is not written | 953 |

Two leftovers of this layer do no harm and are allowed for in `GraphIsComplete`: `norm_rstd_out` is
declared also where the norm is not fused (`OfFusedNorm`), and `hidden_states` is sliced also where
the attention only gathers (`OfSlice`).

## 6. What the plan has left

The graph builders of operations/fusion and of the base model, the AclNN operations and the runtime
are modelled. Next would come, in this order:

1. **Layers of other families** (Qwen, GLM, OneRec, DeepSeek's sparse attention) and the MoE model: builders
   over the same `GraphBuild`, with the operations they pass parameters to already there.
2. **PyTorch adapter**: `OperationTorch` with a RunTaskFunc and the shared workspace (the pack that
   Clear empties, the buffer that grows while tasks are queued); reshaping in `GraphOperation`.
3. **Proofs**: of `GraphRun`, that a graph whose names and order are sound reads nothing before it is written,
   however its parts are nested.

## 7. Not modelled, and why

* Dimension values, data types, weights and numerics: no control depends on them, apart from what
  `IsVariankPackEqual` compares (a pack), what a buffer must fit (a description) and the rank.
* Builders nothing calls: parallel_layer, mlp_gate, parallel_lmhead, attention_edge,
  device_limited_routing. In integrated_gmm the overlap of cube and vector work, which pushes a
  RECORD beyond the nodes it declares; the reshape functions of nodes.
* The sparse attention of DeepSeek, the MoE model, the layers of other model families, the PyTorch adapter and atb_torch apart from
  `GraphOperation`: see section 6.
* Pipeline parallelism of the base model: `AddSend` and `AddRecv` are never called there.
* All-gathers that no event of DAP wraps (models/base/model/decoder_model.cpp:1050).
* Logging, timers, file and string helpers, registries, bindings: no state a property is about.
* `Model`'s destructor: the task thread has no way to stop, so there is no behaviour after it.
* Two threads building models at the same time: `EventManager` does not separate their keys, so
  nothing could be said of the result (hazard core/base/event_manager.cpp:182).
* Device, CANN, HCCL, ATB and the framework's queue are outside the repository; they are modelled
  by how the code uses them: an executor address may be reissued when dead, a stream runs its
  nodes in order, the queue runs its tasks one at a time and ignores their status, the
  initialisation of a communicator returns when all ranks have called it with one root information.
  That a slot number is CANN's number of a parameter is outside the model: `ArgumentsAreCurrent`
  says that each refresh reaches the slot of the tensor it is for.
