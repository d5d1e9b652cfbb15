------------------------- MODULE InternalTensorPool -------------------------
(***************************************************************************)
(* How Model gives memory to the internal tensors of its graph             *)
(* (core/base/model.cpp).  Before a node runs, every internal tensor it    *)
(* writes gets a buffer: the one it has, when an earlier node of the same  *)
(* stream created it for this tensor; else a buffer of that stream that is *)
(* free and has the right description; else a new one.  Then the internal  *)
(* tensors no later node reads are freed, in the pool of the node's        *)
(* stream.  IsLayerInternalTensorReuse is always on (core/utils/           *)
(* config.cpp).                                                            *)
(*                                                                         *)
(* A buffer is its device address.  Between calls of Execute the pool is   *)
(* cleared and the allocator may give an old address out again, while the  *)
(* tensors of the graph keep the addresses they had.  Nodes run in the     *)
(* order they are prepared.                                                *)
(***************************************************************************)
EXTENDS Integers, Sequences, FiniteSets

CONSTANTS
  Tensors,     \* internal tensors of the graph
  Streams,     \* stream ids
  Descs,       \* tensor descriptions InferShape may give
  Addresses,   \* device addresses of createTensorFromTensorDescFunc_
  NodeCount,
  Graphs,      \* graphs to consider: sequences of [ins, outs, stream]
  MaxCalls,    \* bound: calls of Execute
  Null

ASSUME NullAssumption == Null \notin Addresses
ASSUME NodeCountAssumption == NodeCount \in Nat \ {0}
ASSUME MaxCallsAssumption == MaxCalls \in Nat
ASSUME GraphsAssumption ==
  Graphs \subseteq [1 .. NodeCount -> [ins : SUBSET Tensors, outs : SUBSET Tensors,
                                       stream : Streams]]

VARIABLES
  graph,            \* graph_.nodes
  desc,             \* what InferShape says of each internal tensor in this call
  call,             \* number of calls of Execute so far
  node,             \* loop variable of Execute; NodeCount + 1: no call is running
  toWrite,          \* internal outputs of the node that have no buffer yet
  internalTensors,  \* internalTensors_: per stream, the buffers of this call
  nodeOutTensors,   \* nodeOutTensors_: per stream, the tensors buffers were made for
  deviceData,       \* address each tensor holds, Null at first
  variantIn,        \* addresses of the tensors as the node's variant pack has its inputs
  readBy,           \* history: per address, the streams of the nodes that read it in this call
  contents,         \* history: per address, the tensor and node last written
  writer            \* history: per tensor, the node that last wrote it in this call; 0: none

vars == <<graph, desc, call, node, toWrite, internalTensors, nodeOutTensors, deviceData,
          variantIn, readBy, contents, writer>>

Nodes == 1 .. NodeCount
Entries == [addr : Addresses, desc : Descs, used : BOOLEAN]

TypeOK ==
  /\ graph \in Graphs
  /\ desc \in [Tensors -> Descs]
  /\ call \in 0 .. MaxCalls
  /\ node \in 1 .. NodeCount + 1
  /\ toWrite \subseteq Tensors
  /\ internalTensors \in [Streams -> Seq(Entries)]
  /\ nodeOutTensors \in [Streams -> SUBSET Tensors]
  /\ deviceData \in [Tensors -> Addresses \cup {Null}]
  /\ variantIn \in [Tensors -> Addresses \cup {Null}]
  /\ readBy \in [Addresses -> SUBSET Streams]
  /\ contents \in [Addresses -> (Tensors \cup {Null}) \X (0 .. NodeCount)]
  /\ writer \in [Tensors -> 0 .. NodeCount]

Readers(g, t) == {n \in Nodes : t \in g[n].ins}

(* Mutant: the first reader is taken for the last.                         *)
MaxNodeIdEarly(g, t) ==
  IF Readers(g, t) = {} THEN 1 ELSE CHOOSE n \in Readers(g, t) : \A m \in Readers(g, t) : n <= m

(* InitTensorMaxNodeMap: the last node that reads t, or the first node of  *)
(* the graph when none does.                                               *)
MaxNodeId(g, t) ==
  IF Readers(g, t) = {} THEN 1 ELSE CHOOSE n \in Readers(g, t) : \A m \in Readers(g, t) : m <= n

Init ==
  /\ graph \in Graphs
  /\ desc \in [Tensors -> Descs]
  /\ call = 0
  /\ node = NodeCount + 1
  /\ toWrite = {}
  /\ internalTensors = [s \in Streams |-> <<>>]
  /\ nodeOutTensors = [s \in Streams |-> {}]
  /\ deviceData = [t \in Tensors |-> Null]
  /\ variantIn = [t \in Tensors |-> Null]
  /\ readBy = [a \in Addresses |-> {}]
  /\ contents = [a \in Addresses |-> <<Null, 0>>]
  /\ writer = [t \in Tensors |-> 0]

-----------------------------------------------------------------------------
Stream == graph[node].stream
Pool == internalTensors[Stream]
Addrs(pool) == {pool[i].addr : i \in DOMAIN pool}

(* createTensorFromTensorDescFunc_: memory that nothing in the pool has.   *)
FreshAddresses == Addresses \ UNION {Addrs(internalTensors[s]) : s \in Streams}

(* Execute clears the pool and starts with the first node.                 *)
ExecuteStart ==
  /\ node = NodeCount + 1
  /\ call < MaxCalls
  /\ call' = call + 1
  /\ desc' \in [Tensors -> Descs]
  /\ node' = 1
  /\ toWrite' = graph[1].outs
  /\ internalTensors' = [s \in Streams |-> <<>>]
  /\ nodeOutTensors' = [s \in Streams |-> {}]
  /\ readBy' = [a \in Addresses |-> {}]
  /\ writer' = [t \in Tensors |-> 0]
  /\ variantIn' = deviceData
  /\ UNCHANGED <<graph, deviceData, contents>>

(* MallocInternalTensor for output t, in three cases.                      *)
WriteInPlace(t) ==
  /\ t \in nodeOutTensors[Stream]
  /\ toWrite' = toWrite \ {t}
  /\ UNCHANGED <<graph, desc, call, node, internalTensors, nodeOutTensors, deviceData,
                 variantIn, readBy, contents, writer>>

(* Mutant: buffers in use are taken too.                                   *)
ReusableInUse(t) == {i \in DOMAIN Pool : Pool[i].desc = desc[t]}

Reusable(t) == {i \in DOMAIN Pool : ~Pool[i].used /\ Pool[i].desc = desc[t]}

UseOld(t) ==
  /\ t \notin nodeOutTensors[Stream]
  /\ Reusable(t) # {}
  /\ LET i == CHOOSE i \in Reusable(t) : \A j \in Reusable(t) : i <= j IN
     /\ internalTensors' = [internalTensors EXCEPT ![Stream][i].used = TRUE]
     /\ deviceData' = [deviceData EXCEPT ![t] = Pool[i].addr]
  /\ toWrite' = toWrite \ {t}
  /\ UNCHANGED <<graph, desc, call, node, nodeOutTensors, variantIn, readBy, contents, writer>>

CreateNew(t) ==
  /\ t \notin nodeOutTensors[Stream]
  /\ Reusable(t) = {}
  /\ \E a \in FreshAddresses :
       /\ internalTensors' = [internalTensors EXCEPT
                                ![Stream] = Append(@, [addr |-> a, desc |-> desc[t], used |-> TRUE])]
       /\ deviceData' = [deviceData EXCEPT ![t] = a]
  /\ nodeOutTensors' = [nodeOutTensors EXCEPT ![Stream] = @ \cup {t}]
  /\ toWrite' = toWrite \ {t}
  /\ UNCHANGED <<graph, desc, call, node, variantIn, readBy, contents, writer>>

MallocInternalTensor(t) == t \in toWrite /\ (WriteInPlace(t) \/ UseOld(t) \/ CreateNew(t))

LastUsed == {t \in Tensors : MaxNodeId(graph, t) = node}

(* Mutant: the address is looked for in the pools of all streams.          *)
FreeInAllStreams(freed) ==
  [s \in Streams |->
     [i \in DOMAIN internalTensors[s] |->
        [internalTensors[s][i] EXCEPT
           !.used = @ /\ internalTensors[s][i].addr \notin {deviceData[t] : t \in freed}]]]

(* FreeInternalTensor of every tensor in freed: its address is looked for  *)
(* in the pool of the node's stream.                                       *)
FreeInternalTensors(freed) ==
  [internalTensors EXCEPT ![Stream] =
     [i \in DOMAIN Pool |->
        [Pool[i] EXCEPT !.used = @ /\ Pool[i].addr \notin {deviceData[t] : t \in freed}]]]

(* All outputs have buffers: BuildNodeVariantPack frees what is used for   *)
(* the last time, and the node runs.                                       *)
ExecuteNode ==
  /\ node \in Nodes
  /\ toWrite = {}
  /\ internalTensors' = FreeInternalTensors(LastUsed)
  /\ contents' = [a \in Addresses |->
       IF \E t \in graph[node].outs : deviceData[t] = a
       THEN <<CHOOSE t \in graph[node].outs : deviceData[t] = a, node>> ELSE contents[a]]
  /\ readBy' = [a \in Addresses |->
       IF \E t \in graph[node].ins : variantIn[t] = a THEN readBy[a] \cup {Stream} ELSE readBy[a]]
  /\ writer' = [t \in Tensors |-> IF t \in graph[node].outs THEN node ELSE writer[t]]
  /\ node' = node + 1
  /\ toWrite' = IF node < NodeCount THEN graph[node + 1].outs ELSE {}
  /\ variantIn' = deviceData
  /\ UNCHANGED <<graph, desc, call, nodeOutTensors, deviceData>>

Next == ExecuteStart \/ (\E t \in Tensors : MallocInternalTensor(t)) \/ ExecuteNode

Spec == Init /\ [][Next]_vars

-----------------------------------------------------------------------------
(* The tensors whose value is needed now: written in this call, or about   *)
(* to be by the node with a buffer at hand, and read by it or a later one. *)
Assigned == IF node \in Nodes THEN graph[node].outs \ toWrite ELSE {}
Live ==
  IF node \in Nodes
  THEN {t \in Tensors : writer[t] # 0 /\ \E n \in Readers(graph, t) : n >= node} \cup Assigned
  ELSE {}

(* Whenever a node runs, each internal tensor it reads is still where the  *)
(* last writer put it, and no output of the node is there but its own.     *)
InputsIntact ==
  node \in Nodes =>
    \A t \in graph[node].ins : writer[t] # 0 =>
      /\ contents[variantIn[t]] = <<t, writer[t]>>
      /\ \A u \in Assigned \ {t} : deviceData[u] # variantIn[t]

(* A buffer that nodes of another stream have read is not written anew by  *)
(* this one, which nothing makes wait for them: true of graphs in which a  *)
(* tensor that leaves its stream is not read there again later.            *)
LeavesForGood(g) ==
  \A t \in Tensors : \A m, n \in Nodes :
    t \in g[m].outs /\ n \in Readers(g, t) /\ g[n].stream # g[m].stream =>
      g[MaxNodeId(g, t)].stream # g[m].stream
RecycledWithinStream ==
  [][LeavesForGood(graph) =>
       \A t \in toWrite : UseOld(t) => readBy[deviceData'[t]] \subseteq {Stream}]_vars

(* The pool implements BufferAssignment.                                   *)
Promise == INSTANCE BufferAssignment WITH
  Tensor <- Tensors, Buffer <- Addresses, NoBuffer <- Null,
  live <- Live, buffer <- deviceData

ImplementsBufferAssignment == Promise!Spec
=============================================================================
