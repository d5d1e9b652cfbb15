-------------------------- MODULE GraphTensorPool --------------------------
(***************************************************************************)
(* How GraphOperation gives memory to the internal tensors of a graph it   *)
(* executes node by node (pytorch/atb_torch/core/base/graph_operation.cpp).*)
(* Unlike Model it has one list of cached torch tensors, searched in order *)
(* for one that was made for the same tensor or that is free and fits,     *)
(* whichever comes first; and it frees a tensor after the last node that   *)
(* reads or writes it.                                                     *)
(***************************************************************************)
EXTENDS Integers, Sequences, FiniteSets

CONSTANTS
  Tensors, Descs, Addresses, NodeCount,
  Graphs,      \* graphs to consider: sequences of [ins, outs]
  MaxCalls,    \* bound: calls of ExecuteAtbTensor
  Null

ASSUME NullAssumption == Null \notin Addresses
ASSUME NodeCountAssumption == NodeCount \in Nat \ {0}
ASSUME MaxCallsAssumption == MaxCalls \in Nat
ASSUME GraphsAssumption ==
  Graphs \subseteq [1 .. NodeCount -> [ins : SUBSET Tensors, outs : SUBSET Tensors]]

VARIABLES
  graph,              \* executeGraph_->nodes
  desc,               \* what InferShape says of each internal tensor in this call
  call, node,
  toWrite,            \* internal outputs of the node that have no buffer yet
  cachedTorchTensors, \* executeGraph_->cachedTorchTensors
  deviceData,         \* address each internal tensor holds
  variantIn,          \* addresses of the tensors as the node's variant pack has its inputs
  contents, writer    \* history, as in InternalTensorPool

vars == <<graph, desc, call, node, toWrite, cachedTorchTensors, deviceData, variantIn,
          contents, writer>>

Nodes == 1 .. NodeCount
Entries == [addr : Addresses, desc : Descs, used : BOOLEAN, atbTensor : Tensors]

TypeOK ==
  /\ graph \in Graphs
  /\ desc \in [Tensors -> Descs]
  /\ call \in 0 .. MaxCalls
  /\ node \in 1 .. NodeCount + 1
  /\ toWrite \subseteq Tensors
  /\ cachedTorchTensors \in Seq(Entries)
  /\ deviceData \in [Tensors -> Addresses \cup {Null}]
  /\ variantIn \in [Tensors -> Addresses \cup {Null}]
  /\ contents \in [Addresses -> (Tensors \cup {Null}) \X (0 .. NodeCount)]
  /\ writer \in [Tensors -> 0 .. NodeCount]

Readers(g, t) == {n \in Nodes : t \in g[n].ins}
Users(g, t) == {n \in Nodes : t \in g[n].ins \cup g[n].outs}

(* Mutant: only readers count, as in Model.                                *)
MaxNodeIdOfReaders(g, t) ==
  IF Readers(g, t) = {} THEN 1 ELSE CHOOSE n \in Readers(g, t) : \A m \in Readers(g, t) : m <= n

(* InitTensorMaxNodeMap.                                                   *)
MaxNodeId(g, t) ==
  IF Users(g, t) = {} THEN 1 ELSE CHOOSE n \in Users(g, t) : \A m \in Users(g, t) : m <= n

Init ==
  /\ graph \in Graphs
  /\ desc \in [Tensors -> Descs]
  /\ call = 0
  /\ node = NodeCount + 1
  /\ toWrite = {}
  /\ cachedTorchTensors = <<>>
  /\ deviceData = [t \in Tensors |-> Null]
  /\ variantIn = [t \in Tensors |-> Null]
  /\ contents = [a \in Addresses |-> <<Null, 0>>]
  /\ writer = [t \in Tensors |-> 0]

-----------------------------------------------------------------------------
(* ExecuteAtbTensor, up to its loop.                                       *)
ExecuteStart ==
  /\ node = NodeCount + 1
  /\ call < MaxCalls
  /\ call' = call + 1
  /\ desc' \in [Tensors -> Descs]
  /\ node' = 1
  /\ toWrite' = graph[1].outs
  /\ cachedTorchTensors' = <<>>
  /\ variantIn' = deviceData
  /\ writer' = [t \in Tensors |-> 0]
  /\ UNCHANGED <<graph, deviceData, contents>>

Pool == cachedTorchTensors

(* The entries MallocInternalTensor may stop at.                           *)
MadeFor(t) == {i \in DOMAIN Pool : Pool[i].atbTensor = t}

(* Mutant: buffers in use are taken too.                                   *)
ReusableInUse(t) == {i \in DOMAIN Pool : Pool[i].desc = desc[t]}

Reusable(t) == {i \in DOMAIN Pool : ~Pool[i].used /\ Pool[i].desc = desc[t]}

(* The search ends at the first of them; an entry made for the tensor is   *)
(* written in place and stays as it is.                                    *)
UseCached(t) ==
  /\ MadeFor(t) \cup Reusable(t) # {}
  /\ LET found == MadeFor(t) \cup Reusable(t)
         i     == CHOOSE i \in found : \A j \in found : i <= j
     IN  /\ cachedTorchTensors' =
              [Pool EXCEPT ![i].used = IF i \in MadeFor(t) THEN @ ELSE TRUE]
         /\ deviceData' = [deviceData EXCEPT ![t] = Pool[i].addr]
  /\ toWrite' = toWrite \ {t}
  /\ UNCHANGED <<graph, desc, call, node, variantIn, contents, writer>>

(* CreateAtTensorFromTensorDesc: memory that no cached tensor has.         *)
FreshAddresses == Addresses \ {Pool[i].addr : i \in DOMAIN Pool}

CreateNew(t) ==
  /\ MadeFor(t) \cup Reusable(t) = {}
  /\ \E a \in FreshAddresses :
       /\ cachedTorchTensors' =
            Append(Pool, [addr |-> a, desc |-> desc[t], used |-> TRUE, atbTensor |-> t])
       /\ deviceData' = [deviceData EXCEPT ![t] = a]
  /\ toWrite' = toWrite \ {t}
  /\ UNCHANGED <<graph, desc, call, node, variantIn, contents, writer>>

MallocInternalTensor(t) == t \in toWrite /\ (UseCached(t) \/ CreateNew(t))

LastUsed == {t \in Tensors : MaxNodeId(graph, t) = node}

(* FreeGraphInternalTensor.                                                *)
FreeGraphInternalTensor ==
  [i \in DOMAIN Pool |->
     [Pool[i] EXCEPT !.used = @ /\ Pool[i].addr \notin {deviceData[t] : t \in LastUsed}]]

(* The rest of BuildSingleNodeVariantPack, and ExecuteSingleNode.          *)
ExecuteSingleNode ==
  /\ node \in Nodes
  /\ toWrite = {}
  /\ cachedTorchTensors' = FreeGraphInternalTensor
  /\ contents' = [a \in Addresses |->
       IF \E t \in graph[node].outs : deviceData[t] = a
       THEN <<CHOOSE t \in graph[node].outs : deviceData[t] = a, node>> ELSE contents[a]]
  /\ writer' = [t \in Tensors |-> IF t \in graph[node].outs THEN node ELSE writer[t]]
  /\ node' = node + 1
  /\ toWrite' = IF node < NodeCount THEN graph[node + 1].outs ELSE {}
  /\ variantIn' = deviceData
  /\ UNCHANGED <<graph, desc, call, deviceData>>

Next == ExecuteStart \/ (\E t \in Tensors : MallocInternalTensor(t)) \/ ExecuteSingleNode

Spec == Init /\ [][Next]_vars

-----------------------------------------------------------------------------
Assigned == IF node \in Nodes THEN graph[node].outs \ toWrite ELSE {}
Live ==
  IF node \in Nodes
  THEN {t \in Tensors : writer[t] # 0 /\ \E n \in Readers(graph, t) : n >= node} \cup Assigned
  ELSE {}

(* Whenever a node runs, each internal tensor it reads is still where the  *)
(* last writer put it, and no output of the node is there but its own.     *)
InputsIntact ==
  node \in Nodes =>
    \A t \in graph[node].ins : writer[t] # 0 =>
      /\ contents[variantIn[t]] = <<t, writer[t]>>
      /\ \A u \in Assigned \ {t} : deviceData[u] # variantIn[t]

(* The cache implements BufferAssignment.                                  *)
Promise == INSTANCE BufferAssignment WITH
  Tensor <- Tensors, Buffer <- Addresses, NoBuffer <- Null,
  live <- Live, buffer <- deviceData

ImplementsBufferAssignment == Promise!Spec
=============================================================================
