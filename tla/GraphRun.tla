------------------------------ MODULE GraphRun ------------------------------
(***************************************************************************)
(* A graph that a builder made, node by node in the order atb runs them,    *)
(* and the graphs among its nodes, with the parameters it gives them.       *)
(* Nothing checks these graphs before they run: GetTensorIdx answers        *)
(* UINT32_MAX for a name it does not know, and the nodes of a graph share    *)
(* the memory of its internal tensors.                                      *)
(***************************************************************************)
EXTENDS BaseModelBuilder, DeepseekLayerBuilder, MoeLayerBuilder, AtbOps

VARIABLES
  graph,      \* the graph that is looked at
  step,       \* how many of its nodes have run
  written,    \* the tensors that have a value
  unread      \* those of them that no node has read since

vars == <<graph, step, written, unread>>

Build(op) ==
  LET p == op.param IN
  CASE op.kind = "FusionLinear" -> FusionLinear(p)
    [] op.kind = "LinearParallel" -> LinearParallel(p)
    [] op.kind = "NormLinear" -> NormLinear(p)
    [] op.kind = "Mlp" -> Mlp(p)
    [] op.kind = "RotaryPositionEmbedding" -> RotaryPositionEmbedding(p)
    [] op.kind = "QKVLinearSplit" -> QKVLinearSplit(p)
    [] op.kind = "Attention" -> Attention(p)
    [] op.kind = "CrossAttnQAddRmsNormLinear" -> CrossAttnQAddRmsNormLinear(p)
    [] op.kind = "CrossAttention" -> CrossAttention(p)
    [] op.kind = "DecoderLayer" -> DecoderLayer(p)
    [] op.kind = "WordEmbedding" -> WordEmbedding(p)
    [] op.kind = "PositionalEmbeddingGather" -> PositionalEmbeddingGather
    [] op.kind = "LmHead" -> LmHead(p)
    [] op.kind = "ParallelLmHeadAllToAll" -> ParallelLmHeadAllToAll
    [] op.kind = "DecoderModel" -> DecoderModel(p)
    [] op.kind = "IntegratedGmm" -> CreateIntegratedGmmOperation(p)
    [] op.kind = "ExpertFilter" -> CreateExpertFilterOperation(p)
    [] op.kind = "MoeMlp" -> CreateMoeMlpOperation(p)
    [] op.kind = "SharedExpert" -> CreateSharedExpertOperation(p)
    [] op.kind = "DataPreparation" -> CreateDataPreparationOperation
    [] op.kind = "AllToAllMeta" -> CreateAllToAllMetaOperation
    [] op.kind = "AllToAllDispatch" -> CreateAllToAllDispatchOperation
    [] op.kind = "AllToAllCollect" -> CreateAllToAllCollectOperation(p)
    [] op.kind = "All2AllMatmul" -> CreateAll2AllMatmulOperation
    [] op.kind = "DynamicEpMoE" -> CreateDynamicEpMoEOperation(p)
    [] op.kind = "SparseMoe" -> CreateSparseMoeOperation(p)
    [] op.kind = "LatentAttention" -> LatentAttention(p)
    [] op.kind = "DeepseekLayer" -> DeepseekLayer(p)
    [] op.kind = "MoeLayer" -> MoeLayer(p)

GraphKinds ==
  {"FusionLinear", "LinearParallel", "NormLinear", "Mlp", "RotaryPositionEmbedding",
   "QKVLinearSplit", "Attention", "CrossAttnQAddRmsNormLinear", "CrossAttention", "DecoderLayer",
   "WordEmbedding", "PositionalEmbeddingGather", "LmHead", "ParallelLmHeadAllToAll", "DecoderModel",
   "IntegratedGmm", "ExpertFilter", "MoeMlp", "SharedExpert", "DataPreparation", "AllToAllMeta",
   "AllToAllDispatch", "AllToAllCollect", "All2AllMatmul", "DynamicEpMoE", "SparseMoe",
   "LatentAttention", "DeepseekLayer", "MoeLayer"}
IsGraph(op) == op.kind \in GraphKinds

\* What a node really writes.  A fill in place writes its first input, and its output is a
\* placeholder; the filter of shifted experts ends in one, on the weights of the experts.
Results(node) ==
  CASE node.op.kind = "InplaceMaskedFillTensor" -> {node.ins[1]}
    [] node.op.kind = "ExpertFilter" /\ Len(node.outs) = 1 -> {node.ins[2]}
    [] OTHER -> Elements(node.outs)

Start(g) ==
  /\ graph = g
  /\ step = 0
  /\ written = Elements(g.ins)
  /\ unread = {}

\* The next node runs.
RunNode ==
  /\ step < Len(graph.nodes)
  /\ LET node == graph.nodes[step + 1]
     IN  /\ written' = written \cup Results(node)
         /\ unread' = (unread \ Elements(node.ins)) \cup Results(node)
  /\ step' = step + 1
  /\ UNCHANGED graph

\* Look at a graph among the nodes, built for the parameter that this graph gives it.
Enter ==
  /\ step = 0
  /\ \E k \in DOMAIN graph.nodes :
       /\ IsGraph(graph.nodes[k].op)
       /\ LET g == Build(graph.nodes[k].op)
          IN  graph' = g /\ step' = 0 /\ written' = Elements(g.ins) /\ unread' = {}

Next == RunNode \/ Enter
-----------------------------------------------------------------------------
Ended == step = Len(graph.nodes)

\* Every name that a node uses is in the tensor map and stands for one tensor there: the maps
\* are made under the same flags as the nodes, by other code (GetTensorIdx in utils.cpp).
NamesResolve ==
  step = 0 =>
    /\ \A i, j \in DOMAIN TensorMap(graph) : TensorMap(graph)[i] = TensorMap(graph)[j] => i = j
    /\ \A k \in DOMAIN graph.nodes :
         Elements(graph.nodes[k].ins \o graph.nodes[k].outs) \subseteq Elements(TensorMap(graph))

\* A node reads nothing that no node before it has written: the order in which the builder
\* appends the nodes, and the nodes it leaves out, agree with the names it gives them.
WrittenBeforeRead == ~Ended => Elements(graph.nodes[step + 1].ins) \subseteq written

\* Every layer writes these and what reads them is after the last layer.
OfLastLayer == {t \in Elements(TensorMap(graph)) : t[1] = "attn_dp_last_layer"}

\* A rank gathers both pieces of every other rank and attends to the later one only when it is
\* before its own queries.
OfLaterPieces == {<<"k", "last">>, <<"v", "last">>}

\* No node overwrites what another has written and none has read: two branches of a builder
\* do not give their results the same name.
NoResultIsLost ==
  ~Ended => LET node == graph.nodes[step + 1]
            IN  Results(node) \cap unread \subseteq Elements(node.ins) \cup OfLastLayer \cup OfLaterPieces

Placeholders ==
  UNION {Elements(graph.nodes[k].outs) \ Results(graph.nodes[k]) : k \in DOMAIN graph.nodes}

\* The dynamic experts gather their indices once more for a step that is no longer there.
OfRemovedStep == {T("shuffle_idx_2")}

\* A layer with experts has room for the deviation of a fused norm also where it does not fuse,
\* and cuts out its rank's rows also where it has all of them.
OfFusedNorm == {T("norm_rstd_out")}
OfSlice == {T("hidden_states_slice")}

\* A graph that has run has written its outputs and its internal tensors, has the nodes that it
\* made room for, and no node worked for nothing.
GraphIsComplete ==
  Ended => /\ Elements(graph.outs) \cup Elements(graph.mids) \subseteq written \cup Placeholders \cup OfFusedNorm
           /\ graph.declared = Len(graph.nodes)
           /\ LET useless == unread \ (Elements(graph.outs \o graph.ins) \cup OfRemovedStep \cup OfSlice)
                  Later(k) == UNION {Results(graph.nodes[j]) : j \in k + 1 .. Len(graph.nodes)}
              IN  \A k \in DOMAIN graph.nodes :
                    Results(graph.nodes[k]) # {} => ~(Results(graph.nodes[k]) \subseteq useless \ Later(k))

\* A node has as many inputs and outputs as the graph or the operation it runs takes and gives.
ArityAgrees ==
  step = 0 =>
    \A k \in DOMAIN graph.nodes :
      LET node == graph.nodes[k]
      IN  /\ IsGraph(node.op) =>
               LET g == Build(node.op) IN Len(node.ins) = Len(g.ins) /\ Len(node.outs) = Len(g.outs)
          /\ node.op.kind \in Counted => <<Len(node.ins), Len(node.outs)>> = Arity(node.op)

\* The name of a tensor without the layer, rank or half it belongs to.
Own(t) ==
  IF Len(t) = 1 \/ t[2] \in {"layer", "rank", "successor", "auxiliary"} THEN T(t[1])
  ELSE SubSeq(t, 1, 2)

\* An argument for a port of a pack is the same part of a pack or, in a model, a weight that
\* has only a number.
Fits(port, arg) ==
  \/ arg \in {T("weight"), T("place_holder")}
  \/ /\ Len(arg) = 2
     /\ \/ port[2] = arg[2]
        \/ port[2] = "weight" /\ arg[2] \in {"lora_a", "lora_b", "transposed_weight"}

\* Arguments are matched with the ports of a graph by position only.  They arrive where they
\* belong: a part of a quantised weight at the port for this part, all parts of a port's pack
\* from one weight, and a name that the graph has as a port at that port.
PacksStayTogether ==
  step = 0 =>
    \A k \in DOMAIN graph.nodes :
      IsGraph(graph.nodes[k].op) =>
        LET ports == Build(graph.nodes[k].op).ins
            args == [i \in DOMAIN graph.nodes[k].ins |-> Own(graph.nodes[k].ins[i])]
            both == DOMAIN ports \cap DOMAIN args
            packed == {i \in both : Len(ports[i]) = 2 /\ Len(args[i]) = 2}
            named == Elements(ports)
        IN  /\ \A i \in both : Len(ports[i]) = 2 => Fits(ports[i], args[i])
            /\ \A i, j \in packed : ports[i][1] = ports[j][1] => args[i][1] = args[j][1]
            /\ \A i \in both : args[i] \in named \ {T("input"), T("expert_array")} => ports[i] = args[i]
=============================================================================
