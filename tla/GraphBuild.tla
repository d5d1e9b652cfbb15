----------------------------- MODULE GraphBuild -----------------------------
(***************************************************************************)
(* What the graph builders produce: an atb::GraphParam.  A builder lists    *)
(* the inputs, outputs and internal tensors of the graph under the flags of *)
(* its parameter (ConstructTensorMap), and appends nodes that name their    *)
(* tensors (GetTensorIdx), under the same flags but written down elsewhere. *)
(*                                                                         *)
(* A tensor is the tuple of the words of its name.  A plain name has one    *)
(* word; what belongs to a quantised weight or to a normalisation has the   *)
(* weight's name and its role, so "in_qkv_scale_0" is <<"qkv_0", "scale">>. *)
(* RECORD and WAIT operations have no tensors and are left out here;        *)
(* EventGraphBuilder has them.  A graph is built for one device.            *)
(***************************************************************************)
EXTENDS Naturals, Sequences

None == [none |-> TRUE]    \* the parameter of an operation whose parameter does not matter

\* The elements that code adds under a condition.
When(c, s) == IF c THEN s ELSE <<>>

Elements(s) == {s[i] : i \in DOMAIN s}
AllOf(seqs) == UNION {Elements(seqs[i]) : i \in DOMAIN seqs}

(* Names.                                                                  *)
T(name) == <<name>>
Names(list) == [i \in DOMAIN list |-> <<list[i]>>]
PackRoles == <<"weight", "scale", "offset", "descale", "bias", "compress_idx">>
Pack(name) == [i \in DOMAIN PackRoles |-> <<name, PackRoles[i]>>]
NormRoles == <<"norm_weight", "norm_bias", "norm_new_weight", "norm_new_bias">>
NormPack(name) == [i \in DOMAIN NormRoles |-> <<name, NormRoles[i]>>]
LoraPack(name) == <<<<name, "lora_a">>, <<name, "lora_b">>>>

\* A tensor of one half of the batch: a layer that works on two halves at a time names what
\* belongs to the second one "..._auxiliary".
Auxiliary(t) == <<t[1], "auxiliary">>
AuxiliaryList(s) == [i \in DOMAIN s |-> Auxiliary(s[i])]
Half(name, aux) == IF aux THEN Auxiliary(T(name)) ELSE T(name)

(* Operations and nodes.  An operation is its kind and what of its          *)
(* parameter decides its tensors or, when it is a graph, how it is built.   *)
OpOf(kind, param) == [kind |-> kind, param |-> param]
Op(kind) == OpOf(kind, None)
Node(op, ins, outs) == [op |-> op, ins |-> ins, outs |-> outs]

(* A graph.  `declared' is the number of nodes it makes room for.          *)
Graph(ins, outs, mids, nodes) ==
  [ins |-> ins, outs |-> outs, mids |-> mids, nodes |-> nodes, declared |-> Len(nodes)]

\* A builder that numbers its tensors with an enum and declares how many are inputs,
\* outputs and internal tensors, in this order.
EnumGraph(enum, inNum, outNum, midNum, nodes) ==
  Graph(SubSeq(enum, 1, inNum), SubSeq(enum, inNum + 1, inNum + outNum),
        SubSeq(enum, inNum + outNum + 1, inNum + outNum + midNum), nodes)

\* atb::GraphOpBuilder: what a node writes and the graph does not give out is internal.
BuilderGraph(ins, outs, nodes) ==
  LET Fresh(k) == SelectSeq(nodes[k].outs, LAMBDA t :
                     /\ t \notin Elements(ins) \cup Elements(outs)
                     /\ \A j \in 1 .. k - 1 : t \notin Elements(nodes[j].outs))
      fresh[k \in 0 .. Len(nodes)] == IF k = 0 THEN <<>> ELSE fresh[k - 1] \o Fresh(k)
  IN  Graph(ins, outs, fresh[Len(nodes)], nodes)

TensorMap(g) == g.ins \o g.outs \o g.mids
-----------------------------------------------------------------------------
(* The quantisation of a linear.                                           *)
LinearQuantType == {"NO_QUANT", "W8A8_DEQUANT", "W8A8_QUANT", "W4A16", "W8A16",
                    "W8A8_SC_DEQUANT", "W8A8_SC_QUANT", "W8A8_DYNAMIC_DEQUANT",
                    "W8A8_DYNAMIC_QUANT", "W4A8_DYNAMIC_DEQUANT", "W4A8_DYNAMIC_QUANT"}

\* Communication of unequal parts needs to know who sends how much.
FlashCommCounts ==
  Names(<<"send_counts", "sdispls", "send_count", "recv_counts", "rdispls", "recv_count">>)
=============================================================================
