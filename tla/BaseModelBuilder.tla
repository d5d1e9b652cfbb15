-------------------------- MODULE BaseModelBuilder --------------------------
(***************************************************************************)
(* models/base/model/decoder_model.cpp, with the embeddings and the head    *)
(* of operations/fusion: the tensors of a decoder model and its nodes.      *)
(* A tensor that every layer has for itself ends with the number of the     *)
(* layer, and one of the layer's weights with its place among them too.     *)
(***************************************************************************)
EXTENDS BaseLayerBuilder

(* Embeddings.                                                             *)
WordEmbedding(p) ==
  LET enum == Names(<<"embedding_weights", "input_ids", "hidden_states", "gather", "allgather_out">>)
  IN  EnumGraph(enum, 2, 1, IF p.tp THEN 2 ELSE 0,
        <<Node(Op("Gather"), Names(<<"embedding_weights", "input_ids">>),
               Names(<<IF p.tp THEN "gather" ELSE "hidden_states">>))>>
        \o When(p.tp, <<Node(Op("AllGather"), Names(<<"gather">>), Names(<<"allgather_out">>)),
                        Node(Op("Transpose"), Names(<<"allgather_out">>), Names(<<"hidden_states">>))>>))
-----------------------------------------------------------------------------
(* The head.  Its internal tensors are numbered from 10; which number is    *)
(* what follows from its parameter.                                        *)
DefaultLmHead ==
  [linear |-> DefaultLinearParallel, gatherAhead |-> FALSE, enableDpOut |-> FALSE,
   outputHidden |-> FALSE, contextParallel |-> FALSE]

LmHeadIds == Names(<<"logits", "id_10", "id_11", "id_12", "id_13", "id_14", "id_15", "id_16">>)
LmHeadId(n) == LmHeadIds[n - 8]
GatherOut == LmHeadId(10)
LmHeadRow(p) == p.linear.tp /\ p.linear.parallelType = "ROW_PARALLEL"
SliceOut(p) == LmHeadId(IF LmHeadRow(p) THEN 11 ELSE 12)
AllGatherOut(p) == LmHeadId(IF LmHeadRow(p) THEN 12 ELSE 11)

AddSlice(p) ==
  <<Node(Op("Slice"), <<IF p.gatherAhead THEN GatherOut ELSE T("hidden_states")>>, <<SliceOut(p)>>)>>

AddLinearParallel(p) ==
  LET first == IF p.gatherAhead THEN 11 ELSE 10
  IN  <<Node(OpOf(IF p.enableDpOut /\ p.linear.tp /\ ~p.gatherAhead
                    THEN "ParallelLmHeadAllToAll" ELSE "LinearParallel", p.linear),
             <<IF LmHeadRow(p) THEN SliceOut(p) ELSE IF p.gatherAhead THEN GatherOut ELSE T("hidden_states")>>
               \o Pack("lmhead"),
             IF p.linear.isArgmaxlogits THEN <<LmHeadId(first), LmHeadId(first + 1)>> ELSE <<LmHeadId(9)>>)>>

AddLogitsOffset(p) ==
  LET argmaxOut == IF p.gatherAhead THEN 11 ELSE 10
  IN  <<Node(Op("Add"), <<LmHeadId(argmaxOut), T("logits_offset")>>, <<LmHeadId(argmaxOut + 2)>>)>>
AddArgMax(p) ==
  LET maxOut == IF p.gatherAhead THEN 12 ELSE 11
  IN  <<Node(Op("ArgMax"), <<LmHeadId(maxOut)>>, <<LmHeadId(maxOut + 2)>>)>>
AddGatherLogits(p) ==
  LET argmaxOut == IF p.gatherAhead THEN 14 ELSE 13
  IN  <<Node(Op("Gather"), <<LmHeadId(argmaxOut - 1), LmHeadId(argmaxOut)>>, <<LmHeadId(argmaxOut + 1)>>),
        Node(Op("Cast"), <<LmHeadId(argmaxOut + 1)>>, <<LmHeadId(9)>>)>>

LmHeadInternalNum(p) ==
  LET hidden == p.outputHidden /\ p.gatherAhead
      count == IF LmHeadRow(p) THEN 2 ELSE 1
      own == IF p.linear.isArgmaxlogits THEN count + (IF p.gatherAhead THEN 5 ELSE 4)
             ELSE IF p.gatherAhead THEN count ELSE count - 1
  IN  own + (IF p.gatherAhead /\ p.contextParallel THEN 1 ELSE 0) - (IF hidden THEN 1 ELSE 0)

LmHead(p) ==
  EnumGraph(<<T("hidden_states")>> \o Pack("lmhead") \o Names(<<"indices", "logits_offset">>) \o LmHeadIds,
            9, IF p.outputHidden /\ p.gatherAhead THEN 2 ELSE 1, LmHeadInternalNum(p),
    When(p.gatherAhead,
      When(p.contextParallel, <<Node(Op("AllGather"), Names(<<"hidden_states">>), <<AllGatherOut(p)>>)>>)
      \o <<Node(Op("Gather"), <<IF p.contextParallel THEN AllGatherOut(p) ELSE T("hidden_states"), T("indices")>>,
                <<GatherOut>>)>>)
    \o When(LmHeadRow(p), AddSlice(p))
    \o AddLinearParallel(p)
    \o When(p.linear.isArgmaxlogits, AddLogitsOffset(p) \o AddArgMax(p) \o AddGatherLogits(p)))

ParallelLmHeadAllToAll ==
  EnumGraph(<<T("hidden_states")>> \o Pack("lmhead")
            \o Names(<<"logits", "lmlinear_out", "trans1_out", "alltoalltp_out">>), 7, 1, 3,
    <<Node(Op("Linear"), <<T("hidden_states"), <<"lmhead", "weight">>>>, Names(<<"lmlinear_out">>)),
      Node(Op("Transpose"), Names(<<"lmlinear_out">>), Names(<<"trans1_out">>)),
      Node(Op("AllToAll"), Names(<<"trans1_out">>), Names(<<"alltoalltp_out">>)),
      Node(Op("Transpose"), Names(<<"alltoalltp_out">>), Names(<<"logits">>))>>)
-----------------------------------------------------------------------------
(* The model.  `layer' has the flags that the model hands on to its layers. *)
DefaultModel ==
  [layer |-> DefaultLayer, numHiddenLayers |-> 2, skipWordEmbedding |-> FALSE, isEmbeddingParallel |-> FALSE,
   isLmHeadParallel |-> TRUE, enablePrefixCache |-> FALSE, enableGreedyPostProcessing |-> FALSE,
   enableDap |-> FALSE, attnSkipLayerSet |-> {}, mlpSkipLayerSet |-> {}, patternMask |-> {},
   worldSize |-> 2, rank |-> 0]

\* A tensor that belongs to one layer, and the tensors of a DAP successor.
OfLayer(t, l) == <<t[1], IF Len(t) = 2 THEN t[2] ELSE "layer", l>>
OfLayerList(s, l) == [i \in DOMAIN s |-> OfLayer(s[i], l)]
OfEveryLayer(p, s) ==
  [i \in 1 .. p.numHiddenLayers * Len(s) |-> OfLayer(s[((i - 1) % Len(s)) + 1], (i - 1) \div Len(s))]
Successor(t) == Append(t, "successor")
Rope(p) == p.layer.positionEmbeddingType = "ROPE"
Flash(p) == p.layer.linear.enableFlashComm

CompressPerLayer ==
  Names(<<"ra_block_tables", "ra_slots", "in_ra_seqlens", "pffset_index", "razor_offset">>)
CompressRope(p) == Names(<<"wins_global", "in_reshape_seqlen">>) \o OfEveryLayer(p, CompressPerLayer)
LoraPerLayer == LayerLoraAttn \o LayerLoraMlp
InputName(p) == T(IF p.skipWordEmbedding THEN "input_embedding" ELSE "input_ids")
HiddenStates(p) == T(IF p.skipWordEmbedding THEN "input_embedding" ELSE "hidden_states")
HiddenStatesRank(r) == <<"hidden_states_rank", "rank", r>>

ConstructInTensorMap(p) ==
  <<InputName(p)>>
  \o Names(<<"positional_ids", "cosine_table", "sine_table", "attention_mask", "block_tables", "slots",
             "kv_cache_idx", "token_offset", "place_holder", "seq_len", "logits_indices">>)
  \o When(p.layer.enableCompressHead,
          CASE p.layer.positionEmbeddingType = "ALIBI" -> Names(<<"wins_global", "in_ra_seqlens">>)
            [] Rope(p) -> CompressRope(p)
            [] OTHER -> <<>>)
  \o When(p.layer.enableOmniAttention, CompressRope(p))
  \o When(p.layer.enableSpeculate \/ p.layer.enableSplitFuse, Names(<<"q_len">>))
  \o When(p.layer.linear.supportLora, Names(<<"seq_len_cum_sum">>) \o OfEveryLayer(p, LoraPerLayer))
  \o When(p.layer.hasAttnDp, AttnDpIns)
  \o When(Flash(p), FlashCommIns)

ConstructInternalTensorMap(p) ==
  When(~p.skipWordEmbedding, Names(<<"hidden_states">>))
  \o When(Rope(p), Names(<<"cosine_embedding", "sine_embedding">>))
  \o When(GathersAttnDp(p.layer), Names(<<"attn_dp_last_layer">>))
  \o When(p.layer.enableInterLayerAddNorm, Names(<<"last_layer_mlp_out">>))
  \o When(Flash(p), [r \in 1 .. p.worldSize |-> HiddenStatesRank(r - 1)] \o Names(<<"hidden_states_allgather">>))

\* DuplicateTensorMapForDap: with DAP there is every tensor once more for the successor.
DuplicateTensorMapForDap(p, s) == s \o When(p.enableDap, [i \in DOMAIN s |-> Successor(s[i])])

WeightCountPerLayer(p) ==
  50 + (IF p.layer.enableKvQuant THEN 8 ELSE 0) + (IF p.layer.enableFA3 THEN 8 ELSE 0)
     + (IF p.layer.enableReduceQuant THEN 8 ELSE 0)
     + (IF p.layer.enableInterLayerAddNorm \/ p.layer.enableIntraLayerAddNorm THEN 4 ELSE 0)
     + (IF p.layer.useQKNorm THEN 2 ELSE 0)
LayerWeightsOf(p, l) == [i \in 1 .. WeightCountPerLayer(p) |-> <<"weight", "layer", l, i>>]
FinalNormWeights(p) ==
  LET count == IF p.layer.normType = "LAYER_NORM" THEN 2 ELSE 1
  IN  [i \in 1 .. count |-> <<"final_norm", "layer", p.numHiddenLayers, i>>]
CalcWeightTensorSize(p) ==
  <<T("word_embedding")>> \o OfEveryLayer(p, Names(<<"k_cache", "v_cache">>))
  \o [i \in 1 .. p.numHiddenLayers * WeightCountPerLayer(p) |->
        <<"weight", "layer", (i - 1) \div WeightCountPerLayer(p), ((i - 1) % WeightCountPerLayer(p)) + 1>>]
  \o FinalNormWeights(p) \o <<<<"lmhead", "weight">>>>
-----------------------------------------------------------------------------
AddWordEmbedding(p) ==
  <<Node(OpOf("WordEmbedding",
              [tp |-> p.isEmbeddingParallel /\ IF p.layer.hasAttnDp THEN p.layer.attnTp ELSE p.layer.tp]),
         Names(<<"word_embedding", "input_ids">>), Names(<<"hidden_states">>))>>
AddPositionalEmbedding ==
  <<Node(Op("PositionalEmbeddingGather"), Names(<<"positional_ids", "cosine_table", "sine_table">>),
         Names(<<"cosine_embedding", "sine_embedding">>))>>
AddSplitHiddenStates(p) ==
  <<Node(Op("SplitWithSize"), Names(<<"hidden_states">>),
         [r \in 1 .. p.worldSize |-> HiddenStatesRank(r - 1)])>>

AddNodesBeforeLayer(p) ==
  When(~p.skipWordEmbedding, AddWordEmbedding(p))
  \o When(Rope(p), AddPositionalEmbedding)
  \o When(Flash(p), AddSplitHiddenStates(p))

SetLayerParam(p, l) ==
  [p.layer EXCEPT
     !.layerId = l, !.numHiddenLayers = p.numHiddenLayers,
     !.isomnicompressed = p.layer.enableOmniAttention /\ l \in p.patternMask,
     !.enableModelConfuscation = @ /\ l = 0,
     !.isAttnSkipLayer = ~p.layer.linear.isPrefill /\ l \in p.attnSkipLayerSet,
     !.isMlpSkipLayer = ~p.layer.linear.isPrefill /\ l \in p.mlpSkipLayerSet]

LayerInput(p) == IF Flash(p) THEN HiddenStatesRank(p.rank) ELSE HiddenStates(p)

SetLayerNodeDefaultInput(p, l) ==
  LayerWeightsOf(p, l) \o <<LayerInput(p)>>
  \o Names(IF Rope(p) THEN <<"cosine_embedding", "sine_embedding">> ELSE <<"place_holder", "place_holder">>)
  \o Names(<<"attention_mask">>) \o OfLayerList(Names(<<"k_cache", "v_cache">>), l)
  \o Names(<<"seq_len", "token_offset", "kv_cache_idx">>)
  \o (IF (p.layer.enableCompressHead /\ Rope(p)) \/ p.layer.enableOmniAttention
        THEN OfLayerList(Names(<<"ra_block_tables", "ra_slots">>), l)
        ELSE Names(<<"block_tables", "slots">>))

SetLayerNodeOmniInput(l) ==
  Names(<<"wins_global">>) \o OfLayerList(Names(<<"in_ra_seqlens", "pffset_index", "razor_offset">>), l)
  \o Names(<<"in_reshape_seqlen">>)

SetLayerNodeRaInput(p, l) ==
  CASE p.layer.positionEmbeddingType = "ALIBI" -> Names(<<"wins_global", "in_ra_seqlens">>)
    [] Rope(p) -> SetLayerNodeOmniInput(l)
    [] OTHER -> <<>>

SetLayerNodeOptionalInput(p, l) ==
  When(p.layer.enableCompressHead, SetLayerNodeRaInput(p, l))
  \o When(p.layer.enableOmniAttention, SetLayerNodeOmniInput(l))
  \o When(p.layer.enableSpeculate \/ p.layer.enableSplitFuse, Names(<<"q_len">>))
  \o When(p.layer.linear.supportLora, Names(<<"seq_len_cum_sum">>) \o OfLayerList(LoraPerLayer, l))
  \o When(p.layer.hasAttnDp, AttnDpIns)
  \o When(p.layer.enableInterLayerAddNorm /\ l # 0, Names(<<"last_layer_mlp_out">>))
  \o When(Flash(p), FlashCommIns)

AddSingleLayer(p, l) ==
  When(l \notin p.attnSkipLayerSet \cap p.mlpSkipLayerSet,
       <<Node(OpOf("DecoderLayer", SetLayerParam(p, l)),
              SetLayerNodeDefaultInput(p, l) \o SetLayerNodeOptionalInput(p, l),
              <<LayerInput(p)>>
              \o When(GathersAttnDp(p.layer), Names(<<"attn_dp_last_layer">>))
              \o When(p.layer.enableInterLayerAddNorm /\ l # p.numHiddenLayers - 1,
                      Names(<<"last_layer_mlp_out">>)))>>)

\* What the final norm reads, and writes in place.
FinalNormInput(p) ==
  IF GathersAttnDp(p.layer) THEN T(IF p.skipWordEmbedding THEN "input_embedding" ELSE "attn_dp_last_layer")
  ELSE LayerInput(p)
AddFinalNorm(p) ==
  <<Node(Op("AtbNorm"), <<FinalNormInput(p)>> \o FinalNormWeights(p), <<FinalNormInput(p)>>)>>

\* AddAllGather of the model.
AddModelAllGather(p) ==
  <<Node(Op("AllGatherV"),
         <<HiddenStatesRank(p.rank)>> \o Names(<<"recv_count", "send_counts", "sdispls", "fake_ag_shape">>),
         Names(<<"hidden_states_allgather">>))>>

SetLmHeadParam(p) ==
  LET tp == p.isLmHeadParallel /\ p.layer.tp
  IN  [DefaultLmHead EXCEPT
         !.gatherAhead = p.layer.linear.isPrefill \/ p.enablePrefixCache \/ p.layer.hasAttnDp,
         !.linear = [DefaultLinearParallel EXCEPT
                       !.linear.isBF16 = p.layer.linear.isBF16, !.linear.matmulBackend = p.layer.linear.matmulBackend,
                       !.enableMC2 = p.layer.enableMC2, !.isArgmaxlogits = p.enableGreedyPostProcessing,
                       !.tp = tp, !.parallelType = IF p.isLmHeadParallel THEN "COLUMN_PARALLEL" ELSE @]]

AddLmhead(p) ==
  LET in == IF ~GathersAttnDp(p.layer) /\ Flash(p) THEN T("hidden_states_allgather") ELSE FinalNormInput(p)
  IN  <<Node(OpOf("LmHead", SetLmHeadParam(p)),
             <<in, <<"lmhead", "weight">>>> \o Names(<<"place_holder", "place_holder", "place_holder", "place_holder",
                               "place_holder", "logits_indices",
                               IF p.enableGreedyPostProcessing THEN "logits_offset_tensor" ELSE "place_holder">>),
             Names(<<"logits">>))>>

AddNodesAfterLayer(p) == AddFinalNorm(p) \o When(Flash(p), AddModelAllGather(p)) \o AddLmhead(p)

\* Mutant: the successor's nodes write to the predecessor's tensors.
ReplaceDapTensorsOfInputs(p, nodes) ==
  LET copied == Elements(ConstructInTensorMap(p)) \cup Elements(ConstructInternalTensorMap(p)) \cup {T("logits")}
      Replace(s) == [i \in DOMAIN s |-> IF s[i] \in copied THEN Successor(s[i]) ELSE s[i]]
  IN  [k \in DOMAIN nodes |-> [nodes[k] EXCEPT !.ins = Replace(@)]]

\* ReplaceDapTensors: the successor's nodes have its own tensors; weights and caches have no copy.
ReplaceDapTensors(p, nodes) ==
  LET copied == Elements(ConstructInTensorMap(p)) \cup Elements(ConstructInternalTensorMap(p)) \cup {T("logits")}
      Replace(s) == [i \in DOMAIN s |-> IF s[i] \in copied THEN Successor(s[i]) ELSE s[i]]
  IN  [k \in DOMAIN nodes |-> [nodes[k] EXCEPT !.ins = Replace(@), !.outs = Replace(@)]]

Twofold(p, nodes) == nodes \o When(p.enableDap, ReplaceDapTensors(p, nodes))

AddLayer(p) ==
  LET upTo[l \in 0 .. p.numHiddenLayers] ==
        IF l = 0 THEN <<>> ELSE upTo[l - 1] \o Twofold(p, AddSingleLayer(p, l - 1))
  IN  upTo[p.numHiddenLayers]

DecoderModel(p) ==
  Graph(CalcWeightTensorSize(p) \o DuplicateTensorMapForDap(p, ConstructInTensorMap(p)),
        DuplicateTensorMapForDap(p, Names(<<"logits">>)),
        DuplicateTensorMapForDap(p, ConstructInternalTensorMap(p)),
        Twofold(p, AddNodesBeforeLayer(p)) \o AddLayer(p) \o Twofold(p, AddNodesAfterLayer(p)))
=============================================================================
