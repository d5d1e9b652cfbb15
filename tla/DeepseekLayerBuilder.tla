------------------------ MODULE DeepseekLayerBuilder ------------------------
(***************************************************************************)
(* models/deepseekv2/layer/decoder_layer.cpp: a layer with latent attention *)
(* and experts.  How the ranks share the attention and the experts decides  *)
(* what they exchange after each of the two (CalculateCommType), and that   *)
(* decides, with the flags of the layer, which tensors there are and who    *)
(* reads them.  The event nodes, which have no tensors, are in              *)
(* MicroBatchLayer.  The layers with an indexer, whose attention is         *)
(* sparse_latent_attention.cpp, are left out.                              *)
(***************************************************************************)
EXTENDS ExpertParallelBuilder, LatentAttentionBuilder

RankGroups ==
  {"ATTN_TP", "ATTN_DP", "ATTN_CP", "ATTN_INNER_SP", "ATTN_O_PROJ_TP", "MOE_EP", "MOE_TP"}

\* `attn', `moe' and `shared' have what the layer hands on as it is, `ranks' how many ranks
\* are in this rank's group of each kind.
DefaultDeepseekLayer ==
  [attn |-> DefaultLatentAttention, moe |-> DefaultSparseMoe, shared |-> DefaultSharedExpert,
   ranks |-> [g \in RankGroups |-> 1], isPrefill |-> FALSE, multiStream |-> FALSE,
   layerId |-> 1, firstKDenseReplace |-> 1, isDenseLayer |-> FALSE, isLastLayer |-> FALSE,
   isDynamicEp |-> FALSE, isMlpFullTP |-> FALSE, enableDpOut |-> FALSE, lmHeadLocalTp |-> FALSE,
   attnStreamNum |-> 1, ffnStreamNum |-> 1, attnAllreduce |-> FALSE, attnReduceScatter |-> FALSE,
   attnAllGather |-> FALSE, ffnAllreduce |-> FALSE, ffnReduceScatter |-> FALSE, ffnAllGather |-> FALSE,
   hasAttnComm |-> FALSE, hasFfnComm |-> FALSE,
   hasSharedExpert |-> TRUE, hasP2DWeight |-> FALSE, enableExtraOprojTp |-> FALSE,
   enableOutLcocTp |-> FALSE, enableIntraLayerAddNorm |-> FALSE, normHasBias |-> FALSE,
   isAntiOutlier |-> FALSE, mlpNormQuantType |-> "UNDEFINED", enableMlaPrefetch |-> FALSE,
   enableFA3 |-> FALSE, enableKvQuantLayer |-> FALSE, enablePrefixCache |-> FALSE,
   enableSpeculate |-> FALSE, enableQkvdownDp |-> FALSE, enableSharedExpertDp |-> FALSE,
   enableGatingDp |-> FALSE, enableSharedExpertOverlap |-> FALSE, enableLoadBalance |-> FALSE,
   enableAllToAllMC2 |-> FALSE, enableGatherPreNorm |-> FALSE, enableEPWB |-> FALSE,
   enableInfNan |-> TRUE, mixSharedRouting |-> FALSE, enableExpertCumSumOutput |-> FALSE]

IsShared(p, group) == p.ranks[group] > 1
HalvesTheBatch(p) == p.isPrefill /\ p.multiStream
-----------------------------------------------------------------------------
(* Into how many parts the tokens are cut, and what ranks must exchange.   *)
CalculateDataPartition(p) ==
  LET attn == p.ranks["ATTN_DP"] * p.ranks["ATTN_CP"]
  IN  [p EXCEPT !.attnStreamNum = attn,
                !.ffnStreamNum = CASE p.isDenseLayer -> IF p.isMlpFullTP THEN 1 ELSE attn
                                   [] ~p.isDenseLayer /\ p.isDynamicEp -> p.ranks["MOE_EP"] * p.ranks["MOE_TP"]
                                   [] OTHER -> 1]

CalculateCommType(p) ==
  LET worldSize == p.ranks["ATTN_TP"] * p.attnStreamNum
      tp == IsShared(p, "ATTN_TP")
      outStreamNum == IF p.isLastLayer /\ (~p.enableDpOut \/ p.lmHeadLocalTp) THEN 1 ELSE p.attnStreamNum
      attnAllreduce == tp /\ p.ffnStreamNum = p.attnStreamNum
      attnReduceScatter == ~attnAllreduce /\ tp
      attnAllGather == (attnReduceScatter /\ worldSize > p.ffnStreamNum) \/ p.attnStreamNum > p.ffnStreamNum
      ffnReduceScatter == ~attnAllreduce /\ attnAllGather
      ffnAllGather == (IF ffnReduceScatter THEN worldSize ELSE p.ffnStreamNum) > outStreamNum
  IN  IF worldSize = 1 THEN p
      ELSE [p EXCEPT !.attnAllreduce = attnAllreduce, !.attnReduceScatter = attnReduceScatter,
                     !.attnAllGather = attnAllGather, !.ffnAllreduce = attnAllreduce,
                     !.ffnReduceScatter = ffnReduceScatter, !.ffnAllGather = ffnAllGather,
                     !.hasAttnComm = attnReduceScatter \/ attnAllGather,
                     !.hasFfnComm = ffnReduceScatter \/ ffnAllGather]

\* What the layer works with.  Its attention gathers what the layer before has left in parts
\* from the second layer with experts on.
Prepared(p) ==
  LET q == CalculateCommType(CalculateDataPartition(p))
  IN  [q EXCEPT !.enableQkvdownDp = @ /\ q.ffnAllGather]
AfterFirstMoe(p) == p.layerId > p.firstKDenseReplace
GathersInAttention(p) == p.enableQkvdownDp /\ AfterFirstMoe(p)
LeavesParts(p) == p.enableQkvdownDp /\ ~p.isLastLayer

isGatherPreNorm(p) ==
  /\ ((p.attnReduceScatter \/ p.attnAllGather) /\ p.enableGatherPreNorm) \/ p.enableExtraOprojTp
  /\ ~p.enableQkvdownDp \/ p.layerId = p.firstKDenseReplace
-----------------------------------------------------------------------------
(* ConstructTensorMap.                                                     *)
LatentWeights ==
  NormPack("input_norm") \o ExpertPack("q_proj_a") \o LatentLayerNorm("q_proj_a_layernorm")
  \o ExpertPack("q_proj_b") \o ExpertPack("kv_proj_with_mqa") \o LatentLayerNorm("kv_proj_a_layernorm")
  \o ExpertPack("k_proj_b_for_q") \o ExpertPack("v_proj_b_for_o") \o ExpertPack("attention_out")
SharedExpertWeights ==
  ExpertPack("mlp_gateup_shared") \o ExpertPack("mlp_down_shared") \o ExpertPack("shared_expert_gate")
SharedExpertTpWeights ==
  ExpertPack("mlp_gateup_shared_tp") \o ExpertPack("mlp_down_shared_tp") \o ExpertPack("shared_expert_gate_tp")
RoutedExpertWeights == ExpertPack("mlp_gateup") \o ExpertPack("mlp_down")

DeepseekDefaultIns ==
  Names(<<"hidden_states", "expert_array", "expert_group", "one_hot", "zero_hot", "final_state", "cos_table",
          "sin_table", "attention_mask", "k_cache", "k_rope_cache", "seq_len", "place_holder", "token_offset",
          "layer_id", "block_tables", "slots", "q_len">>)
ParallelInput ==
  Names(<<"attn_padding_idx", "attn_unpadding_idx", "ffn_padding_idx", "ffn_unpadding_idx",
          "lm_head_skip_padding_token_indices", "attention_padding_idx_slice", "start_expert_idx",
          "device_expert_count", "attention_padding_idx", "attention_unpadding_idx", "lty_idx", "moe_idx">>)
DeepseekFa3 == Names(<<"q_quant_scale", "k_quant_scale", "qk_descale", "kv_offset", "fa3_v_quant_scale">>)
AttnCpPrefill ==
  Names(<<"seq_len_cp">>) \o Halves("cp_load_balance_idx") \o Names(<<"cp_o_recover_idx", "cp_kv_recover_idx">>)
PrefixCacheIns == Names(<<"history_compressed_kv", "history_k_rope", "ring_cur_seqlen", "ring_cache_seqlen">>)

\* DuplicateAuxiliaryTensorMap.
OfBothHalves(p, s) == s \o When(HalvesTheBatch(p), AuxiliaryList(s))

DeepseekInTensors(p) ==
  LatentWeights \o NormPack("selfattention_out") \o SharedExpertWeights
  \o ExpertPack("block_sparse_moe_gate") \o RoutedExpertWeights
  \o When(p.enableFA3, DeepseekFa3)
  \o When(p.hasP2DWeight /\ p.layerId >= p.firstKDenseReplace,
          SharedExpertTpWeights \o ExpertPack("block_sparse_moe_gate_shuffled"))
  \o OfBothHalves(p, DeepseekDefaultIns)
  \o When(p.enableLoadBalance, Names(<<"fake_topk">>))
  \o OfBothHalves(p, ParallelInput)
  \o When(IsShared(p, "ATTN_CP") /\ p.isPrefill, AttnCpPrefill)
  \o When(IsShared(p, "ATTN_INNER_SP") /\ ~p.isPrefill, Names(<<"seq_len_sp">>))
  \o When(p.enableEPWB, OfBothHalves(p, Names(<<"expert_routing_map">>)))
  \o When(p.enablePrefixCache, PrefixCacheIns)
  \o When(p.mixSharedRouting, Names(<<"mix_shared_routing_weight", "mix_shared_routing_expert">>))
  \o When(p.enableMlaPrefetch, <<<<"next_q_proj_a", "weight">>, <<"next_k_proj_b_for_q", "weight">>>>)

DeepseekInternalTensors(p) == OfBothHalves(p, Names(
  When(p.enableEPWB /\ p.layerId >= p.firstKDenseReplace, <<"expert_routing_map_slice">>)
  \o <<"attention_out", "attention_add_out", "selfattention_norm_out", "moe_out_with_shared">>
  \o When(p.hasSharedExpert /\ ~p.isDenseLayer, <<"shared_expert_out">>)
  \o When(~p.attnAllreduce /\ p.hasAttnComm,
          When(~p.enableOutLcocTp, <<"attention_out_padding">>) \o <<"selfattention_norm_out_partial">>
          \o When(~p.enableGatherPreNorm, <<"hidden_states_padding", "hidden_states_scatter">>)
          \o When(p.attnReduceScatter /\ ~p.enableOutLcocTp, <<"attention_out_scatter">>)
          \o When(p.attnAllGather, <<"dp_attn_out_all_with_padding">>))
  \o When((p.ffnAllreduce \/ p.hasFfnComm) /\ ~(LeavesParts(p) /\ p.ffnStreamNum > 1), <<"mlp_out">>)
  \o When(p.ffnAllGather /\ ~LeavesParts(p), <<"mlp_out_all">>)
  \o When(p.hasFfnComm, <<"moe_out_with_shared_with_padding">>)
  \o When(isGatherPreNorm(p), <<"selfattention_norm_out_fp32">>)))

DeepseekOutTensors(p) ==
  OfBothHalves(p, Names(<<"out">>))
  \o When(~p.isDenseLayer /\ p.enableExpertCumSumOutput, Names(<<"gmm_cumsum_list">>))
-----------------------------------------------------------------------------
(* The attention.                                                          *)
SetLatentAttentionParam(p) ==
  [p.attn EXCEPT
     !.isPrefill = p.isPrefill, !.fa3 = p.enableFA3 /\ p.enableKvQuantLayer,
     !.pageMask = p.enableSpeculate, !.pageSpec = p.enableSpeculate,
     !.cp = p.ranks["ATTN_CP"], !.hasAttnInnerSp = IsShared(p, "ATTN_INNER_SP"),
     !.enableExtraOprojTp = p.enableExtraOprojTp, !.innerTp = IsShared(p, "ATTN_O_PROJ_TP"),
     !.tp = p.attnAllreduce, !.enableQkvdownDp = GathersInAttention(p), !.ffnAllGather = p.ffnAllGather,
     !.enableOutLcocTp = p.enableOutLcocTp, !.enablePrefixCache = p.enablePrefixCache]

HalfNames(names, aux) == [i \in DOMAIN names |-> Half(names[i], aux)]

SetAttention(p, aux) ==
  <<Node(OpOf("LatentAttention", SetLatentAttentionParam(p)),
      <<Half("hidden_states", aux)>> \o LatentWeights
      \o HalfNames(<<"cos_table", "sin_table", "seq_len", "k_cache", "k_rope_cache", "attention_mask", "q_len",
                     "token_offset", "layer_id", "block_tables", "slots", "attn_padding_idx">>, aux)
      \o When(p.enablePrefixCache, PrefixCacheIns)
      \o When(p.enableFA3 /\ p.enableKvQuantLayer, DeepseekFa3)
      \o When(GathersInAttention(p), HalfNames(<<"ffn_unpadding_idx">>, aux))
      \o When(IsShared(p, "ATTN_CP") /\ p.isPrefill, AttnCpPrefill)
      \o When(IsShared(p, "ATTN_INNER_SP") /\ ~p.isPrefill, Names(<<"seq_len_sp">>)),
      HalfNames(<<"attention_out">>, aux))>>

\* A node between tensors of one half.
HalfNode(kind, ins, outs, aux) == <<Node(Op(kind), HalfNames(ins, aux), HalfNames(outs, aux))>>
-----------------------------------------------------------------------------
(* From the attention to what the experts read.                            *)
SetPadding(aux) ==
  HalfNode("Gather", <<"attention_out", "attn_padding_idx">>, <<"attention_out_padding">>, aux)
SetResidualPadding(aux) ==
  HalfNode("Gather", <<"hidden_states", "attn_padding_idx">>, <<"hidden_states_padding">>, aux)
SetResidualSliceNode(aux) == HalfNode("Slice", <<"hidden_states_padding">>, <<"hidden_states_scatter">>, aux)
SetAttnReduceScatter(p, aux) ==
  HalfNode("ReduceScatter", <<IF p.enableOutLcocTp THEN "attention_out" ELSE "attention_out_padding">>,
           <<"attention_out_scatter">>, aux)

SetSelfResidualAdd(p, aux) ==
  HalfNode("Add",
           IF p.attnReduceScatter
           THEN <<"hidden_states_scatter",
                  IF p.enableOutLcocTp THEN "attention_out" ELSE "attention_out_scatter">>
           ELSE <<"hidden_states", "attention_out">>,
           <<"attention_add_out">>, aux)

\* The normalisation's own tensors: what an add and a norm in one have for the residual.
SelfOutNorm(p) ==
  LET weight == <<"selfattention_out", IF p.isAntiOutlier THEN "norm_new_weight" ELSE "norm_weight">>
  IN  IF p.normHasBias THEN <<<<"selfattention_out", "norm_weight">>, <<"selfattention_out", "norm_new_bias">>>>
      ELSE <<weight>>
SetNormQauntInTensors(p) ==
  CASE p.mlpNormQuantType = "INT8" ->
         IF p.isAntiOutlier THEN SubSeq(NormPack("selfattention_out"), 3, 4)
                            ELSE SubSeq(NormPack("selfattention_out"), 1, 2)
    [] p.mlpNormQuantType = "UNQUANT" /\ p.enableIntraLayerAddNorm ->
         <<<<"selfattention_out", "norm_weight">>>>
    [] OTHER -> SelfOutNorm(p)

NormOut(p) ==
  IF ~p.attnAllreduce /\ p.hasAttnComm THEN "selfattention_norm_out_partial" ELSE "selfattention_norm_out"

SetSelfNorm(p, aux) ==
  LET added == CASE ~p.enableIntraLayerAddNorm -> HalfNames(<<"attention_add_out">>, aux)
                 [] p.enableIntraLayerAddNorm /\ p.attnReduceScatter -> HalfNames(<<"hidden_states_scatter">>, aux)
                 [] OTHER -> <<Half("hidden_states", aux), T("attention_out")>>
  IN  <<Node(Op("AtbNorm"), added \o SetNormQauntInTensors(p),
             HalfNames(<<NormOut(p)>> \o When(p.enableIntraLayerAddNorm, <<"attention_add_out">>), aux))>>

\* What the attention has given to the norms that add and gather.
AttnPart(p) ==
  IF p.enableOutLcocTp THEN "attention_out"
  ELSE IF p.attnReduceScatter THEN "attention_out_scatter" ELSE "attention_out_padding"

SetGatherPreNorm(p, aux) ==
  <<Node(Op("GatherPreRmsNorm"),
         HalfNames((IF p.enableExtraOprojTp THEN <<"hidden_states", "attention_out">>
                                            ELSE <<AttnPart(p), "hidden_states">>)
                   \o <<"attention_padding_idx_slice">>, aux) \o SelfOutNorm(p),
         HalfNames(<<"selfattention_norm_out_fp32", "attention_add_out">>, aux))>>
SetCast(p, aux) ==
  HalfNode("Cast", <<"selfattention_norm_out_fp32">>,
           <<IF p.enableExtraOprojTp THEN "selfattention_norm_out" ELSE "selfattention_norm_out_partial">>, aux)
SetPreNorm(p, aux) ==
  <<Node(Op("RmsPreNorm"), HalfNames(<<AttnPart(p), "hidden_states">>, aux) \o SelfOutNorm(p),
         HalfNames(<<"selfattention_norm_out_partial", "attention_add_out">>, aux))>>

SetAllGather(aux) ==
  HalfNode("AllGather", <<"selfattention_norm_out_partial">>, <<"dp_attn_out_all_with_padding">>, aux)
SetAttnUnpadding(p, aux) ==
  HalfNode("Gather",
           <<IF p.attnAllGather THEN "dp_attn_out_all_with_padding" ELSE "selfattention_norm_out_partial",
             "attn_unpadding_idx">>, <<"selfattention_norm_out">>, aux)
-----------------------------------------------------------------------------
(* The feed-forward part.                                                  *)
SetMlpExpert(p, aux) ==
  <<Node(OpOf("SharedExpert", [p.shared EXCEPT !.hasSharedExpertGate = FALSE,
                                               !.enableSwiGLUQuantForSharedExperts = FALSE]),
         HalfNames(<<"selfattention_norm_out">>, aux) \o SharedExpertWeights,
         HalfNames(<<"moe_out_with_shared">>, aux))>>

DecodesWithP2D(p) == p.hasP2DWeight /\ ~p.isPrefill

SetSharedExpert(p, aux) ==
  <<Node(OpOf("SharedExpert", p.shared),
         HalfNames(<<IF p.enableSharedExpertDp /\ ~DecodesWithP2D(p) THEN "selfattention_norm_out_partial"
                                                                   ELSE "selfattention_norm_out">>, aux)
         \o (IF DecodesWithP2D(p) THEN SharedExpertTpWeights ELSE SharedExpertWeights),
         HalfNames(<<"shared_expert_out">>, aux))>>

\* SetSparseMoeParam and SetSparseMoeCommParam.
SetSparseMoeParam(p) ==
  LET ep == IsShared(p, "MOE_EP")
  IN  [p.moe EXCEPT
         !.ep.isDynamicEp = p.isDynamicEp, !.ep.mlp.hasMoeEp = ep,
         !.ep.mlp.enableMoeDistribute = ~p.isPrefill /\ p.enableAllToAllMC2 /\ p.isDynamicEp,
         !.ep.mlp.enableGatingDp = p.enableGatingDp /\ p.isPrefill,
         !.ep.mlp.enableInitRoutingV3 = ~p.isPrefill /\ ~ep,
         !.ep.mlp.enableExpertCumSumOutput = p.enableExpertCumSumOutput,
         !.enableGatingShift = p.enableGatingDp /\ ~p.isPrefill,
         !.enableFp32GateInput = isGatherPreNorm(p) /\ p.isDynamicEp,
         !.enableLoadBalance = p.enableLoadBalance, !.enableEPWB = p.enableEPWB,
         !.mixSharedRouting = p.mixSharedRouting]

SetExpertRoutingMapSlice(aux) == HalfNode("Slice", <<"expert_routing_map">>, <<"expert_routing_map_slice">>, aux)

SetMoe(p, aux) ==
  When(p.enableEPWB, SetExpertRoutingMapSlice(aux))
  \o <<Node(OpOf("SparseMoe", SetSparseMoeParam(p)),
         HalfNames(<<"selfattention_norm_out">>, aux)
         \o ExpertPack(IF DecodesWithP2D(p) THEN "block_sparse_moe_gate_shuffled" ELSE "block_sparse_moe_gate")
         \o RoutedExpertWeights
         \o HalfNames(<<"expert_array", "expert_group", "one_hot", "zero_hot">>, aux)
         \o When(p.enableLoadBalance, Names(<<"fake_topk">>))
         \o When(IsShared(p, "MOE_EP"),
                 HalfNames(<<"start_expert_idx", "device_expert_count", "ffn_padding_idx">>
                           \o When(p.isDynamicEp, <<"lty_idx", "moe_idx">>), aux))
         \o When(p.enableEPWB, HalfNames(<<"expert_routing_map_slice">>, aux))
         \o When(p.enableGatingDp /\ p.isPrefill,
                 HalfNames(<<"selfattention_norm_out_partial", "attn_unpadding_idx">>, aux))
         \o When(isGatherPreNorm(p) /\ p.isDynamicEp, HalfNames(<<"selfattention_norm_out_fp32">>, aux))
         \o When(p.mixSharedRouting, Names(<<"mix_shared_routing_weight", "mix_shared_routing_expert">>)),
         HalfNames(<<"moe_out_with_shared">>, aux)
         \o When(p.enableExpertCumSumOutput, Names(<<"gmm_cumsum_list">>)))>>

AddExpertAdd(p, aux) ==
  LET sum == IF p.enableSharedExpertDp THEN "mlp_out" ELSE "moe_out_with_shared"
  IN  HalfNode("Add", <<sum, "shared_expert_out">>, <<sum>>, aux)

SetFFN(p, aux) ==
  IF p.isDenseLayer THEN SetMlpExpert(p, aux)
  ELSE When(p.hasSharedExpert /\ ~p.enableSharedExpertOverlap, SetSharedExpert(p, aux))
       \o SetMoe(p, aux)
       \o When(p.hasSharedExpert /\ ~p.enableSharedExpertDp, AddExpertAdd(p, aux))
-----------------------------------------------------------------------------
(* From the experts to the next layer.                                     *)
SetFFNPadding(p, aux) ==
  HalfNode("Gather", IF p.hasAttnComm THEN <<"moe_out_with_shared", "ffn_padding_idx">>
                                      ELSE <<"mlp_out", "attn_padding_idx">>,
           <<"moe_out_with_shared_with_padding">>, aux)
SetAllReduce(aux) == HalfNode("AllReduce", <<"moe_out_with_shared">>, <<"mlp_out">>, aux)
SetMlpReduceScatter(aux) ==
  HalfNode("ReduceScatter", <<"moe_out_with_shared_with_padding">>, <<"mlp_out">>, aux)
NanToNum(name, aux) == HalfNode("InplaceNanToNum", <<name>>, <<name>>, aux)

SetMlaPrefetch ==
  <<Node(Op("AclrtCmoAsync"), <<<<"next_q_proj_a", "weight">>>>, <<>>),
    Node(Op("AclrtCmoAsync"), <<<<"next_k_proj_b_for_q", "weight">>>>, <<>>)>>

LayerSum(p) ==
  IF (p.ffnAllGather \/ p.ffnReduceScatter) /\ ~LeavesParts(p) THEN "mlp_out" ELSE "out"
SetMlpResidualAdd(p, aux) ==
  HalfNode("Add",
           <<"attention_add_out",
             CASE p.ffnAllreduce \/ p.ffnReduceScatter -> "mlp_out"
               [] ~(p.ffnAllreduce \/ p.ffnReduceScatter) /\ p.hasAttnComm /\ p.hasFfnComm ->
                    "moe_out_with_shared_with_padding"
               [] OTHER -> "moe_out_with_shared">>,
           <<LayerSum(p)>>, aux)

SetTPAllGatherNode(p, aux) ==
  HalfNode("AllGather", <<IF p.hasAttnComm THEN "mlp_out" ELSE "moe_out_with_shared_with_padding">>,
           <<"mlp_out_all">>, aux)
SetFFNUnPadding(p, aux) ==
  HalfNode("Gather",
           <<IF p.ffnAllGather THEN "mlp_out_all" ELSE "mlp_out",
             IF p.isLastLayer /\ (~p.enableDpOut \/ p.lmHeadLocalTp)
             THEN "lm_head_skip_padding_token_indices" ELSE "ffn_unpadding_idx">>,
           <<"out">>, aux)
-----------------------------------------------------------------------------
SetPostAttnProcess(p, aux) ==
  When(p.hasAttnComm,
       When(~p.enableOutLcocTp, SetPadding(aux))
       \o When(~p.enableGatherPreNorm, SetResidualPadding(aux) \o SetResidualSliceNode(aux)))
  \o When(p.attnReduceScatter /\ ~p.enableOutLcocTp, SetAttnReduceScatter(p, aux))
  \o (IF (p.hasAttnComm /\ p.enableGatherPreNorm) \/ p.enableExtraOprojTp
      THEN IF GathersInAttention(p) THEN SetPreNorm(p, aux) ELSE SetGatherPreNorm(p, aux) \o SetCast(p, aux)
      ELSE When(~p.enableIntraLayerAddNorm, SetSelfResidualAdd(p, aux)) \o SetSelfNorm(p, aux))
  \o When(p.enableSharedExpertOverlap /\ ~p.isDenseLayer /\ p.hasSharedExpert, SetSharedExpert(p, aux))
  \o When(p.attnAllGather, SetAllGather(aux))
  \o When(p.hasAttnComm, SetAttnUnpadding(p, aux))

SetPostMoeProcess(p, aux) ==
  When(p.hasFfnComm /\ p.hasAttnComm, SetFFNPadding(p, aux))
  \o (CASE p.ffnAllreduce -> SetAllReduce(aux)
        [] ~p.ffnAllreduce /\ p.ffnReduceScatter ->
             SetMlpReduceScatter(aux) \o When(p.enableInfNan, NanToNum("mlp_out", aux))
             \o When(p.enableSharedExpertDp, AddExpertAdd(p, aux))
        [] OTHER -> <<>>)
  \o When(p.enableMlaPrefetch, SetMlaPrefetch)
  \o SetMlpResidualAdd(p, aux) \o When(p.enableInfNan, NanToNum(LayerSum(p), aux))
  \o When(p.ffnAllGather /\ ~p.hasAttnComm, SetFFNPadding(p, aux))
  \o When(~p.enableQkvdownDp \/ p.isLastLayer,
          When(p.ffnAllGather, SetTPAllGatherNode(p, aux)) \o When(p.hasFfnComm, SetFFNUnPadding(p, aux)))

BuildDeepseekLayer(p) ==
  LET both(Part(_, _)) == Part(p, FALSE) \o When(HalvesTheBatch(p), Part(p, TRUE))
      AttnHalf(q, aux) == SetAttention(q, aux) \o SetPostAttnProcess(q, aux)
      FfnHalf(q, aux) == SetFFN(q, aux) \o SetPostMoeProcess(q, aux)
  IN  Graph(DeepseekInTensors(p), DeepseekOutTensors(p), DeepseekInternalTensors(p),
            both(AttnHalf) \o both(FfnHalf))
DeepseekLayer(p) == BuildDeepseekLayer(Prepared(p))
=============================================================================
