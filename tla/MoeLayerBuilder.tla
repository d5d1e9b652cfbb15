---------------------------- MODULE MoeLayerBuilder ----------------------------
(***************************************************************************)
(* models/moe/layer/decoder_layer.cpp: a layer of the other models with     *)
(* experts.  It is a layer of a dense model, whose attention it takes over, *)
(* with another feed-forward part and with the exchanges between ranks that *)
(* the two parts need.  `base' has the parameter of the dense layer that it *)
(* is built from: what the layer sets in its own parameter later, the dense *)
(* layer does not see.                                                     *)
(***************************************************************************)
EXTENDS BaseLayerBuilder, ExpertParallelBuilder

MoeRankGroups == {"ATTN_TP", "ATTN_DP", "MOE_EP", "MOE_TP"}

DefaultMoeLayer ==
  [base |-> DefaultLayer, moe |-> DefaultSparseMoe, shared |-> DefaultSharedExpert,
   ranks |-> [g \in MoeRankGroups |-> 1], isDenseLayer |-> FALSE,
   isDynamicEp |-> FALSE, isMlpFullTP |-> FALSE, hasSharedExpert |-> FALSE, normHasBias |-> FALSE,
   attnStreamNum |-> 1, ffnStreamNum |-> 1, attnAllreduce |-> FALSE, attnReduceScatter |-> FALSE,
   attnAllGather |-> FALSE, ffnAllreduce |-> FALSE, ffnReduceScatter |-> FALSE, ffnAllGather |-> FALSE,
   hasAttnComm |-> FALSE, hasFfnComm |-> FALSE, enableIntraLayerAddNorm |-> FALSE,
   enablePrefixCache |-> FALSE, enableAllToAllMC2 |-> FALSE, enableGatingDp |-> FALSE,
   enableExpertCumSumOutput |-> FALSE, enableLoadBalance |-> FALSE, enableEPWB |-> FALSE]
-----------------------------------------------------------------------------
MoeDataPartition(p) ==
  [p EXCEPT !.attnStreamNum = p.ranks["ATTN_DP"],
            !.ffnStreamNum = CASE p.isDenseLayer -> IF p.isMlpFullTP THEN 1 ELSE p.ranks["ATTN_DP"]
                               [] ~p.isDenseLayer /\ p.isDynamicEp -> p.ranks["MOE_EP"] * p.ranks["MOE_TP"]
                               [] OTHER -> 1]

MoeCommType(p) ==
  LET worldSize == p.ranks["ATTN_TP"] * p.ranks["ATTN_DP"]
      tp == p.ranks["ATTN_TP"] > 1
      outStreamNum == IF LastLayer(p.base) THEN 1 ELSE p.attnStreamNum
      attnAllreduce == tp /\ p.ffnStreamNum = p.attnStreamNum
      attnReduceScatter == ~attnAllreduce /\ tp
      attnAllGather == (attnReduceScatter /\ worldSize > p.ffnStreamNum) \/ p.attnStreamNum > p.ffnStreamNum
      ffnAllreduce == attnAllreduce /\ p.ffnStreamNum = outStreamNum
      ffnReduceScatter == ~ffnAllreduce /\ p.ffnStreamNum < worldSize
      ffnAllGather == (IF ffnReduceScatter THEN worldSize ELSE p.ffnStreamNum) # outStreamNum
  IN  IF worldSize = 1 THEN p
      ELSE [p EXCEPT !.attnAllreduce = attnAllreduce, !.attnReduceScatter = attnReduceScatter,
                     !.attnAllGather = attnAllGather, !.ffnAllreduce = ffnAllreduce,
                     !.ffnReduceScatter = ffnReduceScatter, !.ffnAllGather = ffnAllGather,
                     !.hasAttnComm = attnReduceScatter \/ attnAllGather,
                     !.hasFfnComm = ffnReduceScatter \/ ffnAllGather]

\* What BuildGraph works with: it turns two fused operations on for all layers.
MoePrepared(p) ==
  MoeCommType(MoeDataPartition([p EXCEPT !.enableIntraLayerAddNorm = TRUE, !.moe.enableFusedTopk = TRUE]))
-----------------------------------------------------------------------------
MoeAttnWeights == CrossPack("qkv_0") \o CrossPack("qkv_1") \o CrossPack("qkv_2") \o CrossPack("qkv_dense")
MoeWeights == ExpertPack("block_sparse_moe_gate") \o ExpertPack("mlp_gateup") \o ExpertPack("mlp_down")
MoeSharedWeights ==
  ExpertPack("mlp_gateup_shared_expert") \o ExpertPack("mlp_down_shared_expert") \o ExpertPack("shared_expert_gate")
MoeDefaultIns == Names(<<"expert_array", "expert_group", "one_hot", "zero_hot">>)
MoeParallelIns ==
  Names(<<"attn_padding_idx", "attn_unpadding_idx", "ffn_padding_idx", "ffn_unpadding_idx",
          "lm_head_skip_padding_token_indices", "attention_padding_idx_slice", "start_expert_idx",
          "device_expert_count", "lty_idx", "moe_idx">>)

MoeLayerInTensors(p) ==
  NormPack("input_norm") \o MoeAttnWeights \o NormPack("post_attn_norm")
  \o When(p.hasSharedExpert \/ p.isDenseLayer, MoeSharedWeights) \o MoeWeights
  \o When(p.base.useQKNorm, QKNormWeights) \o LayerDefaultIns
  \o When(p.base.hasAttnDp, AttnDpIns) \o MoeDefaultIns
  \o When(p.base.enableSpeculate \/ p.base.enableSplitFuse \/ p.enablePrefixCache, Names(<<"q_len">>))
  \o MoeParallelIns
  \o When(p.base.enableAclGraphPagedAttention /\ ~p.base.linear.isPrefill, Names(<<"paged_attention_tiling_data">>))

MoeLayerInternalTensors(p) ==
  LayerInternalTensors([p.base EXCEPT !.hasAttnDp = FALSE, !.multiStream = FALSE])
  \o Names(<<"norm_out">>
    \o When(~p.isDenseLayer /\ p.hasSharedExpert, <<"moe_out", "shared_expert_out">>)
    \o When(p.enableIntraLayerAddNorm, <<"norm_rstd_out">>)
    \o When(p.hasAttnComm,
            <<"attn_out_padding", "norm_out_with_padding", "hidden_states_padding", "hidden_states_slice">>
            \o When(p.attnReduceScatter, <<"attn_out_scatter">>) \o When(p.attnAllGather, <<"norm_out_partial">>))
    \o When(p.hasFfnComm,
            <<"mlp_out_padding">> \o When(p.ffnReduceScatter, <<"mlp_out_scatter">>)
            \o When(p.ffnAllGather, <<"mlp_out_padding_partial">>)))
-----------------------------------------------------------------------------
(* The attention and what follows it.                                      *)
\* SetFusionAttentionLinearParam of this layer: the ranks sum up only when the layer says so.
MoeAttentionParam(p) ==
  [SetFusionAttentionParam(p.base) EXCEPT !.tp = p.attnAllreduce, !.norm.obfuscation = 0]
AddMoeAttention(p) ==
  LET nodes == AddFusionAttention(p.base, FALSE)
  IN  [nodes EXCEPT ![1].op.param = MoeAttentionParam(p)]

\* The rows that this rank works on between the two parts, and what the attention adds to them.
Rows(p) ==
  IF ~p.hasAttnComm THEN "hidden_states"
  ELSE IF p.attnReduceScatter THEN "hidden_states_slice" ELSE "hidden_states_padding"
AttnRows(p) ==
  IF ~p.hasAttnComm THEN "attn_out"
  ELSE IF p.attnReduceScatter THEN "attn_out_scatter" ELSE "attn_out_padding"

AddAttnOutPadding == Binary("Gather", "attn_out", "attn_padding_idx", "attn_out_padding")
AddResidualPadding == Binary("Gather", "hidden_states", "attn_padding_idx", "hidden_states_padding")
AddResidualSliceNode == Unary("Slice", "hidden_states_padding", "hidden_states_slice")
AddAttnReduceScatter == Unary("ReduceScatter", "attn_out_padding", "attn_out_scatter")
AddAttnResidualAdd(p) == Binary("Add", Rows(p), AttnRows(p), Rows(p))

SetAddNormNode ==
  <<Node(Op("AddRmsNorm"), <<T("hidden_states"), T("attn_out"), <<"post_attn_norm", "norm_weight">>>>,
         Names(<<"norm_out", "norm_rstd_out", "hidden_states">>))>>

\* The norm of norm_linear.cpp with the tensors of this layer; it asks for what the parameter
\* of the dense layer needs.
SetSelfNormParam(p) ==
  [DefaultNormLinear EXCEPT !.isAntiOutlier = CheckAntiOutlier(p.base.mlpPack), !.normHasBias = p.normHasBias,
                            !.enableAddNorm = p.base.enableIntraLayerAddNorm]
ConstructNormTensorMap(p, t) ==
  CASE t = T("input") -> T(Rows(p))
    [] t \in Elements(NormPack("norm")) -> <<"post_attn_norm", t[2]>>
    [] t \in {<<"linear", "scale">>, <<"linear", "offset">>} -> <<"mlp_gateup", t[2]>>
    [] t = T("norm") ->
         T(IF ~p.hasAttnComm THEN "norm_out" ELSE IF p.attnAllGather THEN "norm_out_partial" ELSE "norm_out_with_padding")
    [] t = T("out_add") -> T(Rows(p))
    [] t = T("residual_input") -> T(AttnRows(p))
    [] OTHER -> T("not in the map")
AddSelfNorm(p) ==
  LET norm == InsertNorm(SetSelfNormParam(p))[1]
      Here(s) == [i \in DOMAIN s |-> ConstructNormTensorMap(p, s[i])]
  IN  <<Node(norm.op, Here(norm.ins), Here(norm.outs))>>

AddAttnAllGather == Unary("AllGather", "norm_out_partial", "norm_out_with_padding")
AddAttnOutUnpadding == Binary("Gather", "norm_out_with_padding", "attn_unpadding_idx", "norm_out")

AddPostAttentionProcess(p) ==
  CASE p.hasAttnComm ->
         AddAttnOutPadding \o AddResidualPadding \o AddResidualSliceNode
         \o When(p.attnReduceScatter, AddAttnReduceScatter) \o AddAttnResidualAdd(p) \o AddSelfNorm(p)
         \o When(p.attnAllGather, AddAttnAllGather) \o AddAttnOutUnpadding
    [] ~p.hasAttnComm /\ p.enableIntraLayerAddNorm -> SetAddNormNode
    [] OTHER -> AddAttnResidualAdd(p) \o AddSelfNorm(p)
-----------------------------------------------------------------------------
(* The feed-forward part.                                                  *)
AddMlpExpert(p) ==
  <<Node(OpOf("SharedExpert", [p.shared EXCEPT !.hasSharedExpertGate = @ /\ ~p.isDenseLayer]),
         Names(<<"norm_out">>) \o MoeSharedWeights,
         Names(<<IF p.isDenseLayer THEN "mlp_out" ELSE "shared_expert_out">>))>>

\* SetSparseMoeParam and SetSparseMoeCommParam.
MoeSparseMoeParam(p) ==
  [p.moe EXCEPT
     !.ep.isDynamicEp = p.isDynamicEp, !.ep.mlp.hasMoeEp = p.ranks["MOE_EP"] > 1,
     !.ep.mlp.enableMoeDistribute = ~p.base.linear.isPrefill /\ p.enableAllToAllMC2 /\ p.isDynamicEp,
     !.ep.mlp.enableGatingDp = p.enableGatingDp /\ p.base.linear.isPrefill,
     !.ep.mlp.enableExpertCumSumOutput = p.enableExpertCumSumOutput,
     !.enableGatingShift = p.enableGatingDp /\ ~p.base.linear.isPrefill,
     !.enableLoadBalance = p.enableLoadBalance, !.enableEPWB = p.enableEPWB]

AddMoe(p) ==
  <<Node(OpOf("SparseMoe", MoeSparseMoeParam(p)),
         Names(<<"norm_out">>) \o MoeWeights \o MoeDefaultIns
         \o When(p.ranks["MOE_EP"] > 1,
                 Names(<<"start_expert_idx", "device_expert_count", "ffn_padding_idx">>
                       \o When(p.isDynamicEp, <<"lty_idx", "moe_idx">>))),
         Names(<<IF p.hasSharedExpert THEN "moe_out" ELSE "mlp_out">>))>>

AddSharedExpertOut == Binary("Add", "moe_out", "shared_expert_out", "mlp_out")

AddFFN(p) ==
  IF p.isDenseLayer THEN AddMlpExpert(p)
  ELSE When(p.hasSharedExpert, AddMlpExpert(p)) \o AddMoe(p) \o When(p.hasSharedExpert, AddSharedExpertOut)
-----------------------------------------------------------------------------
(* From the experts to the next layer.                                     *)
AddFFNOutPadding(p) ==
  Binary("Gather", IF ~p.hasAttnComm /\ p.ffnReduceScatter THEN "mlp_out_scatter" ELSE "mlp_out",
         IF p.hasAttnComm THEN "ffn_padding_idx" ELSE "attn_padding_idx",
         IF p.ffnAllGather THEN "mlp_out_padding_partial" ELSE "mlp_out_padding")
AddMoeAllReduce == Unary("AllReduce", "mlp_out", "mlp_out")
AddFFNReduceScatter(p) ==
  Unary("ReduceScatter", IF p.ffnAllGather THEN "mlp_out_padding_partial" ELSE "mlp_out_padding", "mlp_out_scatter")

AddMoeResidualAdd(p) ==
  LET part == CASE p.ffnReduceScatter -> "mlp_out_scatter"
                [] ~p.ffnReduceScatter /\ p.ffnAllGather /\ p.hasAttnComm -> "mlp_out_padding_partial"
                [] OTHER -> "mlp_out"
  IN  Binary("Add", Rows(p), part, IF p.hasFfnComm THEN part ELSE "out")

AddFFNAllGatherNode(p) ==
  Unary("AllGather", IF p.ffnReduceScatter THEN "mlp_out_scatter" ELSE "mlp_out_padding_partial", "mlp_out_padding")
AddFFNOutUnPadding(p) ==
  Binary("Gather", IF p.ffnAllGather THEN "mlp_out_padding" ELSE "mlp_out_scatter",
         IF LastLayer(p.base) THEN "lm_head_skip_padding_token_indices" ELSE "ffn_unpadding_idx", "out")

AddPostFFNProcess(p) ==
  When(p.ffnAllreduce, AddMoeAllReduce)
  \o When(p.hasFfnComm /\ p.hasAttnComm, AddFFNOutPadding(p))
  \o When(p.ffnReduceScatter, AddFFNReduceScatter(p))
  \o AddMoeResidualAdd(p)
  \o When(p.ffnAllGather, When(~p.hasAttnComm, AddFFNOutPadding(p)) \o AddFFNAllGatherNode(p))
  \o When(p.hasFfnComm, AddFFNOutUnPadding(p))

BuildMoeLayer(p) ==
  Graph(MoeLayerInTensors(p), Names(<<"out">>), MoeLayerInternalTensors(p),
        AddMoeAttention(p) \o AddPostAttentionProcess(p) \o AddFFN(p) \o AddPostFFNProcess(p))
MoeLayer(p) == BuildMoeLayer(MoePrepared(p))
=============================================================================
