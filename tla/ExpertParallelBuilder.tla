------------------------ MODULE ExpertParallelBuilder ------------------------
(***************************************************************************)
(* operations/fusion/moe/ep: experts that are spread over the ranks, with   *)
(* the exchange of tokens before and after them; and sparse_moe.cpp, the    *)
(* choice of the experts of every token.                                    *)
(***************************************************************************)
EXTENDS MoeBuilder

\* data_preparation.cpp
CreateDataPreparationOperation ==
  Graph(Names(<<"selected_experts", "idx", "one_hot", "zero_hot">>),
        Names(<<"shuffle_idx", "expert_idx", "group_count">>), Names(<<"group_count_all">>),
        <<Node(Op("Gating"), Names(<<"selected_experts", "idx">>),
               Names(<<"shuffle_idx", "group_count_all", "expert_idx">>))>>
        \o Unary("Slice", "group_count_all", "group_count"))

\* all_to_all_meta.cpp
CreateAllToAllMetaOperation ==
  Graph(Names(<<"group_count", "idx", "zero_hot">>),
        Names(<<"shuffle_idx_for_device_buffer", "shuffle_weight_mask", "valid_idx">>),
        Names(<<"buffer_idx", "buffer_idx_int64", "group_count_int64", "shuffle_idx_int64",
                "zero_hot_int64", "shuffle_filter_mask", "shuffle_idx_int32",
                "shuffle_idx_float16", "one_mask", "shuffle_weight">>),
        Unary("Slice", "idx", "valid_idx") \o Unary("Slice", "idx", "buffer_idx")
        \o Unary("Cast", "buffer_idx", "buffer_idx_int64")
        \o Unary("Cast", "group_count", "group_count_int64")
        \o Binary("Sub", "group_count_int64", "buffer_idx_int64", "shuffle_idx_int64")
        \o Unary("Cast", "zero_hot", "zero_hot_int64")
        \o Binary("Less", "shuffle_idx_int64", "zero_hot_int64", "shuffle_filter_mask")
        \o Unary("Cast", "shuffle_idx_int64", "shuffle_idx_int32")
        \o Binary("Fill", "shuffle_idx_int32", "shuffle_filter_mask", "shuffle_idx_for_device_buffer")
        \o Unary("AclNNCast", "shuffle_idx_int32", "shuffle_idx_float16")
        \o Unary("Not", "shuffle_filter_mask", "one_mask")
        \o Binary("Fill", "shuffle_idx_float16", "shuffle_filter_mask", "shuffle_weight")
        \o Binary("Fill", "shuffle_weight", "one_mask", "shuffle_weight_mask"))

\* all_to_all_dispatch.cpp
CreateAllToAllDispatchOperation ==
  Graph(Names(<<"hiddenstatus", "selected_experts", "expert_weight", "hidden_shuffle_idx",
                "expert_shuffle_idx", "zero_hot", "one_hot">>),
        Names(<<"recv_hiddenstatus", "recv_selected_experts", "recv_expert_weight">>),
        Names(<<"send_expert", "send_hiddenstatus">>),
        Binary("Gather", "selected_experts", "expert_shuffle_idx", "send_expert")
        \o Binary("Gather", "expert_weight", "expert_shuffle_idx", "recv_expert_weight")
        \o Binary("Gather", "hiddenstatus", "hidden_shuffle_idx", "send_hiddenstatus")
        \o Unary("AllToAll", "send_hiddenstatus", "recv_hiddenstatus")
        \o Unary("AllToAll", "send_expert", "recv_selected_experts"))

\* all_to_all_collect.cpp
CreateAllToAllCollectOperation(p) ==
  Graph(Names(<<"hiddenstates", "moe_out", "mask", "shuffle_idx", "valid_idx">>),
        Names(<<"out_hiddenstates">>),
        Names(<<"recv_output", "filtered_output">>)
        \o When(p.hasMoeTp, Names(<<"moe_output_partial", "moe_output">>)),
        When(p.hasMoeTp, Unary("AllToAll", "moe_out", "moe_output_partial")
                         \o Unary("Reduce", "moe_output_partial", "moe_output"))
        \o Unary("AllToAll", IF p.hasMoeTp THEN "moe_output" ELSE "moe_out", "recv_output")
        \o Binary("Mul", "recv_output", "mask", "filtered_output")
        \o Unary("Muls", "hiddenstates", "out_hiddenstates")
        \o <<Node(Op("IndexAdd"),
                  Names(<<"out_hiddenstates", "shuffle_idx", "filtered_output", "valid_idx">>),
                  Names(<<"out_hiddenstates">>))>>)

\* fused_alltoall_gmm.cpp
All2AllMatmulRoles == <<"weight", "descale", "offset", "scale", "compress_idx">>
CreateAll2AllMatmulOperation ==
  Graph(Names(<<"hiddenstatus">>) \o Parts("gateup_expert", All2AllMatmulRoles)
        \o Parts("down_expert", All2AllMatmulRoles)
        \o Names(<<"expert_array", "selected_experts", "expert_weight", "moe_idx">>),
        Names(<<"out_hiddenstates">>),
        Names(<<"hiddenstates", "idx", "group_list", "dynamic_scale", "group_list_full",
                "gateup_scale_fp32", "gate_up_out", "quant_swish_out", "swish_out_scale",
                "down_scale_fp32", "mlp_out", "tokens_before_capacity">>),
        <<Node(Op("MoeInitRoutingQuant"), Names(<<"hiddenstatus", "selected_experts">>),
               Names(<<"hiddenstates", "idx", "group_list", "tokens_before_capacity", "dynamic_scale">>))>>
        \o Unary("AllGather", "group_list", "group_list_full")
        \o <<Node(Op("Cast"), <<<<"gateup_expert", "scale">>>>, Names(<<"gateup_scale_fp32">>)),
             Node(Op("AllToAllMatmul"),
                  <<T("hiddenstates"), <<"gateup_expert", "weight">>, T("gateup_scale_fp32"),
                    T("dynamic_scale"), T("group_list_full"), T("moe_idx")>>, Names(<<"gate_up_out">>)),
             Node(OpOf("DequantSwigluQuant", [inTensorsNum |-> 1]), Names(<<"gate_up_out">>),
                  Names(<<"quant_swish_out", "swish_out_scale">>)),
             Node(Op("Cast"), <<<<"down_expert", "scale">>>>, Names(<<"down_scale_fp32">>)),
             Node(Op("MatmulAllToAll"),
                  <<T("quant_swish_out"), <<"down_expert", "weight">>, T("down_scale_fp32"),
                    T("swish_out_scale"), T("group_list_full"), T("idx")>>, Names(<<"mlp_out">>)),
             Node(Op("MoeTokenUnpermute"), Names(<<"mlp_out", "idx", "expert_weight">>),
                  Names(<<"out_hiddenstates">>))>>)
-----------------------------------------------------------------------------
(* dynamic_ep_moe.cpp.  `mlp' is what MoeMlp takes over.                    *)
DefaultDynamicEpMoE ==
  [mlp |-> DefaultMoeMlp, isDynamicEp |-> FALSE, expertParallelDegree |-> 0, hasMoeTp |-> FALSE,
   enableLcocAll2All |-> FALSE]

ExchangesTokens(p) == p.mlp.hasMoeEp /\ p.isDynamicEp /\ ~p.mlp.enableMoeDistribute
FusesExchange(p) == p.enableLcocAll2All /\ p.isDynamicEp

EpTensors(p) ==
  When(p.mlp.hasMoeEp,
       Names(<<"start_expert_idx", "device_expert_count", "padding_idx">>)
       \o When(p.isDynamicEp, Names(<<"dynamic_ep_idx", "moe_idx">>)))

DynamicEpInTensors(p) ==
  Names(<<"hiddenstatus">>) \o ExpertPack("gateup_expert") \o ExpertPack("down_expert")
  \o Names(<<"expert_array", "selected_experts", "expert_weight", "one_hot", "zero_hot">>) \o EpTensors(p)
DynamicEpOutTensors(p) ==
  Names(<<"out_hiddenstates">>) \o When(p.mlp.enableExpertCumSumOutput, Names(<<"gmm_cumsum_list">>))
DynamicEpInternalTensors(p) ==
  When(ExchangesTokens(p) /\ ~p.enableLcocAll2All,
       Names(<<"shuffle_idx", "expert_shuffle_idx", "valid_idx", "buffer_idx", "shuffle_idx_1",
               "shuffle_idx_2", "expert_shuffle_idx_1", "group_count", "shuffle_weight",
               "recv_hiddenstatus", "recv_selected_experts", "experts_weight",
               "experts_weight_cast", "moe_output">>))

CreateFusedAllToAllMlp ==
  <<Node(Op("All2AllMatmul"),
         Names(<<"hiddenstatus">>) \o Parts("gateup_expert", All2AllMatmulRoles)
         \o Parts("down_expert", All2AllMatmulRoles)
         \o Names(<<"expert_array", "selected_experts", "expert_weight", "moe_idx">>),
         Names(<<"out_hiddenstates">>))>>

CreateDataPreparation ==
  <<Node(Op("DataPreparation"), Names(<<"selected_experts", "dynamic_ep_idx", "one_hot", "zero_hot">>),
         Names(<<"shuffle_idx", "expert_shuffle_idx", "group_count">>))>>
CreateAllToAllMeta ==
  <<Node(Op("AllToAllMeta"), Names(<<"group_count", "moe_idx", "zero_hot">>),
         Names(<<"buffer_idx", "shuffle_weight", "valid_idx">>))>>
CreateAllToAllDispatch ==
  <<Node(Op("AllToAllDispatch"),
         Names(<<"hiddenstatus", "selected_experts", "expert_weight", "shuffle_idx_1",
                 "expert_shuffle_idx_1", "zero_hot", "one_hot">>),
         Names(<<"recv_hiddenstatus", "recv_selected_experts", "experts_weight">>))>>
CreateAllToAllCollect(p) ==
  <<Node(OpOf("AllToAllCollect", [hasMoeTp |-> p.hasMoeTp]),
         Names(<<"hiddenstatus", "moe_output", "shuffle_weight", "shuffle_idx_1", "valid_idx">>),
         Names(<<"out_hiddenstates">>))>>

SetMoeMlpParam(p) ==
  [p.mlp EXCEPT !.shiftedTopK = p.expertParallelDegree = 1,
                !.enableMoeDistribute = @ /\ p.isDynamicEp,
                !.enableInitRoutingCutoff = @ /\ ~ExchangesTokens(p)]

CreateMoeMlp(p) ==
  LET moved == ExchangesTokens(p)
  IN  <<Node(OpOf("MoeMlp", SetMoeMlpParam(p)),
          Names(<<IF moved THEN "recv_hiddenstatus" ELSE "hiddenstatus">>)
          \o ExpertPack("gateup_expert") \o ExpertPack("down_expert")
          \o (IF moved THEN Names(<<"expert_array", "recv_selected_experts", "expert_array">>)
              ELSE Names(<<"expert_array", "selected_experts", "expert_weight">>))
          \o When(p.mlp.hasMoeEp,
                  Names(<<"zero_hot", "start_expert_idx", "device_expert_count", "padding_idx">>)),
          Names(<<IF moved THEN "moe_output" ELSE "out_hiddenstates">>)
          \o When(p.mlp.enableExpertCumSumOutput, Names(<<"gmm_cumsum_list">>)))>>

CreateDynamicEpMoEOperation(p) ==
  Graph(DynamicEpInTensors(p), DynamicEpOutTensors(p), DynamicEpInternalTensors(p),
    CASE FusesExchange(p) -> CreateFusedAllToAllMlp
      [] ExchangesTokens(p) ->
           CreateDataPreparation \o CreateAllToAllMeta
           \o Binary("Gather", "shuffle_idx", "buffer_idx", "shuffle_idx_1")
           \o Binary("Gather", "expert_shuffle_idx", "buffer_idx", "expert_shuffle_idx_1")
           \o CreateAllToAllDispatch \o CreateMoeMlp(p)
           \o Unary("Cast", "experts_weight", "experts_weight_cast")
           \o Binary("Mul", "experts_weight_cast", "shuffle_weight", "shuffle_weight")
           \o Binary("Gather", "shuffle_idx", "buffer_idx", "shuffle_idx_2")
           \o CreateAllToAllCollect(p)
      [] OTHER -> CreateMoeMlp(p))
-----------------------------------------------------------------------------
(* sparse_moe.cpp.                                                         *)
DefaultSparseMoe ==
  [ep |-> DefaultDynamicEpMoE, routingMethod |-> "softMaxTopK", processLogits |-> "none",
   densePack |-> UndefinedPack, routerType |-> "INT", rounterHasBias |-> FALSE, enableFusedTopk |-> FALSE,
   enableATBGateMatmul |-> FALSE, enableFp32GateInput |-> FALSE, enableTopkFp32 |-> FALSE,
   useStdNorm |-> FALSE, enableGatingShift |-> FALSE, enableFusedReducesumDiv |-> FALSE,
   forceMoeFusedAddTopkAddNumFp32 |-> FALSE, mixSharedRouting |-> FALSE, enableEPWB |-> FALSE,
   enableLoadBalance |-> FALSE, oneGroup |-> FALSE, firstDevice |-> TRUE]

HasLogits(p) == p.processLogits # "none"
SkipCast(p) ==
  ~p.enableFusedTopk /\ ~p.ep.mlp.enableMoeDistribute /\ HasLogits(p) /\ ~p.mixSharedRouting
CastsToFp16(p) ==
  /\ ~SkipCast(p) /\ ~p.ep.mlp.enableMoeDistribute /\ HasLogits(p)
  /\ ~p.enableFusedTopk \/ p.ep.mlp.enableGatingDp

SparseMoeInTensors(p) ==
  Names(<<"hiddenstates">>) \o ExpertPack("gate")
  \o ExpertPack("gateup_expert") \o ExpertPack("down_expert")
  \o Names(<<"expert_array", "expert_group", "one_hot", "zero_hot">>)
  \o When(p.enableLoadBalance, Names(<<"fake_topk">>)) \o EpTensors(p.ep)
  \o When(p.enableEPWB, Names(<<"expert_routing_map">>))
  \o When(p.ep.mlp.enableGatingDp, Names(<<"hiddenstates_slice", "attn_unpadding_idx">>))
  \o When(p.enableFp32GateInput, Names(<<"in_hiddenstates_fp32">>))
  \o When(p.mixSharedRouting, Names(<<"mix_shared_routing_weight", "mix_shared_routing_expert">>))

RoutingTensors(p) ==
  LET noAuxTc == p.routingMethod = "noAuxTc"
      sums == \/ p.processLogits \in {"norm", "normScaling"}
              \/ p.processLogits = "normalization" /\ ~p.enableFusedReducesumDiv
  IN  When(noAuxTc /\ p.enableATBGateMatmul,
           When(~p.enableFp32GateInput, Names(<<"hiddenstates_fp32">>))
           \o When(~p.enableTopkFp32, Names(<<"logits_fp32">>)))
      \o When(~p.enableFusedTopk,
           Names(<<"weights", "topk">>)
           \o When(noAuxTc, Names(<<"for_choice", "topk_temp">>))
           \o When(p.useStdNorm, Names(<<"logits_std">>))
           \o When(HasLogits(p), Names(<<"reduced">>)) \o When(sums, Names(<<"sumed">>)))
      \o When(~SkipCast(p) /\ HasLogits(p),
           Names(<<"reduced_fp32">>) \o When(CastsToFp16(p), Names(<<"reduced_fp16">>)))
      \o When(p.mixSharedRouting, Names(<<"reduced_mix_shared", "experts_mix_shared">>))

SparseMoeInternalTensors(p) ==
  Names(<<"logits", "experts">>) \o RoutingTensors(p)
  \o When(p.enableEPWB, Names(<<"experts_routed">>))
  \o When(p.ep.mlp.enableGatingDp,
          Names(<<"experts_padded_all", "experts_all", "reduced_padded_all", "reduced_all">>))
  \o When(p.enableGatingShift, Names(<<"logits_split_1", "logits_split_2", "logits_shifted">>))
  \o When(p.forceMoeFusedAddTopkAddNumFp32, Names(<<"router_bias_fp32">>))

CreateSparseMoemoeGate(p) ==
  LET pack == IF p.densePack = UndefinedPack THEN p.ep.mlp.pack ELSE p.densePack
      type == GetLinearQuantType(pack, p.routerType, FALSE, "INVALID")
  IN  <<Node(OpOf("FusionLinear",
                  [DefaultLinear EXCEPT !.quantType = type, !.hasBias = p.rounterHasBias]),
             Names(<<"hiddenstates">>) \o Pack("gate"), Names(<<"logits">>))>>
GateRows(p) == IF p.ep.mlp.enableGatingDp THEN "hiddenstates_slice" ELSE "hiddenstates"
CreateSparseMoemoeGateFp32Atb(p) ==
  LET wide == IF p.enableTopkFp32 THEN "logits" ELSE "logits_fp32"
      rows == IF p.enableFp32GateInput THEN "in_hiddenstates_fp32" ELSE "hiddenstates_fp32"
  IN  When(~p.enableFp32GateInput, Unary("AclNNCast", GateRows(p), rows))
      \o <<Node(Op("Linear"), <<T(rows), <<"gate", "weight">>>>, <<T(wide)>>)>>
      \o When(~p.enableTopkFp32, Unary("Cast", wide, "logits"))
CreateSparseMoemoeGateFp32Aclnn(p) ==
  <<Node(OpOf("Matmul", [hasBias |-> FALSE]), <<T(GateRows(p)), <<"gate", "weight">>>>,
         Names(<<"logits">>))>>
Gate(p) ==
  IF p.routingMethod # "noAuxTc" THEN CreateSparseMoemoeGate(p)
  ELSE IF p.enableATBGateMatmul THEN CreateSparseMoemoeGateFp32Atb(p)
       ELSE CreateSparseMoemoeGateFp32Aclnn(p)

CreateSplit == <<Node(Op("Split"), Names(<<"logits">>), Names(<<"logits_split_1", "logits_split_2">>))>>
CreateConcat(p) ==
  IF p.firstDevice THEN Binary("Concat", "logits_split_1", "logits_split_2", "logits_shifted")
  ELSE Binary("Concat", "logits_split_2", "logits_split_1", "logits_shifted")

CreateFusedAddTopkAddNumCast ==
  <<Node(Op("AclNNCast"), <<<<"gate", "bias">>>>, Names(<<"router_bias_fp32">>))>>
CreateFusedAddTopk(p) ==
  <<Node(Op("MoeFusedAddTopk"),
         <<T(IF p.enableGatingShift THEN "logits_shifted" ELSE "logits"),
           IF p.forceMoeFusedAddTopkAddNumFp32 THEN T("router_bias_fp32") ELSE <<"gate", "bias">> >>,
         Names(<<"reduced_fp32", "experts">>))>>

CreateConcatWeightOperation ==
  Binary("AclNNConcat", "reduced_fp32", "mix_shared_routing_weight", "reduced_mix_shared")
CreateConcatExpertOperation ==
  Binary("AclNNConcat", "experts", "mix_shared_routing_expert", "experts_mix_shared")

CreateGroupOperation(p, scores) ==
  When(~p.oneGroup, Binary("GroupTopk", scores, "expert_group", scores))
CreateSparseMoetopK(scores, chosen) ==
  <<Node(Op("TopK"), Names(<<scores>>), Names(<<chosen, "experts">>))>>
CreateSparseMoesoftMax == Unary("Softmax", "logits", "weights")
CreateSparseTopkSoftMax ==
  <<Node(Op("MoeTopkSoftmax"), Names(<<"logits">>), Names(<<"topk", "experts", "weights">>))>>

RoutingBlock(p) ==
  CASE p.enableFusedTopk -> CreateFusedAddTopk(p) \o When(p.mixSharedRouting, CreateConcatWeightOperation)
    [] ~p.enableFusedTopk /\ p.routingMethod = "integratedSoftmaxTopK" -> CreateSparseTopkSoftMax
    [] ~p.enableFusedTopk /\ p.routingMethod = "noAuxTc" ->
         Unary("Sigmoid", "logits", "weights")
         \o <<Node(Op("Add"), <<T("weights"), <<"gate", "bias">>>>, Names(<<"for_choice">>))>>
         \o CreateGroupOperation(p, "for_choice") \o CreateSparseMoetopK("for_choice", "topk_temp")
         \o Binary("Gather", "weights", "experts", "topk")
    [] OTHER -> CreateSparseMoesoftMax
         \o When(p.routingMethod = "deviceLimited", CreateGroupOperation(p, "weights"))
         \o CreateSparseMoetopK("weights", "topk")

CreateSparseMoereduce == Unary("Reduce", "topk", "sumed")
CreateSparseMoedivide == Binary("Div", "topk", "sumed", "reduced")
ProcessLogits(p) ==
  (CASE p.processLogits = "normalization" /\ p.enableFusedReducesumDiv ->
          Unary("MoeFusedReducesumDiv", "topk", "reduced")
     [] p.processLogits = "normalization" /\ ~p.enableFusedReducesumDiv ->
          CreateSparseMoereduce \o CreateSparseMoedivide
     [] p.processLogits = "scaling" -> Unary("Muls", "topk", "reduced")
     [] p.processLogits = "norm" -> Unary("VectorNorm", "topk", "sumed") \o CreateSparseMoedivide
     [] p.processLogits = "normScaling" ->
          CreateSparseMoereduce \o CreateSparseMoedivide \o Unary("Muls", "reduced", "reduced"))
  \o When(~SkipCast(p), Unary("Cast", "reduced", "reduced_fp32"))
  \o When(p.mixSharedRouting, CreateConcatWeightOperation)

CreateFp16Cast(p) ==
  Unary("Cast", IF p.mixSharedRouting THEN "reduced_mix_shared" ELSE "reduced_fp32", "reduced_fp16")

GatherOverTp(p) ==
  LET weights == IF p.enableFusedTopk /\ ~SkipCast(p) THEN "reduced_fp16" ELSE "reduced"
  IN  Unary("AllGather", "experts", "experts_padded_all")
      \o Binary("Gather", "experts_padded_all", "attn_unpadding_idx", "experts_all")
      \o Unary("AllGather", weights, "reduced_padded_all")
      \o Binary("Gather", "reduced_padded_all", "attn_unpadding_idx", "reduced_all")

SetExpertRoutingMap(p) ==
  When(p.mixSharedRouting, CreateConcatExpertOperation)
  \o Binary("Gather", "expert_routing_map",
            IF p.mixSharedRouting THEN "experts_mix_shared" ELSE "experts", "experts_routed")

\* GetOutTensorName: which experts and which weights the expert node gets.
ChosenExperts(p) ==
  CASE p.ep.mlp.enableGatingDp -> "experts_all"
    [] ~p.ep.mlp.enableGatingDp /\ p.enableLoadBalance -> "fake_topk"
    [] ~p.ep.mlp.enableGatingDp /\ ~p.enableLoadBalance /\ p.enableEPWB -> "experts_routed"
    [] OTHER -> "experts"
ChosenWeights(p) ==
  CASE p.ep.mlp.enableGatingDp -> "reduced_all"
    [] ~p.ep.mlp.enableGatingDp /\ ~HasLogits(p) -> "topk"
    [] ~p.ep.mlp.enableGatingDp /\ HasLogits(p) ->
         IF p.enableFusedTopk THEN "reduced_fp32"
         ELSE IF p.ep.mlp.enableMoeDistribute
              THEN (IF p.mixSharedRouting THEN "reduced_mix_shared" ELSE "reduced_fp32")
              ELSE IF SkipCast(p) THEN "reduced" ELSE "reduced_fp16"

CreateExpertNode(p) ==
  <<Node(OpOf("DynamicEpMoE", p.ep),
         Names(<<"hiddenstates">>) \o ExpertPack("gateup_expert") \o ExpertPack("down_expert")
         \o Names(<<"expert_array", ChosenExperts(p), ChosenWeights(p), "one_hot", "zero_hot">>)
         \o EpTensors(p.ep),
         Names(<<"moe_rout">>) \o When(p.ep.mlp.enableExpertCumSumOutput, Names(<<"gmm_cumsum_list">>)))>>

CreateSparseMoeOperation(p) ==
  Graph(SparseMoeInTensors(p),
    Names(<<"moe_rout">>) \o When(p.ep.mlp.enableExpertCumSumOutput, Names(<<"gmm_cumsum_list">>)),
    SparseMoeInternalTensors(p),
    Gate(p)
    \o When(p.useStdNorm, Unary("Std", "logits", "logits_std") \o Binary("Div", "logits", "logits_std", "logits"))
    \o When(p.enableGatingShift, CreateSplit \o CreateConcat(p))
    \o When(p.enableFusedTopk /\ p.forceMoeFusedAddTopkAddNumFp32, CreateFusedAddTopkAddNumCast)
    \o RoutingBlock(p) \o When(~p.enableFusedTopk /\ HasLogits(p), ProcessLogits(p))
    \o When(CastsToFp16(p), CreateFp16Cast(p))
    \o When(p.ep.mlp.enableGatingDp, GatherOverTp(p))
    \o When(p.enableEPWB, SetExpertRoutingMap(p)) \o CreateExpertNode(p))
=============================================================================
