----------------------------- MODULE MoeBuilder -----------------------------
(***************************************************************************)
(* operations/fusion/moe: the experts of a mixture (moe_mlp.cpp) with their *)
(* grouped matmuls (integrated_gmm.cpp), the filter that leaves this rank   *)
(* its own experts (ep/expert_filter.cpp), and the shared expert            *)
(* (moe_shared_expert.cpp).  `types' is moeLinearQuantType or               *)
(* mlpLinearQuantType by linear.                                            *)
(***************************************************************************)
EXTENDS NormMlpBuilder

\* The order in which experts give their parts; FusionLinear's is PackRoles.
ExpertRoles == <<"weight", "bias", "descale", "offset", "scale", "compress_idx">>
Parts(name, roles) == [i \in DOMAIN roles |-> <<name, roles[i]>>]
ExpertPack(name) == Parts(name, ExpertRoles)

Unary(kind, in, out) == <<Node(Op(kind), <<T(in)>>, <<T(out)>>)>>
Binary(kind, left, right, out) == <<Node(Op(kind), Names(<<left, right>>), <<T(out)>>)>>
-----------------------------------------------------------------------------
(* integrated_gmm.cpp.  `quant' is CalcGmmQuantType.                        *)
GmmQuantTypeOf(linearQuantType) ==
  CASE linearQuantType = "NO_QUANT" -> "NONE"
    [] linearQuantType \in W8A8Dynamic -> "W8A8_TOKEN"
    [] linearQuantType = "W8A16" -> "W8A16_CHANNEL"
    [] linearQuantType = "W4A16" -> "W4A16_CHANNEL"
    [] linearQuantType \in {"W4A8_DYNAMIC_QUANT", "W4A8_DYNAMIC_DEQUANT"} -> "W4A8_GROUP"
    [] OTHER -> "W8A8_CHANNEL"
CalcGmmQuantType(pack, type) == GmmQuantTypeOf(GetLinearQuantType(pack, type, FALSE, "INVALID"))

DefaultGmm ==
  [quant |-> "NONE", hasBias |-> FALSE, skipQuant |-> FALSE, enableGMMSwigluQuant |-> FALSE,
   enableAtlasGMMFused |-> FALSE, enableInitRoutingV3 |-> FALSE]

QuantisesTokens(p) == p.quant \in {"W8A8_TOKEN", "W4A8_GROUP"} /\ ~p.skipQuant
SwigluIsBetween(p) == p.enableGMMSwigluQuant /\ ~p.enableAtlasGMMFused

GmmInTensors(p) ==
  Names(<<"hiddenstates">>) \o ExpertPack("expert") \o Names(<<"group_list">>)
  \o When(p.enableGMMSwigluQuant, ExpertPack("down_expert"))
  \o When(p.skipQuant, Names(<<"in_dynamic_scale">>))
GmmInternalTensors(p) ==
  When(QuantisesTokens(p), Names(<<"quant_out", "dynamic_scale">>))
  \o When(SwigluIsBetween(p), Names(<<"dynamic_scale_1", "swiglu_quant_out">>))

TokenScale(p) == T(IF p.skipQuant THEN "in_dynamic_scale" ELSE "dynamic_scale")

\* Mutant: the grouped matmul takes the tokens as they came.
CreateGmmOfFloat(p) ==
  <<Node(OpOf("GroupedMatmul", [hasBias |-> p.hasBias, quant |-> p.quant # "NONE"]),
         <<T("hiddenstates"), <<"expert", "weight">>, T("group_list")>>, Names(<<"gmm_result">>))>>

CreateGmm(p) ==
  LET scale == <<"expert", "scale">>
      op == CASE ~p.enableGMMSwigluQuant ->
                   OpOf("GroupedMatmul", [hasBias |-> p.hasBias, quant |-> p.quant # "NONE"])
              [] p.enableInitRoutingV3 -> Op("MoeGroupedMatmulSwigluQuant")
              [] OTHER -> Op("GroupedMatmulSwiglu")
      scales == CASE p.quant \in {"W8A16_CHANNEL", "W4A16_CHANNEL"} -> <<scale, <<"expert", "offset">>>>
                  [] p.quant = "W8A8_CHANNEL" -> <<scale, <<"expert", "compress_idx">>>>
                  [] p.quant \in {"W8A8_TOKEN", "W4A8_GROUP"} -> <<scale, TokenScale(p)>>
                  [] OTHER -> <<>>
  IN  <<Node(op,
          <<T(IF QuantisesTokens(p) THEN "quant_out" ELSE "hiddenstates"), <<"expert", "weight">>>>
          \o When(p.hasBias, <<<<"expert", "bias">>>>) \o scales \o Names(<<"group_list">>),
          Names(<<IF p.enableGMMSwigluQuant THEN "swiglu_quant_out" ELSE "gmm_result">>)
          \o When(p.enableGMMSwigluQuant /\ p.quant = "W8A8_TOKEN", Names(<<"dynamic_scale_1">>)))>>

CreateGmm1(p) ==
  <<Node(OpOf("GroupedMatmul", [hasBias |-> p.hasBias, quant |-> p.quant # "NONE"]),
         <<T("swiglu_quant_out"), <<"down_expert", "weight">>>>
         \o When(p.hasBias, <<<<"down_expert", "bias">>>>)
         \o <<<<"down_expert", "scale">>, T("dynamic_scale_1"), T("group_list")>>,
         Names(<<"gmm_result">>))>>

CreateGmmMixed(p) ==
  <<Node(Op("GmmDeqSwigluQuantGmmDeq"),
         <<T("hiddenstates"), <<"expert", "weight">>, <<"expert", "scale">>,
           T("in_dynamic_scale"), T("group_list")>>
         \o When(p.quant = "W8A8_TOKEN", <<<<"down_expert", "weight">>>>)
         \o When(p.hasBias, <<<<"down_expert", "bias">>>>) \o <<<<"down_expert", "scale">>>>,
         Names(<<"gmm_result">>))>>

SetAclnnDynamicQuantNode ==
  <<Node(Op("DynamicQuant"), Names(<<"hiddenstates">>), Names(<<"quant_out", "dynamic_scale">>))>>

CreateIntegratedGmmOperation(p) ==
  LET made == Graph(GmmInTensors(p), Names(<<"gmm_result">>), GmmInternalTensors(p),
                When(QuantisesTokens(p), SetAclnnDynamicQuantNode)
                \o (IF p.enableAtlasGMMFused THEN CreateGmmMixed(p)
                    ELSE CreateGmm(p)
                         \o When(p.enableGMMSwigluQuant /\ p.quant = "W8A8_TOKEN", CreateGmm1(p))))
  IN  [made EXCEPT !.declared = 1 + Len(When(QuantisesTokens(p), <<1>>))
                                  + Len(When(SwigluIsBetween(p), <<1>>))]
-----------------------------------------------------------------------------
(* expert_filter.cpp.  The fill in place writes its first input; what it     *)
(* gives out is a placeholder that nothing writes.                          *)
FilterOfShifted ==
  Unary("Cast", "in_selected_experts", "selected_experts_int64")
  \o Binary("Greater", "selected_experts_int64", "device_expert_count", "mask_1")
  \o Binary("InplaceMaskedFillTensor", "in_expert_weight", "mask_1", "out_expert_weight")

FilterOfAll ==
  Unary("Cast", "in_selected_experts", "selected_experts_int64")
  \o Binary("Sub", "selected_experts_int64", "start_expert_idx", "shifted_int64")
  \o Unary("Cast", "zero_hot", "zero_hot_int64")
  \o Binary("Less", "shifted_int64", "zero_hot_int64", "mask")
  \o Unary("Cast", "shifted_int64", "shifted_int32")
  \o Binary("Fill", "shifted_int32", "mask", "out_selected_experts")
  \o Binary("Greater", "shifted_int64", "device_expert_count", "mask_1")
  \o Binary("Fill", "in_expert_weight", "mask", "out_expert_weight")
  \o Binary("InplaceMaskedFillTensor", "out_expert_weight", "mask_1", "out_expert_weight")

CreateExpertFilterOperation(p) ==
  LET shifted == p.shiftedTopK /\ ~p.enableGatingDp
  IN  Graph(Names(<<"in_selected_experts", "in_expert_weight", "start_expert_idx",
                    "device_expert_count", "zero_hot">>),
            When(~shifted, Names(<<"out_selected_experts">>)) \o Names(<<"out_expert_weight">>),
            Names(<<"selected_experts_int64", "mask_1">>)
            \o When(~shifted, Names(<<"mask", "shifted_int32", "shifted_int64", "zero_hot_int64">>)),
            IF shifted THEN FilterOfShifted ELSE FilterOfAll)
-----------------------------------------------------------------------------
(* moe_mlp.cpp.  `gmm' is what IntegratedGmm takes over.                    *)
DefaultMoeMlp ==
  [pack |-> UndefinedPack, types |-> [l \in {"gate", "down"} |-> "INT"], hasBias |-> FALSE,
   supportSwiGLU |-> TRUE, swigluBackend |-> "ATB", enableFusedRouting |-> FALSE,
   enableInitQuant |-> FALSE, enableInitRoutingV3 |-> FALSE, enableSwigluQuant |-> FALSE,
   enableGMMSwigluQuant |-> FALSE, enableAtlasGMMFused |-> FALSE, hasMoeEp |-> FALSE,
   shiftedTopK |-> FALSE, enableGatingDp |-> FALSE, enableMoeDistribute |-> FALSE,
   enableDispatchCombineV2 |-> FALSE, enableInitRoutingCutoff |-> FALSE,
   enableExpertCumSumOutput |-> FALSE, chip |-> "A2"]

CalcUpGmmQuantType(p) == CalcGmmQuantType(p.pack, p.types["gate"])
IsGMMSwigluQuant(p) == CalcUpGmmQuantType(p) = "W8A8_TOKEN" /\ p.enableGMMSwigluQuant

RoutesFused(p) == p.enableFusedRouting /\ ~p.enableMoeDistribute
FiltersExperts(p) == p.hasMoeEp /\ ~p.enableMoeDistribute
GroupList(p) == T(IF RoutesFused(p) THEN "group_list_int64" ELSE "group_list")

MoeMlpInTensors(p) ==
  Names(<<"hiddenstates">>) \o ExpertPack("gateup_expert") \o ExpertPack("down_expert")
  \o Names(<<"expert_array", "selected_experts", "expert_weight">>)
  \o When(p.hasMoeEp, Names(<<"zero_hot", "start_expert_idx", "device_expert_count", "padding_idx">>))
MoeMlpOutTensors(p) ==
  Names(<<"moe_mlp_result">>) \o When(p.enableExpertCumSumOutput, <<GroupList(p)>>)

AddIntermediateTensor(p) ==
  LET between == When(~IsGMMSwigluQuant(p), Names(<<"gate_up_out", "swish_out">>))
      fused ==
        between
        \o When(p.enableInitRoutingV3, Names(<<"dequant_scale">>))
        \o When(p.enableInitQuant /\ ~p.enableInitRoutingV3 /\ ~p.enableMoeDistribute,
                Names(<<"tokens_before_capacity", "dequant_scale">>))
        \o (IF p.enableMoeDistribute
            THEN Names(<<"ep_recv_counts", "tp_recv_counts", "gmm0_deqscale",
                         "expand_expert_weight", "group_list">>)
            ELSE Names(<<"group_list_int64">>)
                 \o When(~p.enableInitRoutingV3, Names(<<"group_list">>)))
      sorting == between \o Names(<<"weight_idx", "dummy_zero", "dummy_one", "rev_idx", "group_list",
                                     "rev_sorted_hiddenstates", "mlp_out_weighted", "sorted_weight">>)
  IN  Names(<<"idx", "sorted_hiddenstates", "mlp_out">>)
      \o (IF p.enableFusedRouting THEN fused ELSE sorting)
      \o When(p.enableSwigluQuant, Names(<<"swiglu_dequant_scale">>))
      \o When(~p.supportSwiGLU, Names(<<"gate_out", "up_out", "swish_out_internal">>))
      \o When(FiltersExperts(p), Names(<<"group_list_sliced", "filtered_weight">>)
                \o When(p.enableGatingDp \/ ~p.shiftedTopK, Names(<<"filtered_experts">>)))
      \o When(p.enableInitRoutingCutoff, Names(<<"sorted_hiddenstates_len", "group_list_filtered">>))
MoeMlpInternalTensors(p) ==
  SelectSeq(AddIntermediateTensor(p), LAMBDA t : t \notin Elements(MoeMlpOutTensors(p)))

CreateExpertFilter(p) ==
  <<Node(OpOf("ExpertFilter", [shiftedTopK |-> p.shiftedTopK, enableGatingDp |-> p.enableGatingDp]),
         Names(<<"selected_experts", "expert_weight", "start_expert_idx", "device_expert_count",
                 "zero_hot">>),
         When(~p.shiftedTopK \/ p.enableGatingDp, Names(<<"filtered_experts">>))
         \o Names(<<"filtered_weight">>))>>

\* Mutant: the weights are taken where the filter gives them, written or not.
RoutedByFilterAlways(p) == p.hasMoeEp \/ p.enableGatingDp

RoutedByFilter(p) == (p.hasMoeEp /\ ~p.shiftedTopK) \/ p.enableGatingDp
ExpertsOf(p) == T(IF RoutedByFilter(p) THEN "filtered_experts" ELSE "selected_experts")
WeightOf(p) == T(IF RoutedByFilter(p) THEN "filtered_weight" ELSE "expert_weight")

CreateInitRoutingQuant(p) ==
  LET V3 == p.enableInitRoutingV3
  IN  <<Node(Op(IF V3 THEN "MoeInitRoutingV3" ELSE "MoeInitRoutingQuant"),
          <<T("hiddenstates"), ExpertsOf(p)>>,
          Names(<<"sorted_hiddenstates", "idx", IF V3 THEN "group_list_int64" ELSE "group_list">>)
          \o When(~V3, Names(<<"tokens_before_capacity">>)) \o Names(<<"dequant_scale">>))>>

CreateInitRoutingV3NoQuant(p) ==
  <<Node(Op("MoeInitRoutingV3"), <<T("hiddenstates"), ExpertsOf(p)>>,
         Names(<<"sorted_hiddenstates", "idx", "group_list_int64", "dequant_scale">>))>>

CreateInitRouting(p) ==
  <<Node(Op("MoeInitRouting"), <<T("hiddenstates"), ExpertsOf(p)>>,
         Names(<<"sorted_hiddenstates", "idx", "group_list">>))>>

CreateComputeExpertSlice == Unary("Slice", "group_list", "group_list_sliced")

OwnGroupList(p) == IF p.hasMoeEp THEN "group_list_sliced" ELSE "group_list"

CreateGroupListFilter(p) ==
  Unary("Len", "sorted_hiddenstates", "sorted_hiddenstates_len")
  \o Binary("Minimum", OwnGroupList(p), "sorted_hiddenstates_len", "group_list_filtered")

CreateGroupListCast(p) ==
  Unary("Cast", IF p.enableInitRoutingCutoff THEN "group_list_filtered" ELSE OwnGroupList(p),
        "group_list_int64")

CreateUpGmm(p) ==
  LET gmm == [DefaultGmm EXCEPT
                !.quant = CalcUpGmmQuantType(p), !.hasBias = p.hasBias \/ p.pack.family = "W4A8",
                !.enableGMMSwigluQuant = p.enableGMMSwigluQuant,
                !.enableAtlasGMMFused = p.enableAtlasGMMFused,
                !.enableInitRoutingV3 = p.enableInitRoutingV3,
                !.skipQuant = \/ p.enableInitQuant
                              \/ p.enableMoeDistribute /\ p.pack.family \in {"W8A8_DYNAMIC", "W4A8"}]
  IN  <<Node(OpOf("IntegratedGmm", gmm),
          Names(<<"sorted_hiddenstates">>) \o ExpertPack("gateup_expert") \o <<GroupList(p)>>
          \o When(IsGMMSwigluQuant(p), ExpertPack("down_expert"))
          \o When(gmm.skipQuant, Names(<<IF p.enableMoeDistribute THEN "gmm0_deqscale"
                                         ELSE "dequant_scale">>)),
          Names(<<IF IsGMMSwigluQuant(p) THEN "mlp_out" ELSE "gate_up_out">>))>>

CreateDownGmm(p) ==
  LET gmm == [DefaultGmm EXCEPT
                !.quant = CalcGmmQuantType(p.pack, p.types["down"]),
                !.hasBias = p.hasBias \/ p.pack.family = "W4A8",
                !.enableInitRoutingV3 = p.enableInitRoutingV3, !.skipQuant = p.enableSwigluQuant]
  IN  <<Node(OpOf("IntegratedGmm", gmm),
          Names(<<"swish_out">>) \o ExpertPack("down_expert") \o <<GroupList(p)>>
          \o When(gmm.skipQuant, Names(<<"swiglu_dequant_scale">>)),
          Names(<<"mlp_out">>))>>

CreateQuantGMMDequant(p, in, expert, out) ==
  <<Node(Op("QuantGMMDequant"),
         <<T(in), <<expert, "weight">>, <<expert, "scale">>,
           T(IF p.enableFusedRouting THEN "group_list_int64" ELSE "group_list")>>, Names(<<out>>))>>

CreateMoeActivationBlock(p) ==
  CASE p.supportSwiGLU /\ p.enableSwigluQuant ->
         <<Node(Op("SwigluQuant"), Names(<<"gate_up_out">>),
                Names(<<"swish_out", "swiglu_dequant_scale">>))>>
    [] p.supportSwiGLU /\ p.swigluBackend = "ACLNN" -> Unary("SwiGlu", "gate_up_out", "swish_out")
    [] p.supportSwiGLU -> Unary("Activation", "gate_up_out", "swish_out")
    [] OTHER ->
         <<Node(Op("Split2"), Names(<<"gate_up_out">>), Names(<<"gate_out", "up_out">>))>>
         \o Unary("Activation", "gate_out", "swish_out_internal")
         \o Binary("Mul", "swish_out_internal", "up_out", "swish_out")

Experts(p) ==
  CreateUpGmm(p) \o When(~IsGMMSwigluQuant(p), CreateMoeActivationBlock(p) \o CreateDownGmm(p))

CreateMoeTokenUnpermute(p) ==
  <<Node(Op("MoeTokenUnpermute"), <<T("mlp_out"), T("idx"), WeightOf(p)>>, Names(<<"moe_mlp_result">>))>>

CreateMoeDistributeDispatch(p) ==
  <<Node(OpOf("MoeDistributeDispatch", [quantSmooth |-> FALSE]),
         Names(<<"hiddenstates", "selected_experts", "expert_weight", "padding_idx">>),
         Names(<<"sorted_hiddenstates", "gmm0_deqscale", "idx", "group_list", "ep_recv_counts",
                 "tp_recv_counts", "expand_expert_weight">>))>>

CreateMoeDistributeCombine(p) ==
  <<Node(Op("MoeDistributeCombine"),
         Names(<<"mlp_out", "selected_experts", "idx", "ep_recv_counts", "expert_weight",
                 "tp_recv_counts", "expand_expert_weight">>),
         Names(<<"moe_mlp_result">>))>>

CreateMoeDistribute(p) ==
  CreateMoeDistributeDispatch(p) \o Experts(p) \o CreateMoeDistributeCombine(p)

CreateFusedRouting(p) ==
  (CASE p.enableInitQuant -> CreateInitRoutingQuant(p)
     [] p.enableInitRoutingV3 -> CreateInitRoutingV3NoQuant(p)
     [] OTHER -> CreateInitRouting(p))
  \o When(p.hasMoeEp, CreateComputeExpertSlice)
  \o When(p.enableInitRoutingCutoff, CreateGroupListFilter(p))
  \o When(~p.enableInitRoutingV3, CreateGroupListCast(p))
  \o Experts(p) \o CreateMoeTokenUnpermute(p)

\* The experts' outputs are brought back to the order of the tokens and summed.
WeightedSum ==
  Binary("Gather", "expert_weight", "weight_idx", "sorted_weight")
  \o Binary("Mul", "mlp_out", "sorted_weight", "mlp_out_weighted")
  \o <<Node(Op("Gating"), Names(<<"weight_idx", "expert_array">>),
            Names(<<"dummy_zero", "dummy_one", "rev_idx">>))>>
  \o Binary("Gather", "mlp_out_weighted", "rev_idx", "rev_sorted_hiddenstates")
  \o Unary("Reduce", "rev_sorted_hiddenstates", "moe_mlp_result")

CreateDefault(p) ==
  <<Node(Op("Gating"), Names(<<"selected_experts", "expert_array">>),
         Names(<<"idx", "group_list", "weight_idx">>))>>
  \o Binary("Gather", "hiddenstates", "idx", "sorted_hiddenstates")
  \o (IF p.chip = "310P" /\ p.pack.family # "ALL_FP"
      THEN CreateQuantGMMDequant(p, "sorted_hiddenstates", "gateup_expert", "gate_up_out")
           \o CreateMoeActivationBlock(p)
           \o CreateQuantGMMDequant(p, "swish_out", "down_expert", "mlp_out")
      ELSE Experts(p))
  \o WeightedSum

CreateMoeMlpOperation(p) ==
  Graph(MoeMlpInTensors(p), MoeMlpOutTensors(p), MoeMlpInternalTensors(p),
        When(FiltersExperts(p), CreateExpertFilter(p))
        \o (CASE p.enableMoeDistribute -> CreateMoeDistribute(p)
              [] p.enableFusedRouting -> CreateFusedRouting(p)
              [] OTHER -> CreateDefault(p)))
-----------------------------------------------------------------------------
(* moe_shared_expert.cpp.                                                   *)
DefaultSharedExpert ==
  [pack |-> UndefinedPack, types |-> [l \in {"gate", "down", "sharegate"} |-> "INT"], isBF16 |-> FALSE,
   supportSwiGLU |-> TRUE, hasSharedExpertGate |-> FALSE,
   enableSwiGLUQuantForSharedExperts |-> FALSE, enablePreNormQuantForSharedExperts |-> FALSE]

SharedExpertLinear(p, l) ==
  [DefaultLinear EXCEPT !.quantType = GetLinearQuantType(p.pack, p.types[l], FALSE, "INVALID"),
     !.isBF16 = p.isBF16 /\ l # "sharegate",
     !.enableSwiGLUQuantForSharedExperts =
        \/ l = "gate" /\ p.enablePreNormQuantForSharedExperts
        \/ l = "down" /\ p.enableSwiGLUQuantForSharedExperts]

SharedExpertInTensors ==
  Names(<<"hidden_states">>) \o ExpertPack("gate_up") \o ExpertPack("down")
  \o ExpertPack("shared_expert_gate")
SharedExpertInternalTensors(p) ==
  Names(<<"gate_up_out", "swiglu_out">>)
  \o When(p.enableSwiGLUQuantForSharedExperts, Names(<<"swiglu_quant_scale_out">>))
  \o When(~p.supportSwiGLU, Names(<<"gate_out", "up_out", "swish_out">>))
  \o When(p.hasSharedExpertGate, Names(<<"shared_expert_out", "gate_logits", "shared_expert_weight">>))

SharedExpertNode(p, l, in, pack, out) ==
  <<Node(OpOf("FusionLinear", SharedExpertLinear(p, l)),
         <<T(in)>> \o Pack(pack)
         \o When(l = "down" /\ p.enableSwiGLUQuantForSharedExperts, Names(<<"swiglu_quant_scale_out">>)),
         Names(<<out>>))>>

SharedExpertActivation(p) ==
  CASE p.supportSwiGLU /\ p.enableSwiGLUQuantForSharedExperts ->
         <<Node(Op("SwigluQuant"), Names(<<"gate_up_out">>),
                Names(<<"swiglu_out", "swiglu_quant_scale_out">>))>>
    [] p.supportSwiGLU -> Unary("Activation", "gate_up_out", "swiglu_out")
    [] OTHER ->
         <<Node(Op("Split2"), Names(<<"gate_up_out">>), Names(<<"gate_out", "up_out">>))>>
         \o Unary("Activation", "gate_out", "swish_out")
         \o Binary("Mul", "swish_out", "up_out", "swiglu_out")

CreateSharedExpertGate(p) ==
  SharedExpertNode(p, "sharegate", "hidden_states", "shared_expert_gate", "gate_logits")
  \o Unary("Sigmoid", "gate_logits", "shared_expert_weight")
  \o Binary("Mul", "shared_expert_out", "shared_expert_weight", "out")

CreateSharedExpertOperation(p) ==
  Graph(SharedExpertInTensors, Names(<<"out">>), SharedExpertInternalTensors(p),
        SharedExpertNode(p, "gate", "hidden_states", "gate_up", "gate_up_out")
        \o SharedExpertActivation(p)
        \o SharedExpertNode(p, "down", "swiglu_out", "down",
                            IF p.hasSharedExpertGate THEN "shared_expert_out" ELSE "out")
        \o When(p.hasSharedExpertGate, CreateSharedExpertGate(p)))
=============================================================================
