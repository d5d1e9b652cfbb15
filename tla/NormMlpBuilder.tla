--------------------------- MODULE NormMlpBuilder ---------------------------
(***************************************************************************)
(* operations/fusion/norm/norm_linear.cpp: a normalisation and the linear   *)
(* that reads it; operations/fusion/mlp/mlp.cpp: the feed-forward part.     *)
(***************************************************************************)
EXTENDS LinearBuilder

(* How a pack of weights is quantised.  A family with `mix' leaves some of  *)
(* its linears as they were; `anti' moves outliers into the norm.           *)
PackOf(family) == [family |-> family, mix |-> FALSE, anti |-> FALSE]
UndefinedPack == PackOf("UNDEFINED")
CheckAntiOutlier(pack) == pack.anti

\* One matmul can do the linears: they are quantised alike.
CheckPack(pack, descs) ==
  IF pack.family = "UNDEFINED"
    THEN \A i, j \in DOMAIN descs : "INVALID" \in {descs[i], descs[j]} \/ descs[i] = descs[j]
    ELSE ~pack.mix

FloatDescs == {"FLOAT16", "BFLOAT16"}

GetLinearQuantType(pack, linearType, hasNorm, desc) ==
  LET Is(family) == pack.family = family \/ desc = family
      By(norm, noNorm) == IF hasNorm THEN norm ELSE noNorm
  IN  CASE linearType = "FP" \/ desc \in FloatDescs -> "NO_QUANT"
        [] Is("W4A16") -> "W4A16"
        [] Is("W8A16") -> "W8A16"
        [] Is("W8A8_DYNAMIC") -> By("W8A8_DYNAMIC_DEQUANT", "W8A8_DYNAMIC_QUANT")
        [] Is("W4A8") -> By("W4A8_DYNAMIC_DEQUANT", "W4A8_DYNAMIC_QUANT")
        [] Is("W8A8SC") -> By("W8A8_SC_DEQUANT", "W8A8_SC_QUANT")
        [] OTHER -> By("W8A8_DEQUANT", "W8A8_QUANT")
-----------------------------------------------------------------------------
(* norm_linear.cpp.  `obfuscation' is the number of ranks of the model's    *)
(* confuscation, 0 without it.                                              *)
DefaultNormLinear ==
  [isAntiOutlier |-> FALSE, skipNorm |-> FALSE, normHasBias |-> FALSE, enableAddNorm |-> FALSE,
   enableAclnnRmsNorm |-> FALSE, linear |-> DefaultLinear, obfuscation |-> 0]

UseNormQuant(p) ==
  \/ p.linear.quantType \in {"W8A8_DEQUANT", "W8A8_SC_DEQUANT"}
  \/ p.linear.quantType \in DynamicDequant /\ p.enableAddNorm
UseAddRmsNormQuant(p) ==
  p.linear.chip \in {"310P", "A2"} /\ p.enableAddNorm /\ p.linear.quantType = "W8A8_DEQUANT"
UseAddRmsNormDynamicQuant(p) ==
  p.linear.chip = "A2" /\ p.enableAddNorm /\ p.linear.quantType \in DynamicDequant
NormGivesRstd(p) ==
  (p.enableAclnnRmsNorm \/ p.enableAddNorm) /\ ~UseAddRmsNormQuant(p) /\ ~UseAddRmsNormDynamicQuant(p)

LoraIns(linear, pack) ==
  When(linear.supportLora,
       When(linear.useImMask, Names(<<"im_mask">>)) \o Names(<<"seq_len_cum_sum">>) \o LoraPack(pack))

NormLinearInTensors(p) ==
  Names(<<"input">>) \o NormPack("norm") \o Pack("linear")
  \o When(p.enableAddNorm, Names(<<"scale_fill", "offset_fill", "residual_input">>))
  \o LoraIns(p.linear, "linear")
  \o When(p.linear.enableFlashComm, FlashCommCounts \o Names(<<"fake_ag_shape">>))

NormLinearInternalTensors(p) ==
  When(~p.skipNorm, Names(<<"norm">>))
  \o When(UseAddRmsNormQuant(p), Names(<<"y2_out">>))
  \o When(UseAddRmsNormDynamicQuant(p), Names(<<"y2_out", "scale1_out", "scale2_out">>))
  \o When(NormGivesRstd(p), Names(<<"rstd">>))
  \o When(p.obfuscation = 1, Names(<<"pmcc">>))
  \o When(p.obfuscation > 1, Names(<<"pmcc", "norm_per_rank", "pmcc_gather", "pmcc_gather_out">>))

InsertNorm(p) ==
  LET new     == p.isAntiOutlier
      weight  == <<"norm", IF new THEN "norm_new_weight" ELSE "norm_weight">>
      bias    == <<"norm", IF new THEN "norm_new_bias" ELSE "norm_bias">>
      fused   == UseAddRmsNormQuant(p)
      dynamic == UseAddRmsNormDynamicQuant(p)
      kind    == CASE fused -> "AddRmsNormQuant"
                   [] dynamic -> "AddRmsNormDynamicQuant"
                   [] UseNormQuant(p) -> "NormQuant"
                   [] p.enableAddNorm -> "AddRmsNorm"
                   [] p.enableAclnnRmsNorm -> "RmsNormAclnn"
                   [] OTHER -> "Norm"
  IN  <<Node(OpOf(kind, [normHasBias |-> p.normHasBias]),
          When(p.enableAddNorm, Names(<<"residual_input">>)) \o <<T("input"), weight>>
          \o (IF UseNormQuant(p)
              THEN When(~fused /\ ~dynamic, <<bias, <<"linear", "scale">>, <<"linear", "offset">>>>)
                   \o When(fused, Names(<<"scale_fill", "offset_fill">>))
              ELSE When(p.normHasBias, <<bias>>)),
          Names(<<"norm">>) \o When(NormGivesRstd(p), Names(<<"rstd">>))
          \o When(fused \/ dynamic, Names(<<"y2_out">>))
          \o When(p.enableAddNorm, Names(<<"out_add">>))
          \o When(dynamic, Names(<<"scale1_out", "scale2_out">>)))>>

InsertObfuscationCalculate(p) ==
  IF p.obfuscation = 1
    THEN <<Node(Op("ObfuscationCalculate"), Names(<<"norm">>), Names(<<"pmcc">>))>>
    ELSE <<Node(Op("Slice"), Names(<<"norm">>), Names(<<"norm_per_rank">>)),
           Node(Op("ObfuscationCalculate"), Names(<<"norm_per_rank">>), Names(<<"pmcc_gather">>)),
           Node(Op("AllGather"), Names(<<"pmcc_gather">>), Names(<<"pmcc_gather_out">>)),
           Node(Op("Transpose"), Names(<<"pmcc_gather_out">>), Names(<<"pmcc">>))>>

\* Without the sum the norm does not quantise: the linear does it.
NormLinearParam(p) ==
  [p.linear EXCEPT !.quantType =
     CASE p.enableAddNorm -> @
       [] @ = "W8A8_DYNAMIC_DEQUANT" -> "W8A8_DYNAMIC_QUANT"
       [] @ = "W4A8_DYNAMIC_DEQUANT" -> "W4A8_DYNAMIC_QUANT"
       [] OTHER -> @]

NormLinear(p) ==
  Graph(NormLinearInTensors(p),
        Names(<<"out_linear">>) \o When(p.enableAddNorm, Names(<<"out_add">>)),
        NormLinearInternalTensors(p),
        When(~p.skipNorm, InsertNorm(p))
        \o When(p.obfuscation > 0, InsertObfuscationCalculate(p))
        \o <<Node(OpOf("FusionLinear", NormLinearParam(p)),
               Names(<<IF p.skipNorm THEN "input" ELSE IF p.obfuscation > 0 THEN "pmcc" ELSE "norm">>)
               \o Pack("linear") \o When(UseAddRmsNormDynamicQuant(p), Names(<<"scale1_out">>))
               \o LoraIns(p.linear, "linear")
               \o When(p.linear.enableFlashComm, FlashCommCounts \o Names(<<"fake_ag_shape">>)),
               Names(<<"out_linear">>))>>)
-----------------------------------------------------------------------------
(* mlp.cpp.  `linear' has what all three linears take over from the         *)
(* parameter; gate, up and down have a LinearType and a LinearDesc each.    *)
DefaultMlp ==
  [linear |-> DefaultLinear, norm |-> DefaultNormLinear, pack |-> UndefinedPack,
   downPack |-> UndefinedPack, types |-> [l \in {"gate", "up", "down"} |-> "INVALID"],
   descs |-> [l \in {"gate", "up", "down"} |-> "INVALID"], isAntiOutlier |-> FALSE,
   gateUpHasBias |-> FALSE, downHasBias |-> FALSE, enableNormQuantOp |-> TRUE,
   mlpPackType |-> "GATE_UP_WEIGHT_PACK", isEdgeHardware |-> FALSE, swiglu |-> TRUE,
   downTp |-> FALSE, downReduceQuant |-> FALSE, backend |-> "hccl", supportLcoc |-> FALSE,
   enableMC2 |-> FALSE, skipNorm |-> FALSE]

GetMlpPackType(pack, upWeightOnly, gateUpDescs) ==
  IF upWeightOnly THEN "UP_WEIGHT_ONLY"
  ELSE IF CheckPack(pack, gateUpDescs) THEN "GATE_UP_WEIGHT_PACK" ELSE "GATE_UP_WEIGHT_NO_PACK"

IsLinearDescQuant(p, l) == p.descs[l] \notin FloatDescs \cup {"INVALID"}

MlpInTensors(p) ==
  Names(<<"input">>) \o NormPack("norm") \o Pack("0") \o Pack("1") \o Pack("down")
  \o When(p.norm.enableAddNorm, Names(<<"mlp_scale_fill", "mlp_offset_fill", "residual_add">>))
  \o When(p.linear.supportLora,
          When(p.linear.useImMask, Names(<<"im_mask">>)) \o Names(<<"seq_len_cum_sum">>)
          \o LoraPack("0") \o LoraPack("1") \o LoraPack("down"))
  \o When(p.downReduceQuant, ReduceQuant)
  \o When(p.linear.enableFlashComm, FlashCommCounts \o Names(<<"fake_rs_shape", "fake_ag_shape">>))
MlpOutTensors(p) == Names(<<"out_linear">>) \o When(p.norm.enableAddNorm, Names(<<"out_add">>))

\* SetGateUpNormLinearParam; SetUpNormLinearParam differs in enableAddNorm.
MlpNormLinearParam(p, l) ==
  [p.norm EXCEPT
     !.isAntiOutlier = CheckAntiOutlier(p.pack) \/ p.isAntiOutlier,
     !.skipNorm = p.skipNorm,
     !.enableAddNorm = p.norm.enableAddNorm /\ l = "gate",
     !.linear = [p.linear EXCEPT
        !.quantType = GetLinearQuantType(p.pack, p.types[l], p.enableNormQuantOp, p.descs[l]),
        !.hasBias = p.gateUpHasBias, !.enableSwigluQuant = FALSE]]

MlpNormLinearIns(p, pack) ==
  Names(<<"input">>) \o NormPack("norm") \o Pack(pack)
  \o When(p.norm.enableAddNorm /\ pack = "0", Names(<<"mlp_scale_fill", "mlp_offset_fill", "residual_add">>))
  \o LoraIns(p.linear, pack)
  \o When(p.linear.enableFlashComm, FlashCommCounts \o Names(<<"fake_ag_shape">>))

AddMlpNormLinearGateUp(p) ==
  <<Node(OpOf("NormLinear", MlpNormLinearParam(p, "gate")), MlpNormLinearIns(p, "0"),
         Names(<<CASE p.mlpPackType = "GATE_UP_WEIGHT_PACK" -> "gate_up"
                   [] p.mlpPackType = "GATE_UP_WEIGHT_NO_PACK" -> "gate"
                   [] OTHER -> "up">>)
         \o When(p.norm.enableAddNorm, Names(<<"out_add">>)))>>

AddMlpNormLinearUp(p) ==
  <<Node(OpOf("NormLinear", MlpNormLinearParam(p, "up")), MlpNormLinearIns(p, "1"), Names(<<"up">>))>>

AddMlpSplit == <<Node(Op("Split2"), Names(<<"gate_up">>), Names(<<"gate", "up">>))>>
AddMlpMul == <<Node(Op("Mul"), Names(<<"activation_out", "up">>), Names(<<"activation_out">>))>>

AddMlpActivation(p) ==
  When(p.mlpPackType = "GATE_UP_WEIGHT_PACK", AddMlpSplit)
  \o <<Node(Op("Activation"), Names(<<IF p.mlpPackType = "UP_WEIGHT_ONLY" THEN "up" ELSE "gate">>),
            Names(<<"activation_out">>))>>
  \o When(p.mlpPackType # "UP_WEIGHT_ONLY", AddMlpMul)

AddMlpEdgeActivation(p) ==
  When(p.mlpPackType = "GATE_UP_WEIGHT_PACK", AddMlpSplit)
  \o <<Node(Op("Activation"), Names(<<"gate">>), Names(<<"activation_out">>)),
       Node(Op("Mul"), Names(<<"gate", "activation_out">>), Names(<<"activation_out">>))>>
  \o When(p.mlpPackType # "UP_WEIGHT_ONLY", AddMlpMul)

AddMlpSwiGLUActivation(p) ==
  When(p.mlpPackType = "GATE_UP_WEIGHT_NO_PACK",
       <<Node(Op("Concat"), Names(<<"gate", "up">>), Names(<<"gate_up">>))>>)
  \o <<Node(Op("Activation"), Names(<<"gate_up">>), Names(<<"activation_out">>))>>

DownQuantType(p) ==
  GetLinearQuantType(IF p.downPack.family = "UNDEFINED" THEN p.pack ELSE p.downPack,
                     p.types["down"], FALSE, p.descs["down"])

AddDequantSwigluQuantNode(p) ==
  LET dequants == /\ IsLinearDescQuant(p, "gate")
                  /\ UseQuantBatchMatmul([p.linear EXCEPT !.quantType = DownQuantType(p)])
                  /\ ~p.linear.isPrefill
      ins == IF DownQuantType(p) = "W8A8_DYNAMIC_QUANT" /\ p.linear.isPrefill
               THEN Names(<<"gate_up">>)
               ELSE Names(<<"gate_up">>) \o When(dequants, <<<<"0", "descale">>, <<"0", "bias">>>>)
                    \o <<<<"down", "scale">>, <<"down", "offset">>>>
  IN  <<Node(OpOf("DequantSwigluQuant", [inTensorsNum |-> Len(ins)]), ins,
             Names(<<"activation_out", "swiglu_dynamic_scale">>))>>

SetDownLinearParallelParam(p) ==
  LET type  == DownQuantType(p)
      quantised == p.linear.enableSwigluQuant /\ IsLinearDescQuant(p, "down")
      after == p.downTp /\ type = "NO_QUANT" /\ p.downHasBias
  IN  [DefaultLinearParallel EXCEPT
        !.parallelType = IF p.linear.enableFlashComm THEN "REDUCE_SCATTER" ELSE "ROW_PARALLEL",
        !.linear = [p.linear EXCEPT
           !.quantType = CASE quantised /\ p.linear.isPrefill /\ type = "W8A8_DYNAMIC_QUANT"
                                -> "W8A8_DYNAMIC_DEQUANT"
                           [] quantised /\ type = "W8A8_QUANT" -> "W8A8_DEQUANT"
                           [] quantised /\ type = "W4A8_DYNAMIC_QUANT" -> "W4A8_DYNAMIC_DEQUANT"
                           [] OTHER -> type,
           !.isDownLinear = TRUE, !.hasBias = p.downHasBias /\ ~after, !.enableFlashComm = FALSE],
        !.biasAfterSync = after, !.tp = p.downTp, !.perChannel = p.downReduceQuant,
        !.backend = p.backend, !.supportLcoc = p.supportLcoc, !.enableMC2 = p.enableMC2]

AddMlpLinearDown(p) ==
  LET down == SetDownLinearParallelParam(p)
  IN  <<Node(OpOf("LinearParallel", down),
             Names(<<"activation_out">>) \o Pack("down") \o LoraIns(p.linear, "down")
             \o When(p.downReduceQuant, ReduceQuant)
             \o When(p.linear.isPrefill /\ p.linear.enableSwigluQuant
                       /\ down.linear.quantType = "W8A8_DYNAMIC_DEQUANT",
                     Names(<<"swiglu_dynamic_scale">>))
             \o When(p.linear.enableFlashComm,
                     Names(<<"send_counts", "sdispls", "recv_count", "fake_rs_shape">>)),
             Names(<<"out_linear">>))>>

Mlp(p) ==
  BuilderGraph(MlpInTensors(p), MlpOutTensors(p),
    AddMlpNormLinearGateUp(p)
    \o When(p.mlpPackType = "GATE_UP_WEIGHT_NO_PACK", AddMlpNormLinearUp(p))
    \o (CASE p.isEdgeHardware -> AddMlpEdgeActivation(p)
          [] p.swiglu /\ p.linear.enableSwigluQuant /\ IsLinearDescQuant(p, "down")
               -> AddDequantSwigluQuantNode(p)
          [] p.swiglu -> AddMlpSwiGLUActivation(p)
          [] OTHER -> AddMlpActivation(p))
    \o AddMlpLinearDown(p))
=============================================================================
