--------------------------- MODULE LinearBuilder ---------------------------
(***************************************************************************)
(* operations/fusion/linear: a linear with its quantisation (linear.cpp),   *)
(* and one that is split over the ranks (linear_parallel.cpp).  Parameters  *)
(* have the fields that decide tensors and nodes, under the names of the    *)
(* code; `chip' is what IsA2() and IsA3() ask.                              *)
(***************************************************************************)
EXTENDS GraphBuild

DefaultLinear ==
  [quantType |-> "NO_QUANT", isBF16 |-> FALSE, hasBias |-> FALSE, supportLora |-> FALSE,
   useImMask |-> FALSE, loraEnableGMM |-> FALSE, matmulBackend |-> "ATB", isPrefill |-> FALSE,
   enableSwiGLUQuantForSharedExperts |-> FALSE, enableSwigluQuant |-> FALSE,
   isDownLinear |-> FALSE, enableFlashComm |-> FALSE, chip |-> "A2"]

PerTensor == {"W8A8_QUANT", "W8A8_DEQUANT"}
DynamicQuant == {"W8A8_DYNAMIC_QUANT", "W4A8_DYNAMIC_QUANT"}
DynamicDequant == {"W8A8_DYNAMIC_DEQUANT", "W4A8_DYNAMIC_DEQUANT"}
W8A8Dynamic == {"W8A8_DYNAMIC_QUANT", "W8A8_DYNAMIC_DEQUANT"}

UseQuantBatchMatmul(p) ==
  \/ p.matmulBackend = "ACLNN" /\ p.quantType \in PerTensor
  \/ p.quantType \in DynamicQuant \cup DynamicDequant

\* The input has been quantised by the activation.
QuantisedBySwiglu(p) ==
  p.enableSwigluQuant /\ p.isDownLinear /\ p.quantType \in DynamicDequant

LinearIns == Names(<<"input">>) \o Pack("linear")
LinearInTensors(p) ==
  LinearIns
  \o When(p.enableSwigluQuant /\ p.isDownLinear /\ p.isPrefill
            /\ p.quantType = "W8A8_DYNAMIC_DEQUANT", Names(<<"swiglu_dynamic_scale">>))
  \o When(~p.enableSwigluQuant /\ p.quantType \in DynamicDequant, Names(<<"dynamic_input_scale">>))
  \o When(p.enableSwiGLUQuantForSharedExperts, Names(<<"swiglu_quant_input_scale">>))
  \o When(p.enableFlashComm, FlashCommCounts \o Names(<<"fake_ag_shape">>))

LinearInternalTensors(p) ==
  LET dynamic == p.quantType \in DynamicQuant /\ ~p.enableSwiGLUQuantForSharedExperts
  IN  When(~QuantisedBySwiglu(p),
           When(p.quantType \in {"W8A8_QUANT", "W8A8_SC_QUANT"} \/ dynamic, Names(<<"quant_input">>))
           \o When(dynamic, Names(<<"input_scale">>)))
      \o When(~p.enableSwigluQuant /\ p.enableFlashComm,
              Names(<<"allgather_out">>)
              \o When(p.quantType \in W8A8Dynamic, Names(<<"allgather_input_scale_out">>)))

(* Mutant: the scale of a dynamic quantisation is not passed on.           *)
AddElewiseQuantNoScale(p) ==
  When(p.quantType \in {"W8A8_QUANT", "W8A8_SC_QUANT"} \cup DynamicQuant,
       <<Node(Op("QuantPerChannel"), <<T("input"), <<"linear", "scale">>, <<"linear", "offset">>>>,
              Names(<<"quant_input">>))>>)

AddElewiseQuant(p) ==
  When(p.quantType \in {"W8A8_QUANT", "W8A8_SC_QUANT"},
       <<Node(Op("QuantPerChannel"), <<T("input"), <<"linear", "scale">>, <<"linear", "offset">>>>,
              Names(<<"quant_input">>))>>)
  \o When(p.quantType \in DynamicQuant,
          <<Node(Op("DynamicQuant"), Names(<<"input">>), Names(<<"quant_input", "input_scale">>))>>)

AddAllGather(p) ==
  <<Node(Op("AllGatherV"),
         Names(<<IF p.quantType \in {"W8A8_QUANT", "W8A8_DYNAMIC_QUANT", "W8A8_SC_QUANT"}
                   THEN "quant_input" ELSE "input",
                 "recv_count", "send_counts", "sdispls", "fake_ag_shape">>),
         Names(<<"allgather_out">>))>>
  \o When(p.quantType \in W8A8Dynamic,
          <<Node(Op("AllGatherV"),
                 Names(<<IF p.quantType = "W8A8_DYNAMIC_QUANT" THEN "input_scale"
                           ELSE "dynamic_input_scale",
                         "send_count", "recv_counts", "rdispls", "fake_ag_shape">>),
                 Names(<<"allgather_input_scale_out">>))>>)

(* One operation per kind of quantisation: <<op, ins>>.                    *)
AddAclNNWeightQuantBatchMatmul(p) ==
  <<OpOf("WeightQuantBatchMatmul", [hasBias |-> p.hasBias]),
    <<T("input"), <<"linear", "weight">>, <<"linear", "scale">>, <<"linear", "offset">>>>
      \o When(p.hasBias, <<<<"linear", "bias">>>>)>>

AddW4A8Matmul(p) ==
  LET quant == p.quantType = "W4A8_DYNAMIC_QUANT"
      down  == p.enableSwigluQuant /\ p.isDownLinear
      key   == IF ~down /\ quant /\ ~p.enableSwiGLUQuantForSharedExperts
                 THEN "quant_input" ELSE "input"
      scale == IF down /\ p.isPrefill /\ quant THEN "quant_input_scale"
               ELSE IF ~quant THEN "dynamic_input_scale"
               ELSE IF p.enableSwiGLUQuantForSharedExperts THEN "swiglu_quant_input_scale"
               ELSE "input_scale"
  IN  <<Op("W4A8"), <<T(key), <<"linear", "weight">>, T(scale), <<"linear", "scale">>,
                      <<"linear", "bias">>>>>>

AddAclNNQuantMatmul(p) ==
  LET down  == p.enableSwigluQuant /\ p.isDownLinear
      quant == \/ p.quantType = "W8A8_QUANT"
               \/ p.quantType = "W8A8_DYNAMIC_QUANT" /\ ~p.enableSwiGLUQuantForSharedExperts
      key   == IF down THEN "input" ELSE IF p.enableFlashComm THEN "allgather_out"
               ELSE IF quant THEN "quant_input" ELSE "input"
      scale == IF down /\ p.isPrefill /\ p.quantType = "W8A8_DYNAMIC_DEQUANT"
                 THEN "swiglu_dynamic_scale"
               ELSE IF p.enableFlashComm THEN "allgather_input_scale_out"
               ELSE IF p.quantType = "W8A8_DYNAMIC_DEQUANT" THEN "dynamic_input_scale"
               ELSE IF p.enableSwiGLUQuantForSharedExperts THEN "swiglu_quant_input_scale"
               ELSE "input_scale"
      bias  == p.hasBias \/ p.quantType \in PerTensor
      perToken == p.quantType \in W8A8Dynamic
  IN  <<OpOf("W8A8", [hasPerTokenScale |-> perToken, hasBias |-> bias]),
        <<T(key), <<"linear", "weight">>,
          <<"linear", IF p.quantType \in PerTensor THEN "descale" ELSE "scale">>>>
          \o When(perToken, Names(<<scale>>)) \o When(bias, <<<<"linear", "bias">>>>)>>

AddAclNNMatmul(p) ==
  <<OpOf("W16A16", [hasBias |-> p.hasBias]),
    <<T(IF p.enableFlashComm THEN "allgather_out" ELSE "input"), <<"linear", "weight">>>>
      \o When(p.hasBias, <<<<"linear", "bias">>>>)>>

\* Without a bias it is AddAclnnMatmul, which takes the same tensors.
AddAclNNLinear(p) ==
  CASE p.quantType \in {"W4A8_DYNAMIC_QUANT", "W4A8_DYNAMIC_DEQUANT"} -> AddW4A8Matmul(p)
    [] p.quantType \in {"W8A16", "W4A16"} -> AddAclNNWeightQuantBatchMatmul(p)
    [] UseQuantBatchMatmul(p) -> AddAclNNQuantMatmul(p)
    [] OTHER -> AddAclNNMatmul(p)

AddAtbLinear(p) ==
  LET key == IF p.enableFlashComm THEN "allgather_out"
             ELSE IF p.quantType = "W8A8_QUANT" THEN "quant_input" ELSE "input"
      quant == p.quantType # "NO_QUANT"
  IN  <<OpOf("Linear", [hasBias |-> quant \/ p.hasBias, quant |-> quant]),
        <<T(key), <<"linear", "weight">>>>
          \o When(quant \/ p.hasBias, <<<<"linear", "bias">>>>)
          \o When(quant, <<<<"linear", "descale">>>>)>>

AddSparseLinear(p) ==
  <<Op("LinearSparse"),
    <<T(IF p.enableFlashComm THEN "allgather_out"
        ELSE IF p.quantType = "W8A8_SC_DEQUANT" THEN "input" ELSE "quant_input"),
      <<"linear", "weight">>, <<"linear", "bias">>, <<"linear", "descale">>,
      <<"linear", "compress_idx">>>>>>

AddLinear(p) ==
  LET backend == IF p.quantType = "NO_QUANT" /\ (p.chip = "A3" \/ (p.isBF16 /\ p.chip = "A2"))
                   THEN "ATB" ELSE p.matmulBackend
      made == CASE p.quantType \in {"W8A8_SC_DEQUANT", "W8A8_SC_QUANT"} -> AddSparseLinear(p)
                [] p.quantType \in {"W8A16", "W4A16"} \/ UseQuantBatchMatmul(p) -> AddAclNNLinear(p)
                [] backend = "ATB" -> AddAtbLinear(p)
                [] OTHER -> AddAclNNLinear(p)
  IN  <<Node(made[1], made[2], Names(<<"out">>))>>

CreateFusionLinear(p) ==
  Graph(LinearInTensors(p), Names(<<"out">>), LinearInternalTensors(p),
        When(~p.enableSwiGLUQuantForSharedExperts /\ ~QuantisedBySwiglu(p),
             AddElewiseQuant(p) \o When(p.enableFlashComm, AddAllGather(p)))
        \o AddLinear(p))
-----------------------------------------------------------------------------
(* A linear with the low-rank product of an adapter added to it.           *)
LinearWithLoraInTensors(p) ==
  LinearIns \o When(p.useImMask, Names(<<"im_mask">>)) \o Names(<<"group_list">>) \o LoraPack("linear")
LinearWithLoraInternalTensors(p) ==
  When(p.useImMask, Names(<<"im_mask_out">>))
  \o Names(<<"base_linear_out", "lora_a_out", "lora_b_out">>)

AddLora(lora, weight, in, out) ==
  LET op == IF lora.loraEnableGMM THEN OpOf("GroupedMatmul", [hasBias |-> FALSE, quant |-> FALSE])
            ELSE OpOf("FusionLinear", lora)
  IN  <<Node(op, <<T(in), weight>> \o (IF lora.loraEnableGMM THEN Names(<<"group_list">>)
                                       ELSE Tail(Pack("linear"))), Names(<<out>>))>>

CreateFusionLinearWithLora(p) ==
  LET base == [p EXCEPT !.supportLora = FALSE, !.loraEnableGMM = FALSE]
      lora == [DefaultLinear EXCEPT !.isBF16 = p.isBF16, !.loraEnableGMM = p.loraEnableGMM,
                                    !.useImMask = p.useImMask, !.chip = p.chip]
  IN  Graph(LinearWithLoraInTensors(p), Names(<<"out">>), LinearWithLoraInternalTensors(p),
        <<Node(OpOf("FusionLinear", base), LinearIns, Names(<<"base_linear_out">>))>>
        \o When(p.useImMask, <<Node(Op("Mul"), Names(<<"input", "im_mask">>), Names(<<"im_mask_out">>))>>)
        \o AddLora(lora, LoraPack("linear")[1], IF p.useImMask THEN "im_mask_out" ELSE "input", "lora_a_out")
        \o AddLora(lora, LoraPack("linear")[2], "lora_a_out", "lora_b_out")
        \o <<Node(Op("Add"), Names(<<"base_linear_out", "lora_b_out">>), Names(<<"out">>))>>)

FusionLinear(p) == IF p.supportLora THEN CreateFusionLinearWithLora(p) ELSE CreateFusionLinear(p)
-----------------------------------------------------------------------------
(* linear_parallel.cpp.  `tp' and `innerTp' say that the linear is split    *)
(* over more than one rank, `perChannel' that the all-reduce is quantised.  *)
DefaultLinearParallel ==
  [linear |-> DefaultLinear, parallelType |-> "UNDEFINED", biasAfterSync |-> FALSE,
   supportLcoc |-> FALSE, enableMC2 |-> FALSE, isArgmaxlogits |-> FALSE, isPrefill |-> FALSE,
   tp |-> FALSE, innerTp |-> FALSE, perChannel |-> FALSE, backend |-> "hccl"]

IsDownDynamicDeQuant(p) ==
  p.linear.isPrefill /\ QuantisedBySwiglu(p.linear)

ReduceQuant == Names(<<"reduce_quant_scale", "reduce_quant_offset", "gather_quant_scale",
                       "gather_quant_offset">>)
IsReduceQuant(p) == p.perChannel /\ p.linear.quantType = "NO_QUANT"

LinearParallelInTensors(p) ==
  LinearIns
  \o When(p.linear.supportLora, When(p.linear.useImMask, Names(<<"im_mask">>))
                                \o Names(<<"seq_len_cum_sum">>) \o LoraPack("linear"))
  \o When(IsReduceQuant(p), ReduceQuant)
  \o When(IsDownDynamicDeQuant(p), Names(<<"swiglu_dynamic_scale">>))
  \o When(p.parallelType = "REDUCE_SCATTER",
          Names(<<"send_counts", "sdispls", "recv_count", "fake_rs_shape">>))

LinearParallelOutTensors(p) ==
  IF p.isArgmaxlogits THEN Names(<<"all_argmax_out", "all_argmaxwithvalue_out">>) ELSE Names(<<"out">>)

LinearParallelInternalTensors(p, enableLcoc) ==
  (IF enableLcoc THEN When(p.biasAfterSync /\ ~p.isArgmaxlogits, Names(<<"sync_out">>))
   ELSE IF p.innerTp THEN Names(<<"inner_tp_input", "inner_linear_out">>)
                          \o When(p.isPrefill, Names(<<"tp_allgather">>))
   ELSE Names(<<"linear_out">>)
        \o When(IsReduceQuant(p), Names(<<"quant_out">>))
        \o When(p.parallelType = "COLUMN_PARALLEL" /\ ~p.isArgmaxlogits, Names(<<"sync_out">>)))
  \o When(p.isArgmaxlogits, Names(<<"argmax_out", "argmax_withvalue_out", "transpose_argmax_out",
                                    "transpose_argmax_withvalue_out">>))

LinearParallelGraph(p, enableLcoc, nodes) ==
  Graph(LinearParallelInTensors(p), LinearParallelOutTensors(p),
        LinearParallelInternalTensors(p, enableLcoc), nodes)

AddBias(in) == <<Node(Op("Add"), <<T(in), <<"linear", "bias">>>>, Names(<<"out">>))>>

AddAllReduceOp(p) ==
  <<IF p.perChannel
    THEN Node(Op("AllReduceQuant"),
              Names(<<IF p.linear.quantType = "NO_QUANT" THEN "quant_out" ELSE "linear_out",
                      "reduce_quant_scale", "gather_quant_offset">>),
              Names(<<IF p.biasAfterSync THEN "linear_out" ELSE "out">>))
    ELSE Node(Op("AllReduce"), Names(<<"linear_out">>),
              Names(<<IF p.biasAfterSync THEN "linear_out" ELSE "out">>))>>
  \o When(p.biasAfterSync, AddBias("linear_out"))

AddReduceScatterOp(p) ==
  <<Node(Op("ReduceScatterV"),
         Names(<<"linear_out", "send_counts", "sdispls", "recv_count", "fake_rs_shape">>),
         Names(<<"out">>))>>

AddCommunicationOp(p) ==
  CASE p.parallelType = "ROW_PARALLEL" -> AddAllReduceOp(p)
    [] p.parallelType = "REDUCE_SCATTER" -> AddReduceScatterOp(p)
    [] OTHER -> <<Node(Op("AllGather"), Names(<<"linear_out">>), Names(<<"sync_out">>)),
                  Node(Op("Transpose"), Names(<<"sync_out">>), Names(<<"out">>))>>

CreateArgmax ==
  <<Node(Op("ArgMax"), Names(<<"linear_out">>), Names(<<"argmax_out">>)),
    Node(Op("MaxV2"), Names(<<"linear_out">>), Names(<<"argmax_withvalue_out">>))>>

AddCommunicationArgmaxOp ==
  <<Node(Op("AllGather"), Names(<<"argmax_out">>), Names(<<"transpose_argmax_out">>)),
    Node(Op("Transpose"), Names(<<"transpose_argmax_out">>), Names(<<"all_argmax_out">>))>>

AddCommunicationMaxOp ==
  <<Node(Op("AllGather"), Names(<<"argmax_withvalue_out">>), Names(<<"transpose_argmax_withvalue_out">>)),
    Node(Op("Transpose"), Names(<<"transpose_argmax_withvalue_out">>), Names(<<"all_argmaxwithvalue_out">>))>>

AddInnerPre(p) ==
  IF p.isPrefill
  THEN <<Node(Op("AllGather"), Names(<<"input">>), Names(<<"tp_allgather">>)),
         Node(Op("Slice"), Names(<<"tp_allgather">>), Names(<<"inner_tp_input">>))>>
  ELSE <<Node(Op("AllToAll"), Names(<<"input">>), Names(<<"inner_tp_input">>))>>

AddInnerPostReduceScatterNode(p) ==
  <<Node(Op("ReduceScatter"), Names(<<"inner_linear_out">>),
         Names(<<IF p.tp THEN "linear_out" ELSE "out">>))>>

AddFusionLinearNode(p) ==
  <<Node(OpOf("FusionLinear", p.linear),
         Names(<<IF p.innerTp THEN "inner_tp_input" ELSE "input">>) \o Pack("linear")
         \o When(p.linear.supportLora, When(p.linear.useImMask, Names(<<"im_mask">>))
                                       \o Names(<<"seq_len_cum_sum">>) \o LoraPack("linear"))
         \o When(IsDownDynamicDeQuant(p), Names(<<"swiglu_dynamic_scale">>)),
         Names(<<IF p.innerTp THEN "inner_linear_out" ELSE "linear_out">>))>>

CreateLinearParallel(p) ==
  LinearParallelGraph(p, FALSE,
    When(p.innerTp, AddInnerPre(p))
    \o AddFusionLinearNode(p)
    \o When(p.innerTp, AddInnerPostReduceScatterNode(p))
    \o When(p.tp,
         When(IsReduceQuant(p),
              <<Node(Op("QuantPerChannel"), Names(<<"linear_out", "reduce_quant_scale", "reduce_quant_offset">>),
                     Names(<<"quant_out">>))>>)
         \o IF p.isArgmaxlogits THEN CreateArgmax \o AddCommunicationArgmaxOp \o AddCommunicationMaxOp
            ELSE AddCommunicationOp(p)))

\* CreateLinearParallelMC2 and CreateLinearParallelLcoc: one operation multiplies and reduces.
CreateFusedLinearParallel(p, op) ==
  LinearParallelGraph(p, TRUE,
    <<Node(Op(op), <<T("input"), <<"linear", "weight">>>>,
           Names(<<IF p.biasAfterSync THEN "sync_out" ELSE "out">>))>>
    \o When(p.biasAfterSync, AddBias("sync_out")))

LinearParallel(p) ==
  IF ~p.tp /\ ~p.innerTp THEN FusionLinear(p.linear)
  ELSE IF p.parallelType = "ROW_PARALLEL" /\ p.linear.quantType = "NO_QUANT"
          /\ p.backend = "hccl" /\ p.enableMC2
       THEN CreateFusedLinearParallel(p, "MatmulAllreduce")
  ELSE IF p.parallelType = "ROW_PARALLEL" /\ p.linear.quantType = "NO_QUANT"
          /\ p.backend = "lccl" /\ p.supportLcoc /\ ~p.linear.supportLora
       THEN CreateFusedLinearParallel(p, "LinearParallelLcoc")
  ELSE CreateLinearParallel(p)
=============================================================================
