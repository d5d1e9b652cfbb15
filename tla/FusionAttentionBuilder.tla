----------------------- MODULE FusionAttentionBuilder -----------------------
(***************************************************************************)
(* operations/fusion/attention/fusion_attention.cpp: the attention graph of *)
(* a layer (Attention) and the cross attention of OneRec (CrossAttention).  *)
(***************************************************************************)
EXTENDS AttentionBuilder

KVQuantScales == Names(<<"k_quant_scale", "k_dequant_scale", "v_quant_scale", "v_dequant_scale">>)
KVQuantOffsets == Names(<<"k_quant_offset", "k_dequant_offset", "v_quant_offset", "v_dequant_offset">>)
FA3Quant == Names(<<"q_quant_scale", "k_quant_scale", "v_quant_scale", "qk_descale", "q_offset",
                    "kv_offset", "fa3_v_quant_scale", "fa3_offset">>)
CompressHeadAlibi == Names(<<"batch_wins", "ra_seq_len">>)
CompressHeadRope == Names(<<"batch_wins", "ra_seq_len", "pffset_index", "ra_offset", "reshape_seq_len">>)
AttnLora(p) ==
  When(p.linear.supportLora, When(p.linear.useImMask, Names(<<"im_mask">>))
                             \o Names(<<"seq_len_cum_sum">>) \o QKVLora \o LoraPack("dense"))

\* The inputs by category, as GetAttnInTensorCandidates has them.
AttnDefaultInTensors ==
  Names(<<"input">>) \o NormPack("attn") \o QKVPacks
  \o Names(<<"cos_embed", "sin_embed", "seq_len", "k_cache", "v_cache", "attention_mask", "token_offset",
             "layer_id", "block_tables", "slots_in_pa_or_logn_in_fa">>) \o Pack("dense")
OneRecEncoderTensors ==
  Names(<<"input">>) \o NormPack("attn") \o QKVPacks \o Names(<<"attention_mask", "seq_len">>) \o Pack("dense")
OneRecDecoderTensors ==
  Names(<<"input">>) \o NormPack("attn") \o QKVPacks \o Pack("dense")
  \o Names(<<"attention_mask", "k_cache", "v_cache", "seq_len", "token_offset", "layer_id", "block_tables",
             "slots_in_pa_or_logn_in_fa">>)

PadsForFIA(p) == IsPrefill(p) /\ p.isFIA /\ p.layout = "BSND"

\* ConstructAttentionQuantTensorMap.
AttnQuantInTensors(p) ==
  When(p.quant = "DEQUANT_FUSION", KVQuantScales \o When(p.hasQuantOffset, KVQuantOffsets))
  \o When(p.quant = "QUANT_QKV_ONLINE", FA3Quant)
AttnQuantInternalTensors(p) ==
  When(p.quant = "DEQUANT_FUSION" /\ ~p.enableRopeQuantKvcache, Names(<<"k_int8", "v_int8">>))
  \o When(~IsPrefill(p) /\ p.quant = "QUANT_QKV_ONLINE", Names(<<"q_int8">>))
  \o When(p.quant = "QUANT_QKV_ONLINE", Names(<<"k_int8", "v_int8">>))

UseOneRecDecoderFAS(p) ==
  p.isOneRecDecoder /\ p.attnBackend = "ACLNN" /\ p.faScore /\ ~(IsPrefill(p) /\ p.enableXattention)

\* ConstructTensorMap and ConstructOneRecTensorMap.
AttentionInTensors(p) ==
  (IF p.isOneRecEncoder THEN OneRecEncoderTensors
   ELSE IF p.isOneRecDecoder THEN OneRecDecoderTensors ELSE AttnDefaultInTensors)
  \o When(p.enableAddNorm, AddNormFills)
  \o When(PadsForFIA(p) /\ ~p.isOneRecEncoder /\ ~p.isOneRecDecoder,
          Names(<<"fia_padding_idx", "fia_unpadding_idx">>))
  \o When(p.maskType \in AlibiCompress, Names(<<"slopes">>))
  \o (CASE p.compress = "KVHEAD" -> CompressHeadAlibi
        [] p.compress = "KVHEAD_ROPE" -> CompressHeadRope
        [] OTHER -> <<>>)
  \o When(p.spec \/ p.isPrefixCacheWithoutChunk
            \/ (p.isFIA /\ ~p.isOneRecEncoder /\ ~p.isOneRecDecoder), Names(<<"q_len">>))
  \o AttnQuantInTensors(p)
  \o AttnLora(p)
  \o When(p.reduceQuant, ReduceQuant)
  \o When(p.logN, Names(<<"log_n_scale">>))
  \o When(p.useQKNorm, QKNormWeights)
  \o When(p.enableAddNorm, Names(<<"residual_add">>))
  \o When(p.enablePreFetchWeight, Names(<<"mlp_weight_0">>))
  \o When(p.linear.enableFlashComm, FlashCommCounts \o Names(<<"fake_rs_shape", "fake_ag_shape">>))
  \o When(p.enableXattention, Names(<<"decode_k_cache", "decode_v_cache", "beam_width", "current_round">>))
  \o When(~IsPrefill(p) /\ p.enableAclGraphPagedAttention, Names(<<"paged_attention_tiling_data">>))

AttentionInternalTensors(p) ==
  (IF WritesDecodeCache(p) THEN Names(<<"q", "self_attention">>)
                           ELSE Names(<<"q", "k", "v", "self_attention">>))
  \o When(UseOneRecDecoderFAS(p), Names(<<"mask", "softmax_max_out", "softmax_sum_out", "softmax_out_out">>))
  \o AttnQuantInternalTensors(p)
  \o When(p.enableRopeQuantKvcache, Names(<<"qkv_rope">>))
  \o When(PadsForFIA(p) /\ ~p.isOneRecEncoder /\ ~p.isOneRecDecoder,
          Names(<<"q_bsnd", "self_attention_bsnd">>))

AttentionOutTensors(p) == Names(<<"out">>) \o When(p.enableAddNorm, Names(<<"out_add">>))

AddFAttnQKVLinearSplitNode(p) ==
  <<Node(OpOf("QKVLinearSplit", p),
      Names(<<"input">>) \o NormPack("attn") \o QKVPacks
      \o When(p.enableAddNorm, AddNormFills \o Names(<<"residual_add">>))
      \o When(p.linear.supportLora, When(p.linear.useImMask, Names(<<"im_mask">>))
                                    \o Names(<<"seq_len_cum_sum">>) \o QKVLora)
      \o When(p.useQKNorm, QKNormWeights)
      \o When(p.linear.enableFlashComm, FlashCommCounts \o Names(<<"fake_ag_shape">>))
      \o When(p.enableSplitRmsNormRope, Names(<<"cos_embed", "sin_embed">>)),
      Names(IF p.enableRopeQuantKvcache THEN <<"qkv_rope">> ELSE <<"q", KeyOf(p), ValueOf(p)>>)
      \o When(p.enableAddNorm, Names(<<"out_add">>)))>>

RopeQuantDequants(p) ==
  ~IsPrefill(p) /\ p.linear.isBF16
  /\ GetLinearQuantType(p.pack, p.types["q"], p.enableNormQuantOp, "INVALID") \in PerTensor
AddRopeQuantKvcacheOperation(p) ==
  <<Node(OpOf("DequantRopeQuantKvcache", [enableDequant |-> RopeQuantDequants(p)]),
      Names(<<"qkv_rope", "cos_embed", "sin_embed", "k_cache", "v_cache", "slots_in_pa_or_logn_in_fa",
              "k_quant_scale", "v_quant_scale", "k_quant_offset", "v_quant_offset">>)
      \o When(RopeQuantDequants(p), <<<<"0", "descale">>, <<"0", "bias">>>>),
      Names(<<"q", KeyOf(p), ValueOf(p)>>))>>

AddFAttnRopeNode(p) ==
  <<Node(OpOf("RotaryPositionEmbedding", p.rotaryType),
      Names(<<"q", KeyOf(p), "cos_embed", "sin_embed", "seq_len">>), Names(<<"q", KeyOf(p)>>))>>

AddQScaleNode == <<Node(Op("Muls"), Names(<<"q">>), Names(<<"q">>))>>

AddKVValueQuantNode(p) ==
  <<Node(Op("QuantPerChannel"), Names(<<KeyOf(p), "k_quant_scale", "k_quant_offset">>), Names(<<"k_int8">>)),
    Node(Op("QuantPerChannel"), Names(<<ValueOf(p), "v_quant_scale", "v_quant_offset">>), Names(<<"v_int8">>))>>

AddQuantNodeOfQ == <<Node(Op("QuantPerChannel"), Names(<<"q", "q_quant_scale", "q_offset">>), Names(<<"q_int8">>))>>
AddQuantNodesOfKV(p) ==
  <<Node(Op("QuantPerChannel"), Names(<<KeyOf(p), "k_quant_scale", "kv_offset">>), Names(<<"k_int8">>)),
    Node(Op("QuantPerChannel"), Names(<<ValueOf(p), "v_quant_scale", "kv_offset">>), Names(<<"v_int8">>))>>
QuantisesKV(p) ==
  \/ p.attnBackend = "ATB" /\ p.quant = "DEQUANT_FUSION"
  \/ p.attnBackend = "ACLNN" /\ p.kvQuant

AddPadNode == <<Node(Op("Gather"), Names(<<"q", "fia_padding_idx">>), Names(<<"q_bsnd">>))>>
AddUnpadNode ==
  <<Node(Op("Gather"), Names(<<"self_attention_bsnd", "fia_unpadding_idx">>), Names(<<"self_attention">>))>>

\* The output linear of the attention and of the cross attention.
SelfOutLinearParam(p, parallelType) ==
  LET type  == GetLinearQuantType(IF p.densePack.family = "UNDEFINED" THEN p.pack ELSE p.densePack,
                                  p.types["dense"], FALSE, p.descs["dense"])
      after == p.tp /\ type = "NO_QUANT" /\ p.selfAttnHasBias
  IN  [DefaultLinearParallel EXCEPT
        !.parallelType = parallelType, !.biasAfterSync = after, !.supportLcoc = p.supportLcoc,
        !.enableMC2 = p.enableMC2, !.tp = p.tp, !.perChannel = p.reduceQuant, !.backend = p.backend,
        !.linear = [p.linear EXCEPT !.quantType = type, !.hasBias = p.selfAttnHasBias /\ ~after,
                                    !.enableFlashComm = FALSE]]

\* Mutant: the all-reduce's scales come before the adapter of the output linear.
SelfOutLinearExtraInsSwapped(p) ==
  When(p.reduceQuant, ReduceQuant)
  \o When(p.linear.supportLora, When(p.linear.useImMask, Names(<<"im_mask">>))
                                \o LoraPack("dense") \o Names(<<"seq_len_cum_sum">>))

SelfOutLinearExtraIns(p) ==
  When(p.linear.supportLora, When(p.linear.useImMask, Names(<<"im_mask">>))
                             \o Names(<<"seq_len_cum_sum">>) \o LoraPack("dense"))
  \o When(p.reduceQuant, ReduceQuant)

AddSelfOutLinearParallelNode(p) ==
  LET scatter == p.linear.enableFlashComm
  IN  <<Node(OpOf("LinearParallel", SelfOutLinearParam(p, IF scatter THEN "REDUCE_SCATTER" ELSE "ROW_PARALLEL")),
          Names(<<"self_attention">>) \o Pack("dense") \o SelfOutLinearExtraIns(p)
          \o When(scatter, Names(<<"send_counts", "sdispls", "recv_count", "fake_rs_shape">>)),
          Names(<<"out">>))>>

AttentionNodes(p) ==
  CASE p.isFIA -> When(p.layout = "BSND", AddPadNode) \o AddFIA(p) \o When(p.layout = "BSND", AddUnpadNode)
    [] ~p.isFIA /\ UseOneRecDecoderFAS(p) ->
         <<Node(ConstructFAScoreNode[1], ConstructFAScoreNode[2],
                Names(<<"self_attention", "softmax_max_out", "softmax_sum_out", "softmax_out_out">>))>>
    [] OTHER -> AddSelfAttention(p)

Attention(p) ==
  Graph(AttentionInTensors(p), AttentionOutTensors(p), AttentionInternalTensors(p),
    AddFAttnQKVLinearSplitNode(p)
    \o (IF p.enableRopeQuantKvcache THEN AddRopeQuantKvcacheOperation(p)
        ELSE When(p.rotaryType # "NO_ROTARY" /\ ~p.enableSplitRmsNormRope, AddFAttnRopeNode(p))
             \o When(p.enableQScale, AddQScaleNode)
             \o When(QuantisesKV(p), AddKVValueQuantNode(p)))
    \o When(p.quant = "QUANT_QKV_ONLINE", When(~IsPrefill(p), AddQuantNodeOfQ) \o AddQuantNodesOfKV(p))
    \o When(UseOneRecDecoderFAS(p),
            <<Node(Op("CastForShape"), Names(<<"attention_mask">>), Names(<<"mask">>))>>)
    \o AttentionNodes(p)
    \o AddSelfOutLinearParallelNode(p))
-----------------------------------------------------------------------------
(* CrossAttention.  The prefill projects the encoder's output into the      *)
(* cross cache, which it gives out; the decode steps read it.  Environment  *)
(* variables stop the prefill of layer 0 early (`debugStop').               *)
CrossPackRoles == <<"weight", "bias", "descale", "offset", "scale", "compress_idx">>
CrossPack(name) == [i \in DOMAIN CrossPackRoles |-> <<name, CrossPackRoles[i]>>]

CrossStop(p) ==
  IF p.isOneRecCrossAttention /\ IsPrefill(p) THEN p.debugStop ELSE "none"
MinimizeInputs(p) ==
  p.isOneRecCrossAttention /\ p.attnBackend = "ACLNN" /\ p.enableOneRecPrefillOnly
  /\ ~p.enableSplitFuse /\ ~p.isFA
IsOneRecCrossPrefill(p) == IsPrefill(p) /\ p.isOneRecCrossAttention

CrossAttentionInTensors(p) ==
  Names(<<"self_residual_out">>) \o NormPack("cross")
  \o CrossPack("cross_0") \o CrossPack("cross_1") \o CrossPack("cross_2") \o CrossPack("cross_dense")
  \o Names(<<"seq_len", "layer_id">>)
  \o (IF IsPrefill(p)
      THEN Names(<<"encoder_output", "k_cache", "v_cache">>)
           \o When(~MinimizeInputs(p),
                   Names(<<"cross_attn_slots", "cross_attn_seq_len", "cross_attn_block_tables">>))
           \o Names(<<"self_attn_out", "cross_kv_len">>)
      ELSE Names(<<"attention_mask">>)
           \o When(~MinimizeInputs(p), Names(<<"cross_attn_seq_len", "cross_attn_block_tables">>))
           \o Names(<<"cross_k_cache", "cross_v_cache", "cross_kv_len">>))
  \o AttnQuantInTensors(p) \o AttnLora(p) \o When(p.enableAddNorm, Names(<<"residual_add">>))

CrossAttentionInternalTensors(p) ==
  (CASE CrossStop(p) = "qkv" -> Names(<<"q">>)
     [] CrossStop(p) \notin {"qkv", "none"} -> <<>>
     [] ~IsPrefill(p) \/ IsOneRecCrossPrefill(p) -> Names(<<"q", "self_attention">>)
     [] OTHER -> Names(<<"q", "k", "v", "self_attention">>))
  \o AttnQuantInternalTensors(p)
  \o When(p.attnBackend = "ACLNN" /\ CrossStop(p) = "none", Names(<<"q_bsnd">>))

CrossAttentionOutTensors(p) ==
  AttentionOutTensors(p) \o When(IsOneRecCrossPrefill(p), Names(<<"cross_k_cache", "cross_v_cache">>))

\* The normalisation and the sum before q, when the layer adds the residual here.
CrossAttnQAddRmsNormLinear(linear) ==
  Graph(Names(<<"input", "residual_add", "norm_weight">>) \o Pack("linear"),
        Names(<<"out_q", "out_add">>), Names(<<"norm", "rstd">>),
        <<Node(Op("AddRmsNorm"), Names(<<"residual_add", "input", "norm_weight">>),
               Names(<<"norm", "rstd", "out_add">>)),
          Node(OpOf("FusionLinear", linear), Names(<<"norm">>) \o Pack("linear"), Names(<<"out_q">>))>>)

CrossNormLinearParam(p, l) ==
  [DefaultNormLinear EXCEPT
     !.skipNorm = IF l = "q" THEN p.skipNorm ELSE TRUE, !.normHasBias = p.norm.normHasBias,
     !.linear = [p.linear EXCEPT !.quantType = AttnLinearQuantType(p, l), !.hasBias = p.qkvHasBias,
                                 !.enableFlashComm = FALSE]]

\* Without the sum the prefill lists the pack of q in the order of the inputs, not of the ports.
AddCrossAttnQ(p) ==
  LET linear == CrossNormLinearParam(p, "q").linear
  IN  IF p.enableAddNorm /\ ~p.skipNorm /\ ~p.linear.supportLora
      THEN <<Node(OpOf("CrossAttnQAddRmsNormLinear", linear),
               Names(<<"self_residual_out", "residual_add">>) \o <<<<"cross", "norm_weight">>>> \o Pack("cross_0"),
               Names(<<"q", "out_add">>))>>
      ELSE <<Node(OpOf("NormLinear", CrossNormLinearParam(p, "q")),
               QKVNormLinearIns("self_residual_out", "cross",
                                IF IsPrefill(p) THEN CrossPack("cross_0") ELSE Pack("cross_0"))
               \o LoraIns(p.linear, "0"),
               Names(<<"q">>))>>

AddCrossAttnProjection(p, l, pack, lora, out) ==
  <<Node(OpOf("NormLinear", CrossNormLinearParam(p, l)),
      QKVNormLinearIns("encoder_output", "cross", Pack(pack)) \o LoraIns(p.linear, lora), Names(<<out>>))>>

AddCrossAttnQKVProjectionNodes(p) ==
  When(~IsPrefill(p) \/ CrossStop(p) \in {"none", "qkv"}, AddCrossAttnQ(p))
  \o When(IsPrefill(p),
       When(CrossStop(p) \notin {"identity_k", "identity_kv"},
            AddCrossAttnProjection(p, "k", "cross_1", "1", "cross_k_cache"))
       \o When(CrossStop(p) \notin {"identity_v", "identity_kv", "k_only"},
               AddCrossAttnProjection(p, "v", "cross_2", "2", "cross_v_cache")))

\* What a stopped prefill gives out instead.
DebugOut(p) ==
  LET Copy(in, out) == <<Node(Op("Muls"), Names(<<in>>), Names(<<out>>))>>
  IN  Copy(IF CrossStop(p) = "qkv" THEN "q" ELSE "self_residual_out", "out")
      \o When(CrossStop(p) \in {"identity_k", "identity_kv"}, Copy("encoder_output", "cross_k_cache"))
      \o When(CrossStop(p) \in {"identity_v", "identity_kv", "k_only"}, Copy("encoder_output", "cross_v_cache"))

AddCrossOutLinearParallelNode(p) ==
  <<Node(OpOf("LinearParallel", SelfOutLinearParam(p, "ROW_PARALLEL")),
      Names(<<"self_attention">>) \o CrossPack("cross_dense") \o SelfOutLinearExtraIns(p), Names(<<"out">>))>>

CrossAttention(p) ==
  Graph(CrossAttentionInTensors(p), CrossAttentionOutTensors(p), CrossAttentionInternalTensors(p),
    AddCrossAttnQKVProjectionNodes(p)
    \o When(p.enableQScale, AddQScaleNode)
    \o When(IsPrefill(p) /\ QuantisesKV(p), AddKVValueQuantNode(p))
    \o When(p.quant = "QUANT_QKV_ONLINE", AddQuantNodeOfQ \o When(IsPrefill(p), AddQuantNodesOfKV(p)))
    \o (IF CrossStop(p) # "none" THEN DebugOut(p)
        ELSE AddSelfAttention(p) \o AddCrossOutLinearParallelNode(p)))
=============================================================================
