-------------------------- MODULE AttentionBuilder --------------------------
(***************************************************************************)
(* operations/fusion/attention: the linears of query, key and value         *)
(* (qkv_linear_split.cpp), the attention itself (self_attention.cpp) and    *)
(* the graph around both (fusion_attention.cpp), with the rotary embedding  *)
(* of operations/fusion/embedding/positional_embedding.cpp.                 *)
(***************************************************************************)
EXTENDS NormMlpBuilder

(* positional_embedding.cpp.                                               *)
PositionalEmbeddingGather ==
  EnumGraph(Names(<<"position_ids", "cos_table", "sin_table", "cos_embedding", "sin_embedding">>), 3, 2, 0,
    <<Node(Op("Gather"), Names(<<"cos_table", "position_ids">>), Names(<<"cos_embedding">>)),
      Node(Op("Gather"), Names(<<"sin_table", "position_ids">>), Names(<<"sin_embedding">>))>>)

PositionalEmbeddingGatherV2 ==
  EnumGraph(Names(<<"position_ids", "cos_sin_table", "embedding">>), 2, 1, 0,
    <<Node(Op("Gather"), Names(<<"cos_sin_table", "position_ids">>), Names(<<"embedding">>))>>)

AddSplitKV ==
  <<Node(Op("Split2"), Names(<<"query">>), Names(<<"qchunk0", "qchunk1">>)),
    Node(Op("Split2"), Names(<<"key">>), Names(<<"kchunk0", "kchunk1">>))>>
AddCatKV ==
  <<Node(Op("Concat"), Names(<<"qout", "qchunk1">>), Names(<<"out_query">>)),
    Node(Op("Concat"), Names(<<"kout", "kchunk1">>), Names(<<"out_key">>))>>

RotaryPositionEmbedding(rotaryType) ==
  LET half == rotaryType = "HALF_ROTARY"
      embed == Names(<<"rope_cos", "rope_sin", "seqlen">>)
  IN  EnumGraph(Names(<<"query", "key", "rope_cos", "rope_sin", "seqlen", "out_query", "out_key",
                        "qchunk0", "qchunk1", "kchunk0", "kchunk1", "qout", "kout">>),
                5, 2, IF half THEN 6 ELSE 0,
        IF half THEN AddSplitKV
                     \o <<Node(Op("Rope"), Names(<<"qchunk0", "kchunk0">>) \o embed, Names(<<"qout", "kout">>))>>
                     \o AddCatKV
                ELSE <<Node(Op("Rope"), Names(<<"query", "key">>) \o embed, Names(<<"out_query", "out_key">>))>>)
-----------------------------------------------------------------------------
(* FusionAttentionParam.  `linear' and `norm' have what the linears and the *)
(* norm take over; the parameters of the attention operations are given by  *)
(* the fields that decide their tensors: `maskType' of SelfAttention,       *)
(* `pagedMask', `quant', `compress', `spec', `logN' and `hasQuantOffset' of *)
(* PagedAttention, `kvQuant', `kvQuantOffset' and `increFA' of the AclNN    *)
(* attention, `layout', `enablePa' and `needMask' of FusedInferAttention,   *)
(* `faScore' that FlashAttentionScore has heads.                            *)
DefaultAttention ==
  [linear |-> DefaultLinear, norm |-> DefaultNormLinear, skipNorm |-> FALSE,
   pack |-> UndefinedPack, densePack |-> UndefinedPack,
   types |-> [l \in {"q", "k", "v", "dense"} |-> "INVALID"],
   descs |-> [l \in {"q", "k", "v", "dense"} |-> "INVALID"],
   isAntiOutlier |-> FALSE, isGroupedQueryAttention |-> FALSE, qkvHasBias |-> FALSE,
   enableNormQuantOp |-> TRUE, useQKNorm |-> FALSE, enableSplitRmsNormRope |-> FALSE,
   enableRopeQuantKvcache |-> FALSE, enableAddNorm |-> FALSE, attnBackend |-> "ATB",
   rotaryType |-> "NO_ROTARY", enableQScale |-> FALSE, enableSplitFuse |-> FALSE, isFA |-> TRUE,
   isFIA |-> FALSE, layout |-> "BSND", enablePa |-> FALSE, needMask |-> FALSE,
   maskType |-> "UNDEFINED", pagedMask |-> FALSE, quant |-> "NONE", compress |-> "NONE",
   spec |-> FALSE, logN |-> FALSE, hasQuantOffset |-> FALSE, kvQuant |-> FALSE,
   kvQuantOffset |-> FALSE, increFA |-> TRUE, faScore |-> FALSE, selfAttnHasBias |-> FALSE,
   supportLcoc |-> FALSE, enableMC2 |-> FALSE, tp |-> FALSE, reduceQuant |-> FALSE,
   backend |-> "hccl", isomnicompressed |-> FALSE, isPrefixCacheWithoutChunk |-> FALSE,
   enableXattention |-> FALSE, enableAclGraphPagedAttention |-> FALSE, needUpdateKVCache |-> TRUE,
   enablePreFetchWeight |-> FALSE, isOneRecEncoder |-> FALSE, isOneRecDecoder |-> FALSE,
   isOneRecCrossAttention |-> FALSE, enableOneRecPrefillOnly |-> FALSE, debugStop |-> "none"]

IsPrefill(p) == p.linear.isPrefill
AttnLinearQuantType(p, l) == GetLinearQuantType(p.pack, p.types[l], p.enableNormQuantOp, p.descs[l])

\* In the prefill of XAttention the linears write the cache of the decode steps.
WritesDecodeCache(p) == IsPrefill(p) /\ p.enableXattention /\ ~p.isOneRecCrossAttention
KeyOf(p) == IF WritesDecodeCache(p) THEN "decode_k_cache" ELSE "k"
ValueOf(p) == IF WritesDecodeCache(p) THEN "decode_v_cache" ELSE "v"

(* qkv_linear_split.cpp.                                                   *)
IsQKVPack(p) == CheckPack(p.pack, [l \in {"q", "k", "v"} |-> p.descs[l]])
QKVPacks == Pack("0") \o Pack("1") \o Pack("2")
QKVLora == LoraPack("0") \o LoraPack("1") \o LoraPack("2")
QKNormWeights == Names(<<"q_norm_weight", "k_norm_weight">>)
AddNormFills == Names(<<"qkv_scale_fill", "qkv_offset_fill">>)

QKVInTensors(p) ==
  Names(<<"input">>) \o NormPack("attn") \o QKVPacks
  \o When(p.enableAddNorm, AddNormFills \o Names(<<"residual_add">>))
  \o When(p.useQKNorm /\ IsQKVPack(p) /\ ~p.enableRopeQuantKvcache, QKNormWeights)
  \o When(p.linear.supportLora, When(p.linear.useImMask, Names(<<"im_mask">>))
                                \o Names(<<"seq_len_cum_sum">>) \o QKVLora)
  \o When(p.linear.enableFlashComm, FlashCommCounts \o Names(<<"fake_ag_shape">>))
  \o When(p.enableSplitRmsNormRope, Names(<<"cos_embed", "sin_embed">>))

QKVInternalTensors(p) ==
  When(IsQKVPack(p) /\ ~p.enableRopeQuantKvcache,
       Names(<<"qkv">>)
       \o When(p.useQKNorm /\ ~p.enableSplitRmsNormRope, Names(<<"q", "k", "q_rstd_out", "k_rstd_out">>)))

QKVOutTensors(p) ==
  (IF p.enableRopeQuantKvcache THEN Names(<<"qkv_rope">>) ELSE Names(<<"out_q", "out_k", "out_v">>))
  \o When(p.enableAddNorm, Names(<<"out_add">>))

\* The norm and the linear of q; those of k and v take over less.
QKVNormLinearParam(p, l) ==
  [DefaultNormLinear EXCEPT
     !.isAntiOutlier = CheckAntiOutlier(p.pack) \/ p.isAntiOutlier, !.skipNorm = p.skipNorm,
     !.normHasBias = p.norm.normHasBias, !.enableAddNorm = p.enableAddNorm /\ l = "q",
     !.enableAclnnRmsNorm = p.norm.enableAclnnRmsNorm /\ l = "q",
     !.obfuscation = IF l = "q" THEN p.norm.obfuscation ELSE 0,
     !.linear = [p.linear EXCEPT
        !.quantType = AttnLinearQuantType(p, l), !.hasBias = p.qkvHasBias,
        !.matmulBackend = IF l = "v" THEN "ATB" ELSE @, !.enableFlashComm = @ /\ l = "q"]]

QKVNormLinearIns(input, norm, pack) == <<T(input)>> \o NormPack(norm) \o pack

AddQNormLinearNode(p) ==
  <<Node(OpOf("NormLinear", QKVNormLinearParam(p, "q")),
         QKVNormLinearIns("input", "attn", Pack("0"))
         \o When(p.enableAddNorm, AddNormFills \o Names(<<"residual_add">>))
         \o LoraIns(p.linear, "0")
         \o When(p.linear.enableFlashComm, FlashCommCounts \o Names(<<"fake_ag_shape">>)),
         Names(<<IF p.enableRopeQuantKvcache THEN "qkv_rope" ELSE IF IsQKVPack(p) THEN "qkv" ELSE "out_q">>)
         \o When(p.enableAddNorm, Names(<<"out_add">>)))>>
AddKNormLinearNode(p) ==
  <<Node(OpOf("NormLinear", QKVNormLinearParam(p, "k")),
         QKVNormLinearIns("input", "attn", Pack("1")) \o LoraIns(p.linear, "1"), Names(<<"out_k">>))>>
AddVNormLinearNode(p) ==
  <<Node(OpOf("NormLinear", QKVNormLinearParam(p, "v")),
         QKVNormLinearIns("input", "attn", Pack("2")) \o LoraIns(p.linear, "2"), Names(<<"out_v">>))>>

AddSplitQKVNode(p) ==
  <<Node(Op("Split3"), Names(<<"qkv">>),
         Names(IF p.useQKNorm THEN <<"q", "k", "out_v">> ELSE <<"out_q", "out_k", "out_v">>))>>
AddSplitMixedQKVNode == <<Node(Op("Split3"), Names(<<"qkv">>), Names(<<"out_q", "out_k", "out_v">>))>>
AddQKNormNode ==
  <<Node(Op("RmsNorm"), Names(<<"q", "q_norm_weight">>), Names(<<"out_q", "q_rstd_out">>)),
    Node(Op("RmsNorm"), Names(<<"k", "k_norm_weight">>), Names(<<"out_k", "k_rstd_out">>))>>
AddSplitQKVRmsNormRopeNode ==
  <<Node(Op("SplitRmsnormRope"), Names(<<"qkv", "sin_embed", "cos_embed">>) \o QKNormWeights,
         Names(<<"out_q", "out_k", "out_v">>))>>

QKVLinearSplit(p) ==
  Graph(QKVInTensors(p), QKVOutTensors(p), QKVInternalTensors(p),
    AddQNormLinearNode(p)
    \o When(~p.enableRopeQuantKvcache,
         CASE IsQKVPack(p) /\ p.isGroupedQueryAttention ->
                (IF p.enableSplitRmsNormRope THEN AddSplitQKVRmsNormRopeNode
                 ELSE AddSplitQKVNode(p) \o When(p.useQKNorm, AddQKNormNode))
           [] IsQKVPack(p) /\ ~p.isGroupedQueryAttention -> AddSplitMixedQKVNode
           [] OTHER -> AddKNormLinearNode(p) \o AddVNormLinearNode(p)))
-----------------------------------------------------------------------------
(* self_attention.cpp: one of many attention operations, with the nodes     *)
(* that store the new keys and values in the cache.                         *)
AlibiCompress == {"ALIBI_COMPRESS", "ALIBI_COMPRESS_SQRT", "ALIBI_COMPRESS_LEFT_ALIGN"}
MaskAnd(p, between) ==
  When(p.maskType # "UNDEFINED", Names(<<"attention_mask">>)) \o Names(between)
  \o When(p.maskType \in AlibiCompress, Names(<<"slopes">>))

AddFaKVCacheOperation(p) ==
  LET Move(new, cache) == Node(Op("KvCache"), Names(<<new, "layer_id", cache, "token_offset", "seq_len">>), <<>>)
  IN  <<Move(IF p.kvQuant THEN "k_int8" ELSE "k", "k_cache"),
        Move(IF p.kvQuant THEN "v_int8" ELSE "v", "v_cache")>>

AddPaKVCacheOperation(p) ==
  <<Node(Op("ReshapeAndCache"),
      Names(IF p.quant # "NONE" THEN <<"k_int8", "v_int8">> ELSE <<"k", "v">>)
      \o Names(<<"k_cache", "v_cache",
                 IF p.isOneRecCrossAttention THEN "cross_attn_slots" ELSE "slots_in_pa_or_logn_in_fa">>)
      \o Names(CASE p.compress = "KVHEAD" -> <<"batch_wins", "seq_len">>
                 [] p.compress = "KVHEAD_ROPE" \/ p.isomnicompressed
                      -> <<"batch_wins", "reshape_seq_len", "pffset_index">>
                 [] OTHER -> <<>>),
      Names(<<"k_cache", "v_cache">>))>>

AddDecodeKVCacheOperation ==
  <<Node(Op("ReshapeDecodeKvCache"),
      Names(<<"k_cache", "v_cache", "k", "v", "block_tables", "current_round">>),
      Names(<<"k_cache", "v_cache">>))>>

AddFIA(p) ==
  LET bsnd == p.layout = "BSND"
      fia  == OpOf("FusedInferAttention",
                [needMask |-> p.needMask, enablePa |-> p.enablePa, tnd |-> p.layout = "TND"])
  IN  When(~p.enableRopeQuantKvcache /\ p.needUpdateKVCache /\ ~p.isFA /\ ~p.enableXattention,
           AddPaKVCacheOperation(p))
      \o <<Node(fia,
             (IF p.enablePa THEN Names(<<IF bsnd THEN "q_bsnd" ELSE "q", "k_cache", "v_cache">>)
                            ELSE Names(<<"q", "k", "v">>))
             \o Names(<<"seq_len", "attention_mask">>)
             \o (IF p.enablePa THEN Names(<<"q_len", "block_tables">>)
                 ELSE When(p.layout = "TND", Names(<<"q_len">>))),
             Names(<<IF bsnd THEN "self_attention_bsnd" ELSE "self_attention">>))>>

(* Each of the Construct...Node functions as <<op, ins>>.                  *)
ConstructAclNNDecoderNode(p) ==
  <<OpOf("AclNNAttention", [kvQuant |-> p.kvQuant, kvQuantOffset |-> p.kvQuantOffset]),
    Names(<<"q", "k_cache", "v_cache", "attention_mask",
            IF p.increFA THEN "token_offset" ELSE "seq_len", "block_tables">>)
    \o When(p.kvQuant, Names(<<"k_dequant_scale">>) \o When(p.kvQuantOffset, Names(<<"k_dequant_offset">>)))>>

ConstructFaNode(p) ==
  <<Op("SelfAttention"),
    Names(<<"q", "k", "v", "k_cache", "v_cache">>) \o MaskAnd(p, <<"token_offset", "seq_len", "layer_id">>)>>

ConstructPaEncoderNode(p) ==
  <<Op("SelfAttention"),
    Names(IF IsPrefill(p) /\ p.enableXattention THEN <<"q", "decode_k_cache", "decode_v_cache">>
                                                ELSE <<"q", "k", "v">>)
    \o MaskAnd(p, <<"seq_len">>)>>

ConstructPrefixEncoderNode(p) ==
  <<Op("SelfAttention"),
    Names(<<"q", "k_cache", "v_cache", "block_tables">>) \o MaskAnd(p, <<"q_len", "seq_len">>)>>

ConstructPaDecoderNode(p) ==
  <<Op(IF ~IsPrefill(p) /\ p.enableAclGraphPagedAttention THEN "CustomPagedAttention" ELSE "PagedAttention"),
    Names(<<IF p.quant = "QUANT_QKV_ONLINE" THEN "q_int8" ELSE "q", "k_cache", "v_cache", "block_tables",
            IF p.compress = "NONE" THEN "seq_len" ELSE "ra_seq_len">>)
    \o When(p.pagedMask, Names(<<"attention_mask">>))
    \o When(p.spec, Names(<<"q_len">>))
    \o When(p.quant = "DEQUANT_FUSION",
            Names(<<"k_dequant_scale">>) \o When(p.hasQuantOffset, Names(<<"k_dequant_offset">>))
            \o Names(<<"v_dequant_scale">>) \o When(p.hasQuantOffset, Names(<<"v_dequant_offset">>)))
    \o When(p.quant = "QUANT_QKV_ONLINE", Names(<<"qk_descale", "fa3_v_quant_scale">>))
    \o When(p.compress = "KVHEAD_ROPE", Names(<<"ra_offset">>))
    \o When(p.logN, Names(<<"log_n_scale">>))
    \o When(~IsPrefill(p) /\ p.enableAclGraphPagedAttention, Names(<<"paged_attention_tiling_data">>))>>

ConstructDecodeKVCacheNode ==
  <<Op("XAttention"),
    Names(<<"q", "decode_k_cache", "decode_v_cache", "k_cache", "v_cache", "block_tables", "seq_len",
            "current_round">>)>>

ConstructOneRecCrossFusedInferAttentionNode(p) ==
  <<OpOf("FusedInferAttention", [needMask |-> p.needMask, enablePa |-> p.enablePa, tnd |-> p.layout = "TND"]),
    Names(<<"q", "cross_k_cache", "cross_v_cache", "cross_kv_len">>)>>

ConstructFAScoreNode ==
  <<Op("FlashAttentionScore"), Names(<<"q", "k", "v", "attention_mask">>)>>

\* The batch size of the cross attention is learned from the shape that a cast is given.
AddBsProbe == <<Node(Op("CastForShape"), Names(<<"cross_kv_len">>), Names(<<"q_bsnd">>))>>

SelfAttentionNode(p) ==
  LET aclnn == p.attnBackend = "ACLNN"
  IN  CASE p.isFA /\ ~p.enableXattention ->
             (CASE aclnn /\ IsPrefill(p) -> ConstructPaEncoderNode(p)
                [] aclnn /\ ~IsPrefill(p) -> ConstructAclNNDecoderNode(p)
                [] OTHER -> ConstructFaNode(p))
        [] (~p.isFA \/ p.enableXattention) /\ IsPrefill(p) /\ ~p.enableSplitFuse /\ ~p.isOneRecCrossAttention ->
             IF p.isPrefixCacheWithoutChunk THEN ConstructPrefixEncoderNode(p) ELSE ConstructPaEncoderNode(p)
        [] OTHER ->
             (CASE ~aclnn /\ p.enableXattention -> ConstructDecodeKVCacheNode
                [] ~aclnn /\ ~p.enableXattention -> ConstructPaDecoderNode(p)
                [] aclnn /\ p.isOneRecCrossAttention -> ConstructOneRecCrossFusedInferAttentionNode(p)
                [] OTHER -> ConstructAclNNDecoderNode(p))

AddSelfAttention(p) ==
  LET updates == /\ ~p.enableRopeQuantKvcache /\ p.needUpdateKVCache
                 /\ ~(p.isOneRecCrossAttention /\ IsPrefill(p))
      node == SelfAttentionNode(p)
  IN  When(updates,
           CASE ~p.isFA /\ p.enableXattention /\ ~IsPrefill(p) -> AddDecodeKVCacheOperation
             [] ~p.isFA /\ ~p.enableXattention -> AddPaKVCacheOperation(p)
             [] p.isFA /\ p.attnBackend = "ACLNN" -> AddFaKVCacheOperation(p)
             [] OTHER -> <<>>)
      \o When(p.attnBackend = "ACLNN" /\ p.isOneRecCrossAttention, AddBsProbe)
      \o <<Node(node[1], node[2], Names(<<"self_attention">>))>>
=============================================================================
