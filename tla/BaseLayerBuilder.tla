-------------------------- MODULE BaseLayerBuilder --------------------------
(***************************************************************************)
(* models/base/layer/decoder_layer.cpp: a layer of a dense model, the       *)
(* attention and the feed-forward part with the sums around them.  The      *)
(* parameters of both are derived from the flags of the layer.              *)
(***************************************************************************)
EXTENDS FusionAttentionBuilder

\* `linear' has the flags that the layer hands on to all its linears; `tp' and
\* `attnTp' say that more than one rank shares the layer or, with hasAttnDp, its attention.
DefaultLayer ==
  [normType |-> "RMS_NORM", linear |-> [DefaultLinear EXCEPT !.isPrefill = TRUE], isFA |-> FALSE,
   positionEmbeddingType |-> "ROPE", attnBackend |-> "ATB", layerId |-> 0, numHiddenLayers |-> 2,
   isAttnSkipLayer |-> FALSE, isMlpSkipLayer |-> FALSE, enableInterLayerAddNorm |-> FALSE,
   enableIntraLayerAddNorm |-> FALSE, useQKNorm |-> FALSE, usePostSelfAttnLayerNorm |-> FALSE,
   usePostMlpLayerNorm |-> FALSE, enableKvQuant |-> FALSE, kvQuantHasOffset |-> TRUE,
   enableFA3 |-> FALSE, enableReduceQuant |-> FALSE, enableCompressHead |-> FALSE,
   enableOmniAttention |-> FALSE, isomnicompressed |-> FALSE, enableSpeculate |-> FALSE,
   enableSplitFuse |-> FALSE, hasAttnDp |-> FALSE, hasMlpTp |-> FALSE,
   enableAclGraphPagedAttention |-> FALSE, enablePreFetchWeight |-> FALSE, enableSwiGLU |-> TRUE,
   isEdgeHardware |-> FALSE, enableRopeQuantKvcache |-> FALSE, isGroupedQueryAttention |-> TRUE,
   enableModelConfuscation |-> FALSE, qkvHasBias |-> FALSE, selfAttnHasBias |-> FALSE,
   gateUpHasBias |-> FALSE, downHasBias |-> FALSE, isAntiOutlier |-> FALSE, tp |-> TRUE, attnTp |-> TRUE,
   backend |-> "hccl", enableLcoc |-> FALSE, enableMC2 |-> FALSE, multiStream |-> FALSE,
   attnPack |-> PackOf("ALL_FP"), mlpPack |-> PackOf("ALL_FP"), weightPack |-> UndefinedPack,
   types |-> [l \in {"q", "k", "v", "dense", "gate", "up", "down"} |-> "INVALID"],
   descs |-> [l \in {"q", "k", "v", "dense", "gate", "up", "down"} |-> "INVALID"]]

LastLayer(p) == p.layerId = p.numHiddenLayers - 1
AddsInputNorm(p) == p.enableInterLayerAddNorm /\ p.layerId # 0
LeavesMlpOut(p) == p.enableInterLayerAddNorm /\ ~LastLayer(p)
GathersAttnDp(p) == p.hasAttnDp /\ p.hasMlpTp
TwoStreams(p) == p.linear.isPrefill /\ p.multiStream

LayerWeights ==
  NormPack("input_norm") \o CrossPack("qkv_0") \o CrossPack("qkv_1") \o CrossPack("qkv_2")
  \o CrossPack("qkv_dense") \o NormPack("post_attn_norm")
  \o CrossPack("mlp_0") \o CrossPack("mlp_1") \o CrossPack("mlp_down")
LayerDefaultIns ==
  Names(<<"hidden_states", "cos_embed", "sin_embed", "attention_mask", "k_cache", "v_cache", "seq_len",
          "token_offset", "layer_id", "block_tables", "slots">>)
LayerCompressRope == Names(<<"wins_global", "in_ra_seqlens", "pffset_index", "razor_offset", "in_reshape_seqlen">>)
LayerLoraAttn == LoraPack("qkv_0") \o LoraPack("qkv_1") \o LoraPack("qkv_2") \o LoraPack("qkv_dense")
LayerLoraMlp == LoraPack("mlp_0") \o LoraPack("mlp_1") \o LoraPack("mlp_down")
AttnReduceQuant == [i \in DOMAIN ReduceQuant |-> <<"attn", ReduceQuant[i][1]>>]
MlpReduceQuant == [i \in DOMAIN ReduceQuant |-> <<"mlp", ReduceQuant[i][1]>>]
AttnDpIns == Names(<<"final_hidden_state", "shard_effective_token_indices", "token_index_with_padding",
                     "skip_padding_token_indices">>)
FlashCommIns == FlashCommCounts \o Names(<<"fake_rs_shape", "fake_ag_shape">>)

\* In a prefill on two streams what belongs to a half of the batch is there twice.
Twice(p, s) == s \o When(TwoStreams(p), AuxiliaryList(s))

LayerInTensors(p) ==
  LayerWeights
  \o When(p.useQKNorm, QKNormWeights)
  \o When(p.usePostSelfAttnLayerNorm, Names(<<"post_self_attn_layernorm_weight">>))
  \o When(p.usePostMlpLayerNorm, Names(<<"post_mlp_layernorm_weight">>))
  \o When(p.enableInterLayerAddNorm \/ p.enableIntraLayerAddNorm,
          AddNormFills \o Names(<<"mlp_scale_fill", "mlp_offset_fill">>))
  \o When(p.enableKvQuant, KVQuantScales \o When(p.kvQuantHasOffset, KVQuantOffsets))
  \o When(p.enableFA3, FA3Quant)
  \o When(p.enableReduceQuant, AttnReduceQuant \o MlpReduceQuant)
  \o Twice(p, LayerDefaultIns)
  \o When(p.enableCompressHead, IF p.positionEmbeddingType = "ALIBI" THEN SubSeq(LayerCompressRope, 1, 2)
                                                                     ELSE LayerCompressRope)
  \o When(p.enableOmniAttention, LayerCompressRope)
  \o When(p.enableSpeculate \/ p.enableSplitFuse, Twice(p, Names(<<"q_len">>)))
  \o When(p.linear.supportLora, Names(<<"seq_len_cum_sum">>) \o LayerLoraAttn \o LayerLoraMlp)
  \o When(p.hasAttnDp, AttnDpIns)
  \o When(AddsInputNorm(p), Names(<<"last_mlp_out">>))
  \o When(p.linear.enableFlashComm, FlashCommIns)
  \o When(p.enableAclGraphPagedAttention /\ ~p.linear.isPrefill, Names(<<"paged_attention_tiling_data">>))

LayerInternalTensors(p) ==
  Twice(p, Names(CASE p.isAttnSkipLayer -> <<"mlp_out">>
                   [] ~p.isAttnSkipLayer /\ (p.isMlpSkipLayer \/ LeavesMlpOut(p)) -> <<"attn_out">>
                   [] OTHER -> <<"attn_out", "mlp_out">>))
  \o When(GathersAttnDp(p),
          Twice(p, Names(<<"dp_attn_out_with_padding", "dp_attn_out_all_with_padding", "dp_attn_gathered">>)))

LayerOutTensors(p) ==
  Twice(p, Names(<<"out">>)) \o When(GathersAttnDp(p), Names(<<"out_attndp_last_layer">>))
  \o When(LeavesMlpOut(p), Names(<<"out_mlp">>))
-----------------------------------------------------------------------------
(* The attention.                                                          *)
SetFusionAttentionATBPagedAttentionParam(p, a) ==
  [a EXCEPT
     !.compress = CASE p.enableOmniAttention -> "KVHEAD_ROPE"
                    [] ~p.enableCompressHead -> "NONE"
                    [] p.positionEmbeddingType = "ROPE" -> "KVHEAD_ROPE"
                    [] OTHER -> "KVHEAD",
     !.isomnicompressed = p.enableOmniAttention /\ p.isomnicompressed,
     !.spec = p.enableSpeculate \/ p.enableSplitFuse,
     !.pagedMask = (@ \/ p.enableSpeculate \/ p.enableSplitFuse) /\ ~p.enableKvQuant,
     !.quant = IF p.enableFA3 THEN "QUANT_QKV_ONLINE" ELSE IF p.enableKvQuant THEN "DEQUANT_FUSION" ELSE @,
     !.hasQuantOffset = p.enableKvQuant /\ p.kvQuantHasOffset]

SetFusionAttentionLinearParam(p, a) ==
  [a EXCEPT
     !.isGroupedQueryAttention = p.isGroupedQueryAttention, !.isAntiOutlier = p.isAntiOutlier,
     !.linear = [p.linear EXCEPT !.enableSwigluQuant = FALSE], !.pack = p.attnPack, !.densePack = p.weightPack,
     !.types = [l \in DOMAIN @ |-> p.types[l]], !.descs = [l \in DOMAIN @ |-> p.descs[l]],
     !.enablePreFetchWeight = p.enablePreFetchWeight, !.enableMC2 = p.enableMC2,
     !.qkvHasBias = p.qkvHasBias, !.selfAttnHasBias = p.selfAttnHasBias, !.supportLcoc = p.enableLcoc,
     !.tp = IF p.hasAttnDp THEN p.attnTp ELSE p.tp, !.reduceQuant = p.enableReduceQuant, !.backend = p.backend]

SetFusionAttentionParam(p) ==
  LET a == [DefaultAttention EXCEPT
              !.enableAddNorm = AddsInputNorm(p),
              !.norm.normHasBias = p.normType = "LAYER_NORM",
              !.norm.obfuscation = IF p.enableModelConfuscation THEN IF p.tp THEN 2 ELSE 1 ELSE 0,
              !.rotaryType = IF p.positionEmbeddingType = "ROPE" THEN "ALL_ROTARY" ELSE "NO_ROTARY",
              !.maskType = IF p.positionEmbeddingType = "ALIBI" THEN "ALIBI" ELSE "NORM",
              !.pagedMask = p.positionEmbeddingType = "ALIBI",
              !.isFA = p.isFA, !.enableSplitFuse = p.enableSplitFuse, !.attnBackend = p.attnBackend,
              !.enableRopeQuantKvcache = p.enableRopeQuantKvcache, !.useQKNorm = p.useQKNorm,
              !.enableAclGraphPagedAttention = p.enableAclGraphPagedAttention,
              !.increFA = p.isFA, !.kvQuant = p.enableKvQuant, !.kvQuantOffset = p.enableKvQuant /\ p.kvQuantHasOffset]
  IN  SetFusionAttentionLinearParam(p, SetFusionAttentionATBPagedAttentionParam(p, a))

GetAttentionIntensor(p, aux) ==
  LET Of(s) == [i \in DOMAIN s |-> IF aux /\ s[i] \in Elements(LayerDefaultIns) THEN Auxiliary(s[i]) ELSE s[i]]
  IN  Of(Names(<<"hidden_states">>) \o NormPack("input_norm") \o Pack("qkv_0") \o Pack("qkv_1") \o Pack("qkv_2")
         \o Names(<<"cos_embed", "sin_embed", "seq_len", "k_cache", "v_cache", "attention_mask",
                    "token_offset", "layer_id", "block_tables", "slots">>)
         \o Pack("qkv_dense"))
      \o When(AddsInputNorm(p), AddNormFills)
      \o When(p.enableCompressHead, IF p.positionEmbeddingType = "ALIBI" THEN SubSeq(LayerCompressRope, 1, 2)
                                                                         ELSE LayerCompressRope)
      \o When(p.enableOmniAttention, LayerCompressRope)
      \o When(p.enableSpeculate \/ p.enableSplitFuse, <<IF aux THEN Auxiliary(T("q_len")) ELSE T("q_len")>>)
      \o When(p.enableKvQuant, KVQuantScales \o When(p.kvQuantHasOffset, KVQuantOffsets))
      \o When(p.enableFA3, FA3Quant)
      \o When(p.linear.supportLora, Names(<<"seq_len_cum_sum">>) \o LayerLoraAttn)
      \o When(p.enableReduceQuant, AttnReduceQuant)
      \o When(p.useQKNorm, QKNormWeights)
      \o When(AddsInputNorm(p), Names(<<"last_mlp_out">>))
      \o When(p.enablePreFetchWeight, <<<<"mlp_0", "weight">>>>)
      \o When(p.linear.enableFlashComm, FlashCommIns)
      \o When(p.enableAclGraphPagedAttention /\ ~p.linear.isPrefill, Names(<<"paged_attention_tiling_data">>))

AddFusionAttention(p, aux) ==
  <<Node(OpOf("Attention", SetFusionAttentionParam(p)), GetAttentionIntensor(p, aux),
         <<Half("attn_out", aux)>> \o When(AddsInputNorm(p), <<Half("hidden_states", aux)>>))>>
  \o When(p.enablePreFetchWeight /\ ~p.linear.isPrefill,
          <<Node(Op("AclrtCmoAsync"), <<<<"mlp_0", "weight">>>>, <<>>)>>)

AddPostSelfAttnLayerNorm ==
  <<Node(Op("AtbNorm"), Names(<<"attn_out", "post_self_attn_layernorm_weight">>), Names(<<"attn_out">>))>>
AddPostMlpLayerNorm ==
  <<Node(Op("AtbNorm"), Names(<<"mlp_out", "post_mlp_layernorm_weight">>), Names(<<"mlp_out">>))>>

AddFusionAttentionResidualAdd(p, aux) ==
  When(~p.enableIntraLayerAddNorm,
       <<Node(Op("Add"), <<Half("hidden_states", aux), Half("attn_out", aux)>>,
              <<Half(IF p.isMlpSkipLayer THEN "out" ELSE "hidden_states", aux)>>)>>)
-----------------------------------------------------------------------------
(* The feed-forward part.                                                  *)
SetMlpParam(p) ==
  LET of3 == {"gate", "up", "down"}
  IN  [DefaultMlp EXCEPT
         !.linear = p.linear, !.norm.normHasBias = p.normType = "LAYER_NORM",
         !.norm.enableAddNorm = p.enableIntraLayerAddNorm,
         !.pack = p.mlpPack, !.downPack = p.weightPack,
         !.types = [l \in of3 |-> p.types[l]], !.descs = [l \in of3 |-> p.descs[l]],
         !.isAntiOutlier = p.isAntiOutlier, !.gateUpHasBias = p.gateUpHasBias, !.downHasBias = p.downHasBias,
         !.mlpPackType = GetMlpPackType(p.mlpPack, FALSE, [l \in {"gate", "up"} |-> p.descs[l]]),
         !.isEdgeHardware = p.isEdgeHardware, !.swiglu = p.enableSwiGLU,
         !.downTp = p.tp, !.downReduceQuant = p.enableReduceQuant, !.backend = p.backend,
         !.supportLcoc = p.enableLcoc, !.enableMC2 = p.enableMC2]

GetMlpIntensor(p, aux) ==
  <<Half(IF GathersAttnDp(p) THEN "dp_attn_gathered" ELSE "hidden_states", aux)>>
  \o NormPack("post_attn_norm") \o Pack("mlp_0") \o Pack("mlp_1") \o Pack("mlp_down")
  \o When(p.enableIntraLayerAddNorm, Names(<<"mlp_scale_fill", "mlp_offset_fill">>) \o <<Half("attn_out", aux)>>)
  \o When(p.linear.supportLora, Names(<<"seq_len_cum_sum">>) \o LayerLoraMlp)
  \o When(p.enableReduceQuant, MlpReduceQuant)
  \o When(p.linear.enableFlashComm, FlashCommIns)

AddMlp(p, aux) ==
  <<Node(OpOf("Mlp", SetMlpParam(p)), GetMlpIntensor(p, aux),
         <<Half(IF LeavesMlpOut(p) THEN "out_mlp" ELSE "mlp_out", aux)>>
         \o When(p.enableIntraLayerAddNorm,
                 <<Half(IF LeavesMlpOut(p) THEN "out" ELSE "hidden_states", aux)>>))>>

\* Mutant: every layer leaves the sum of its outputs to the next one.
AddMlpResidualAddNever(p, aux) ==
  When(~p.enableInterLayerAddNorm,
       <<Node(Op("Add"), <<Half(IF GathersAttnDp(p) THEN "dp_attn_gathered" ELSE "hidden_states", aux),
                           Half("mlp_out", aux)>>,
              <<Half(IF GathersAttnDp(p) THEN "out_attndp_last_layer" ELSE "out", aux)>>)>>)

AddMlpResidualAdd(p, aux) ==
  When(~LeavesMlpOut(p),
       <<Node(Op("Add"), <<Half(IF GathersAttnDp(p) THEN "dp_attn_gathered" ELSE "hidden_states", aux),
                           Half("mlp_out", aux)>>,
              <<Half(IF GathersAttnDp(p) THEN "out_attndp_last_layer" ELSE "out", aux)>>)>>)

(* With data parallel attention the feed-forward part sees all tokens.     *)
AddLayerPadNode(aux) ==
  <<Node(Op("Gather"), <<Half("hidden_states", aux), Half("token_index_with_padding", aux)>>,
         <<Half("dp_attn_out_with_padding", aux)>>)>>
AddLayerAllGatherNode(aux) ==
  <<Node(Op("AllGather"), <<Half("dp_attn_out_with_padding", aux)>>, <<Half("dp_attn_out_all_with_padding", aux)>>)>>
AddLayerUnPadNode(aux) ==
  <<Node(Op("Gather"), <<Half("dp_attn_out_all_with_padding", aux), Half("skip_padding_token_indices", aux)>>,
         <<Half("dp_attn_gathered", aux)>>)>>
AddFusedAllGather(aux) == AddLayerPadNode(aux) \o AddLayerAllGatherNode(aux) \o AddLayerUnPadNode(aux)
AddRevertAllGather(aux) ==
  <<Node(Op("Gather"), <<Half("out_attndp_last_layer", aux), Half("shard_effective_token_indices", aux)>>,
         <<Half("out", aux)>>)>>
-----------------------------------------------------------------------------
AttentionPart(p, aux) ==
  When(~p.isAttnSkipLayer,
       AddFusionAttention(p, aux)
       \o When(p.usePostSelfAttnLayerNorm /\ ~TwoStreams(p), AddPostSelfAttnLayerNorm)
       \o AddFusionAttentionResidualAdd(p, aux)
       \o When(GathersAttnDp(p), AddFusedAllGather(aux)))
MlpPart(p, aux) ==
  When(~p.isMlpSkipLayer,
       AddMlp(p, aux)
       \o When(p.usePostMlpLayerNorm /\ ~TwoStreams(p), AddPostMlpLayerNorm)
       \o AddMlpResidualAdd(p, aux)
       \o When(GathersAttnDp(p), AddRevertAllGather(aux)))

DecoderLayer(p) ==
  Graph(LayerInTensors(p), LayerOutTensors(p), LayerInternalTensors(p),
        AttentionPart(p, FALSE) \o When(TwoStreams(p), AttentionPart(p, TRUE))
        \o MlpPart(p, FALSE) \o When(TwoStreams(p), MlpPart(p, TRUE)))
=============================================================================
