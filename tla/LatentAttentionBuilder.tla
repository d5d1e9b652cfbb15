----------------------- MODULE LatentAttentionBuilder -----------------------
(***************************************************************************)
(* models/deepseekv2/operation: attention over a latent cache.  The linears *)
(* and the attention of prefill and decode (latent_attention.cpp), the ring *)
(* of a prefill that is split over ranks (ring_attention.cpp), and what     *)
(* merges the parts of a decode that is (fa_update.cpp).  The layers of     *)
(* models/deepseekv2 and models/glm use it.                                 *)
(***************************************************************************)
EXTENDS MoeBuilder

(* LatentAttentionParam.  `types' is attnLinearQuantType by the name of the *)
(* weight, `cp' the size of contextParallelInfo and `cpRank' the rank in    *)
(* it; `fa3' is EnableFA3Quant, `qLora' qLoraRank > 0, `unpadHeads'         *)
(* actual_headNum # 0, `pageMask' and `pageSpec' the maskType and calcType  *)
(* of pageAttentionParam, `hasMask' the maskType of selfAttentionParam.     *)
LatentLinears ==
  {"q_proj_a", "q_proj_b", "kv_proj_with_mqa", "k_proj_b_for_q", "v_proj_b_for_o", "attn_out"}

DefaultLatentAttention ==
  [pack |-> PackOf("ALL_FP"), densePack |-> UndefinedPack, types |-> [l \in LatentLinears |-> "FP"],
   isBF16 |-> FALSE, chip |-> "A2", selfAttnHasBias |-> FALSE, qLora |-> TRUE, isPrefill |-> FALSE,
   enableMlaPreprocess |-> FALSE, fa3 |-> FALSE, rotaryType |-> "ALL_ROTARY", ropeTrans |-> FALSE,
   unpadHeads |-> FALSE, enableQkvdownDp |-> FALSE, ffnAllGather |-> FALSE,
   enablePreprocessLcocTp |-> FALSE, enablePrefixCache |-> FALSE, enableFusedMLA |-> FALSE,
   cp |-> 1, cpRank |-> 0, hasAttnInnerSp |-> FALSE, enableCustomizeMla |-> FALSE, hasMask |-> TRUE,
   pageMask |-> FALSE, pageSpec |-> FALSE, enableExtraOprojTp |-> FALSE, enableOutLcocTp |-> FALSE,
   attnOprojPrefetch |-> FALSE, enableLcoc |-> FALSE, tp |-> FALSE, innerTp |-> FALSE]

HasCp(p) == p.cp > 1
DecodesInParts(p) == ~p.isPrefill /\ (HasCp(p) \/ p.hasAttnInnerSp)
PreprocessesFused(p) == p.qLora /\ p.enableMlaPreprocess /\ ~p.isPrefill

(* Old callers give a LinearType for a linear, new ones a LinearDesc; 0 and *)
(* 1 are in both, here FP and INT.                                          *)
UseAttnLinearDesc(p) == \E l \in LatentLinears : p.types[l] \notin {"INVALID", "FP", "INT"}

GetAttnLinearQuantType(p, l, hasNorm) ==
  LET float == UseAttnLinearDesc(p) /\ p.types[l] \in {"FP", "INT"}
      desc == IF ~UseAttnLinearDesc(p) THEN "INVALID" ELSE IF float THEN "FLOAT16" ELSE p.types[l]
  IN  GetLinearQuantType(IF p.densePack.family = "UNDEFINED" THEN p.pack ELSE p.densePack,
                         IF float THEN "FP" ELSE p.types[l], hasNorm, desc)

UseExtraQuant(p, l) == GetAttnLinearQuantType(p, l, TRUE) \in {"W8A8_DEQUANT", "W8A8_SC_DEQUANT"}
-----------------------------------------------------------------------------
(* ConstructTensorMap.                                                     *)
Halves(name) == <<<<name, "first">>, <<name, "last">>>>
LatentLayerNorm(name) == <<<<name, "norm_weight">>, <<name, "norm_bias">>>>

LatentAttnInTensors(p) ==
  Names(<<"input">>) \o NormPack("norm")
  \o Parts("q_proj_a", ExpertRoles) \o LatentLayerNorm("q_proj_a_layernorm")
  \o Parts("q_proj_b", ExpertRoles)
  \o Parts("kv_proj_with_mqa", ExpertRoles) \o LatentLayerNorm("kv_proj_a_layernorm")
  \o Parts("k_proj_b_for_q", ExpertRoles) \o Parts("v_proj_b_for_o", ExpertRoles)
  \o Parts("attn_out", ExpertRoles)
  \o Names(<<"cos_embed", "sin_embed", "seq_len", "k_cache", "k_rope_cache", "attention_mask", "q_len",
             "token_offset", "layer_id", "block_tables", "slots_in_pa_or_logn_in_fa", "attn_padding_idx">>)
  \o When(p.enablePrefixCache,
          Names(<<"history_compressed_kv", "history_k_rope", "ring_cur_seqlen", "ring_cache_seqlen">>))
  \o When(p.fa3, Names(<<"q_quant_scale", "k_quant_scale", "qk_descale", "kv_offset", "fa3_v_quant_scale">>))
  \o When(p.enableQkvdownDp, Names(<<"ffn_unpadding_idx">>))
  \o When(HasCp(p) /\ p.isPrefill,
          Names(<<"seq_len_cp">>) \o Halves("cp_load_balance_idx")
          \o Names(<<"cp_o_recover_idx", "cp_kv_recover_idx">>))
  \o When(p.hasAttnInnerSp /\ ~p.isPrefill, Names(<<"seq_len_sp">>))

QkvdownDpTensors(p) ==
  Names(IF p.enablePreprocessLcocTp
        THEN <<"latent_kv", "kv_all", "kv_unpadding_all", "fused_latent_q_norm", "q_b", "fused_q_lora_out">>
        ELSE <<"qkv_all", "qkv_unpadding_all">>)

PrefillTensors(p) ==
  Names(CASE p.enablePrefixCache ->
               <<"rope_k_o_repeat", "k_nope", "v_mha", "rope_k_o_repeat_history", "k_nope_history",
                 "v_mha_history", "cur_lse", "cache_lse">>
          [] p.enableFusedMLA -> <<"rope_k_o_repeat", "k_nope", "v_mha">>
          [] OTHER -> <<"q", "rope_k_o_repeat", "k_nope", "k_mha", "v_mha">>)
  \o <<<<"v_proj_b_for_o", "transposed_weight">>>>

LatentPathTensors(p) ==
  IF p.enableMlaPreprocess /\ ~p.isPrefill
  THEN Names(<<"q_nope", "self_attention", "reproj_o", "q_rope">>)
  ELSE Names(<<"input_norm", "latent_q", "nope_q", "rope_q", "rope_k", "rope_q_o", "rope_k_o", "kv",
               "self_attention">>)
       \o When(p.qLora /\ ~p.enablePreprocessLcocTp, Names(<<"latent_qkv", "latent_q_norm", "q_lora_out">>))
       \o When(~p.qLora, Names(<<"latent_kv">>))
       \o (IF p.isPrefill THEN PrefillTensors(p) ELSE Names(<<"reproj_nope_q", "reproj_o">>))

LatentAttnInternalTensors(p) ==
  When(p.fa3 /\ ~PreprocessesFused(p), Names(<<"kv_int8">>))
  \o When(p.enableQkvdownDp, QkvdownDpTensors(p))
  \o LatentPathTensors(p)
  \o When(DecodesInParts(p),
          Names(<<"go", "lse", "go_lse", "go_t", "lse_t", "go_fp32", "lse_fp32", "fa_update_out_fp32">>))
  \o When(HasCp(p),
          IF p.isPrefill
          THEN Names(<<"kv_cp", "rope_k_o_cp", "kv_cp_s", "rope_k_o_cp_s", "kv_rope_concat",
                       "kv_rope_concat_allgather", "k_mha_cp", "v_mha_cp", "q_nope_cp", "q_rope_cp",
                       "k_nope_cp", "k_rope_cp", "o_concat">>)
               \o Halves("q") \o Halves("k") \o Halves("v") \o Halves("o") \o Halves("lse")
          ELSE Names(<<"go_lse_allgather">>))
  \o When(p.hasAttnInnerSp /\ ~p.isPrefill,
          Names(<<"q", "q_allgather_sp", "q_allgather_sp_t", "q_sp_nope", "q_sp_rope", "go_lse_all2all">>))
  \o When(p.enableExtraOprojTp \/ p.enableOutLcocTp,
          Names(<<"self_attention_padding">>)
          \o When(UseExtraQuant(p, "attn_out") \/ p.enableOutLcocTp, Names(<<"self_attention_padding_quant">>)))
  \o When(p.unpadHeads, Names(<<"o_unpad", "o_pass">>))
  \o When(p.ropeTrans, Names(<<"rope_q_t", "rope_k_t">>))
-----------------------------------------------------------------------------
(* The linears and what is between them.                                   *)
LatentLinearParam(p, quantType) ==
  [DefaultLinear EXCEPT !.quantType = quantType, !.isBF16 = p.isBF16, !.hasBias = p.selfAttnHasBias,
                        !.chip = p.chip]

AddLatentLinear(p, quantType, in, l, out) ==
  <<Node(OpOf("FusionLinear", LatentLinearParam(p, quantType)), <<T(in)>> \o Pack(l), <<T(out)>>)>>

\* The norm before a linear quantises for it.
AddLatentNorm(p, l, in, norm, out) ==
  IF UseExtraQuant(p, l)
  THEN <<Node(Op("NormQuant"), <<T(in)>> \o LatentLayerNorm(norm) \o <<<<l, "scale">>, <<l, "offset">>>>,
              <<T(out)>>)>>
  ELSE <<Node(Op("AtbNorm"), <<T(in), <<norm, "norm_weight">>>>, <<T(out)>>)>>

AddMlaPreprocessNode(p) ==
  LET quant(l) == <<<<l, "scale">>, <<l, "offset">>, <<l, "weight">>, <<l, "descale">>, <<l, "bias">>>>
  IN  <<Node(Op("MlaPreprocess"),
          Names(<<"input">>) \o LatentLayerNorm("norm") \o quant("q_proj_a")
          \o LatentLayerNorm("q_proj_a_layernorm") \o quant("q_proj_b")
          \o <<<<"kv_proj_a_layernorm", "norm_weight">>, T("cos_embed"), T("sin_embed"),
               <<"k_proj_b_for_q", "weight">>, T("k_cache"), T("k_rope_cache"),
               T("slots_in_pa_or_logn_in_fa")>>
          \o (IF p.fa3 THEN Names(<<"k_quant_scale", "q_quant_scale">>)
                       ELSE <<<<"kv_proj_with_mqa", "scale">>, <<"q_proj_b", "scale">>>>),
          Names(<<"q_nope", "k_cache", "q_rope", "k_rope_cache">>))>>

AddLAttnPreNormNode(p) == AddLatentNorm(p, "q_proj_a", "input", "norm", "input_norm")

\* The norms do not quantise dynamically: these two linears do it themselves.
QuantisesItself(quantType) ==
  IF quantType = "W8A8_DYNAMIC_DEQUANT" THEN "W8A8_DYNAMIC_QUANT" ELSE quantType

AddLAttnQKVProjNode(p) ==
  AddLatentLinear(p, QuantisesItself(GetAttnLinearQuantType(p, "q_proj_a", TRUE)), "input_norm",
                  "q_proj_a", "latent_qkv")

AddSplitQKNode(p) ==
  <<Node(Op("Split3"), Names(<<IF p.enableQkvdownDp THEN "qkv_unpadding_all" ELSE "latent_qkv">>),
         Names(<<"kv", "rope_k", "latent_q">>))>>

AddLAttnQProjANode(p) ==
  AddLatentLinear(p, GetAttnLinearQuantType(p, "q_proj_a", TRUE), "input_norm", "q_proj_a", "latent_q")

AddLAttnQProjBNode(p) ==
  AddLatentNorm(p, "q_proj_b", "latent_q", "q_proj_a_layernorm", "latent_q_norm")
  \o AddLatentLinear(p, QuantisesItself(GetAttnLinearQuantType(p, "q_proj_b", TRUE)), "latent_q_norm",
                     "q_proj_b", "q_lora_out")

AddSplitQNode(p) ==
  <<Node(Op("Split2"),
         Names(<<CASE ~p.qLora -> "latent_q"
                   [] p.enablePreprocessLcocTp -> "fused_q_lora_out"
                   [] OTHER -> "q_lora_out">>),
         Names(<<"nope_q", "rope_q">>))>>

AddReprojQNode(p) ==
  AddLatentLinear(p, GetAttnLinearQuantType(p, "k_proj_b_for_q", FALSE), "nope_q", "k_proj_b_for_q",
                  "reproj_nope_q")

AddLAttnKVAProjNode(p) ==
  AddLatentLinear(p, GetAttnLinearQuantType(p, "kv_proj_with_mqa", TRUE), "input_norm",
                  "kv_proj_with_mqa", "latent_kv")

AddSplitKNode(p) ==
  <<Node(Op("Split2"), Names(<<IF p.enablePreprocessLcocTp THEN "kv_unpadding_all" ELSE "latent_kv">>),
         Names(<<"kv", "rope_k">>))>>

AddLAttnKVNormNode ==
  <<Node(Op("AtbNorm"), <<T("kv"), <<"kv_proj_a_layernorm", "norm_weight">>>>, Names(<<"kv">>))>>

AddLAttnRopeNode(p) ==
  When(p.ropeTrans, Unary("Transpose", "rope_q", "rope_q_t") \o Unary("Transpose", "rope_k", "rope_k_t"))
  \o <<Node(Op("Rope"),
            Names(IF p.ropeTrans THEN <<"rope_q_t", "rope_k_t">> ELSE <<"rope_q", "rope_k">>)
            \o Names(<<"cos_embed", "sin_embed", "seq_len">>),
            Names(<<"rope_q_o", "rope_k_o">>))>>

\* SetTPAllGatherNode and SetFFNUnPadding.
GatherDown(p) ==
  LET lcoc == p.enablePreprocessLcocTp
      all == IF lcoc THEN "kv_all" ELSE "qkv_all"
  IN  Unary("AllGather", IF lcoc THEN "latent_kv" ELSE "latent_qkv", all)
      \o Binary("Gather", IF p.ffnAllGather THEN all ELSE "latent_qkv", "ffn_unpadding_idx",
                IF lcoc THEN "kv_unpadding_all" ELSE "qkv_unpadding_all")

AddLAttnQNormNode(p) ==
  AddLatentNorm(p, "q_proj_b", "latent_q", "q_proj_a_layernorm", "fused_latent_q_norm")

AddFusedQBNode ==
  <<Node(Op("AllGatherLinear"),
         <<T("fused_latent_q_norm"), <<"q_proj_b", "weight">>, <<"q_proj_b", "bias">>,
           <<"q_proj_b", "descale">>>>, Names(<<"q_b">>))>>

SetFFNQUnPadding(p) ==
  Binary("Gather", IF p.ffnAllGather THEN "q_b" ELSE "fused_latent_q_norm", "ffn_unpadding_idx",
         "fused_q_lora_out")

AddKVQuantNode ==
  <<Node(Op("QuantPerChannel"), Names(<<"kv", "k_quant_scale", "kv_offset">>), Names(<<"kv_int8">>))>>

AddKAllGatherCpNode ==
  Binary("Concat", "kv", "rope_k_o", "kv_rope_concat")
  \o Unary("AllGather", "kv_rope_concat", "kv_rope_concat_allgather")
  \o <<Node(Op("Split2"), Names(<<"kv_rope_concat_allgather">>), Names(<<"kv_cp", "rope_k_o_cp">>))>>

\* The query of a decode, in two parts.
DecodeQ(p) == IF p.enableMlaPreprocess THEN <<"q_nope", "q_rope">> ELSE <<"reproj_nope_q", "rope_q_o">>

AddLAttnQCatNode(p) ==
  <<Node(Op("Concat"), Names(IF p.isPrefill THEN <<"nope_q", "rope_q_o">> ELSE DecodeQ(p)), Names(<<"q">>))>>

\* With context parallelism a prefill has the keys and values of all ranks.
HasAllRanks(p) == HasCp(p) /\ p.isPrefill

AddLAttnKCatPrefillNode(p) ==
  Unary("Repeat", IF HasAllRanks(p) THEN "rope_k_o_cp" ELSE "rope_k_o", "rope_k_o_repeat")
  \o Binary("Concat", "k_nope", "rope_k_o_repeat", "k_mha")
AddLAttnKRopeRepeatNode == Unary("Repeat", "rope_k_o", "rope_k_o_repeat")
AddLAttnKRopeRepeatHistoryNode == Unary("Repeat", "history_k_rope", "rope_k_o_repeat_history")

AddReshapeAndCacheNode(p) ==
  When(HasAllRanks(p), Binary("Gather", "kv_cp", "cp_kv_recover_idx", "kv_cp_s")
                       \o Binary("Gather", "rope_k_o_cp", "cp_kv_recover_idx", "rope_k_o_cp_s"))
  \o <<Node(Op("ReshapeAndCache"),
            Names(CASE HasAllRanks(p) -> <<"kv_cp_s", "rope_k_o_cp_s">>
                    [] ~HasAllRanks(p) /\ p.fa3 -> <<"kv_int8", "rope_k_o">>
                    [] OTHER -> <<"kv", "rope_k_o">>)
            \o Names(<<"k_cache", "k_rope_cache", "slots_in_pa_or_logn_in_fa">>),
            Names(<<"k_cache", "k_rope_cache">>))>>

AddReprojVNode(p) ==
  AddLatentLinear(p, GetAttnLinearQuantType(p, "v_proj_b_for_o", FALSE), "reproj_o", "v_proj_b_for_o",
                  "self_attention")

\* ...HistoryNode is the same with what the cache has of the keys and values.
AddLAttnKProjBNode(p, kv, out) ==
  AddLatentLinear(p, GetAttnLinearQuantType(p, "k_proj_b_for_q", FALSE), kv, "k_proj_b_for_q", out)

AddLAttnVProjBNodeTransposeWeightNode ==
  <<Node(Op("Transpose"), <<<<"v_proj_b_for_o", "weight">>>>, <<<<"v_proj_b_for_o", "transposed_weight">>>>)>>

AddLAttnVProjBNode(p, kv, out) ==
  <<Node(OpOf("FusionLinear", LatentLinearParam(p, GetAttnLinearQuantType(p, "v_proj_b_for_o", FALSE))),
         <<T(kv), <<"v_proj_b_for_o", "transposed_weight">>>> \o Tail(Pack("v_proj_b_for_o")), <<T(out)>>)>>

AddGetHistroyNode ==
  <<Node(Op("PagedCacheLoad"),
         Names(<<"k_cache", "k_rope_cache", "block_tables", "token_offset", "history_compressed_kv",
                 "history_k_rope">>),
         Names(<<"history_compressed_kv", "history_k_rope">>))>>

PreprocessKV(p) ==
  LET kv == IF HasAllRanks(p) THEN "kv_cp" ELSE "kv"
      history == "history_compressed_kv"
  IN  AddLAttnVProjBNodeTransposeWeightNode
      \o (IF p.enablePrefixCache
          THEN AddLAttnKProjBNode(p, kv, "k_nope") \o AddLAttnKRopeRepeatNode
               \o AddLAttnVProjBNode(p, kv, "v_mha") \o AddGetHistroyNode
               \o AddLAttnKProjBNode(p, history, "k_nope_history") \o AddLAttnKRopeRepeatHistoryNode
               \o AddLAttnVProjBNode(p, history, "v_mha_history")
          ELSE When(HasCp(p), AddKAllGatherCpNode) \o AddLAttnKProjBNode(p, kv, "k_nope")
               \o When(~p.enableFusedMLA, AddLAttnKCatPrefillNode(p) \o AddLAttnQCatNode(p))
               \o AddLAttnVProjBNode(p, kv, "v_mha"))

\* From the input to the query and what goes into the cache.
PreprocessQ(p) ==
  CASE p.qLora /\ p.enablePreprocessLcocTp ->
         AddLAttnKVAProjNode(p) \o GatherDown(p) \o AddSplitKNode(p) \o AddLAttnQProjANode(p)
         \o AddLAttnQNormNode(p) \o AddFusedQBNode \o SetFFNQUnPadding(p) \o AddSplitQNode(p)
    [] p.qLora /\ ~p.enablePreprocessLcocTp ->
         AddLAttnQKVProjNode(p) \o When(p.enableQkvdownDp, GatherDown(p)) \o AddSplitQKNode(p)
         \o AddLAttnQProjBNode(p) \o AddSplitQNode(p)
    [] OTHER ->
         AddLAttnQProjANode(p) \o AddSplitQNode(p) \o AddLAttnKVAProjNode(p) \o AddSplitKNode(p)

Preprocess(p) ==
  IF PreprocessesFused(p) THEN AddMlaPreprocessNode(p)
  ELSE AddLAttnPreNormNode(p) \o PreprocessQ(p) \o AddLAttnKVNormNode
       \o When(p.rotaryType # "NO_ROTARY", AddLAttnRopeNode(p))
       \o (IF p.isPrefill THEN PreprocessKV(p) ELSE AddReprojQNode(p))
       \o When(p.fa3, AddKVQuantNode) \o AddReshapeAndCacheNode(p)
-----------------------------------------------------------------------------
(* The ring of a prefill with context parallelism.  The sequence is cut     *)
(* into 2 * cp pieces and rank r has pieces r and 2 * cp - 1 - r of the     *)
(* queries, so that the ranks have as much to do as each other.  In step n  *)
(* of the ring a rank attends to the two pieces of rank n.                  *)
EndOf(p, piece) == IF piece < p.cp THEN "first" ELSE "last"

AddSelfAttnNode(p, q, kv) ==
  LET merged == <<<<"o", EndOf(p, q)>>, <<"lse", EndOf(p, q)>>>>
  IN  <<Node(Op("RingMLA"),
             Names(<<"q_nope_cp", "q_rope_cp", "k_nope_cp", "k_rope_cp">>)
             \o <<<<"v", EndOf(p, kv)>>, T("attention_mask"), T("seq_len_cp")>> \o When(kv # 0, merged),
             merged)>>

AddPaEncoderLBNode(p, q, kv) ==
  When(q >= kv,
       <<Node(Op("Split2"), <<<<"q", EndOf(p, q)>>>>, Names(<<"q_nope_cp", "q_rope_cp">>)),
         Node(Op("Split2"), <<<<"k", EndOf(p, kv)>>>>, Names(<<"k_nope_cp", "k_rope_cp">>))>>
       \o AddSelfAttnNode(p, q, kv))

AddHalfGatherNode(in, name, half) ==
  <<Node(Op("Gather"), <<T(in), <<"cp_load_balance_idx", half>>>>, <<<<name, half>>>>)>>

AddQGatherNode == AddHalfGatherNode("q", "q", "first") \o AddHalfGatherNode("q", "q", "last")

AddKVSliceNode == Unary("Slice", "k_mha", "k_mha_cp") \o Unary("Slice", "v_mha", "v_mha_cp")

AddKVGatherNode(half) ==
  AddHalfGatherNode("k_mha_cp", "k", half) \o AddHalfGatherNode("v_mha_cp", "v", half)

AddRingAttentionLB(p) ==
  LET last(rank) == p.cp * 2 - 1 - rank
      turn(n) == AddKVSliceNode \o AddKVGatherNode("first") \o AddKVGatherNode("last")
                 \o AddPaEncoderLBNode(p, p.cpRank, n) \o AddPaEncoderLBNode(p, p.cpRank, last(n))
                 \o AddPaEncoderLBNode(p, last(p.cpRank), n) \o AddPaEncoderLBNode(p, last(p.cpRank), last(n))
      turns[n \in 0 .. p.cp] == IF n = 0 THEN <<>> ELSE turns[n - 1] \o turn(n - 1)
  IN  AddQGatherNode \o turns[p.cp]
      \o <<Node(Op("Concat"), Halves("o"), Names(<<"o_concat">>))>>
      \o Binary("Gather", "o_concat", "cp_o_recover_idx", "self_attention")
-----------------------------------------------------------------------------
(* What merges the parts of a decode: every rank has attended to its part   *)
(* of the keys and has a result `go' with the weight `lse' of it.           *)
AddGoLseConcat == Binary("Concat", "go", "lse", "go_lse")
AddGoLseAll2All == Unary("AllToAll", "go_lse", "go_lse_all2all")
AddGoLseAllGather(p) ==
  Unary("AllGather", IF p.hasAttnInnerSp THEN "go_lse_all2all" ELSE "go_lse", "go_lse_allgather")
AddGoLseSplit(p) ==
  <<Node(Op("Split2"), Names(<<IF HasCp(p) THEN "go_lse_allgather" ELSE "go_lse_all2all">>),
         Names(<<"go_t", "lse_t">>))>>
CreateCastToFP32 == Unary("Cast", "lse_t", "lse_fp32") \o Unary("Cast", "go_t", "go_fp32")
AddFaUpdate == Binary("FaUpdate", "lse_fp32", "go_fp32", "fa_update_out_fp32")
CreateCastToFP16 == Unary("Cast", "fa_update_out_fp32", "reproj_o")

AddDecodeUpdate(p) ==
  AddGoLseConcat \o When(p.hasAttnInnerSp, AddGoLseAll2All) \o When(HasCp(p), AddGoLseAllGather(p))
  \o AddGoLseSplit(p) \o CreateCastToFP32 \o AddFaUpdate \o CreateCastToFP16
-----------------------------------------------------------------------------
(* The attention.                                                          *)
AddQAllGatherTp2Sp ==
  Unary("AllGather", "q", "q_allgather_sp_t") \o Unary("Transpose", "q_allgather_sp_t", "q_allgather_sp")
AddQSplitNode == <<Node(Op("Split2"), Names(<<"q_allgather_sp">>), Names(<<"q_sp_nope", "q_sp_rope">>))>>

AddPaEncoderNode(p) ==
  <<Node(Op("SelfAttention"),
         Names(<<"q", "k_mha", "v_mha">>) \o When(p.hasMask, Names(<<"attention_mask">>))
         \o Names(<<"seq_len">>), Names(<<"self_attention">>))>>

AddRingMLAEncoderNode ==
  <<Node(Op("RingMLA"),
         Names(<<"nope_q", "rope_q_o", "k_nope", "rope_k_o_repeat", "v_mha", "attention_mask",
                 "ring_cur_seqlen">>), Names(<<"self_attention", "cur_lse">>))>>
AddRingMLAEncoderHistoryNode ==
  <<Node(Op("RingMLA"),
         Names(<<"nope_q", "rope_q_o", "k_nope_history", "rope_k_o_repeat_history", "v_mha_history",
                 "attention_mask", "ring_cache_seqlen", "self_attention", "cur_lse">>),
         Names(<<"self_attention", "cache_lse">>))>>

AddEncoderMLANode(p) ==
  <<Node(Op("AtbMultiLatentAttention"),
         Names(<<"nope_q", "rope_q_o", "k_nope", "rope_k_o_repeat", "v_mha", "seq_len", "seq_len">>)
         \o When(p.hasMask, Names(<<"attention_mask">>)), Names(<<"self_attention">>))>>

AddMlaDecoderNode(p) ==
  LET param == [mask |-> p.pageMask, spec |-> p.pageSpec, int8Cache |-> p.fa3, ring |-> p.hasAttnInnerSp]
      op == IF p.enableCustomizeMla THEN OpOf("MultiLatentAttention", param) ELSE Op("AtbMultiLatentAttention")
  IN  <<Node(op,
          Names(IF p.hasAttnInnerSp THEN <<"q_sp_nope", "q_sp_rope">> ELSE DecodeQ(p))
          \o Names(<<"k_cache", "k_rope_cache", "block_tables",
                     IF p.hasAttnInnerSp THEN "seq_len_sp" ELSE "seq_len">>)
          \o When(p.pageMask, Names(<<"attention_mask">>)) \o When(p.pageSpec, Names(<<"q_len">>))
          \o When(p.fa3, Names(<<"qk_descale", "fa3_v_quant_scale">>)),
          Names(IF DecodesInParts(p) THEN <<"go", "lse">> ELSE <<"reproj_o">>))>>

LatentSelfAttention(p) ==
  CASE ~p.isPrefill ->
         When(p.hasAttnInnerSp, AddLAttnQCatNode(p) \o AddQAllGatherTp2Sp \o AddQSplitNode)
         \o AddMlaDecoderNode(p) \o When(DecodesInParts(p), AddDecodeUpdate(p)) \o AddReprojVNode(p)
    [] p.isPrefill /\ p.enablePrefixCache -> AddRingMLAEncoderNode \o AddRingMLAEncoderHistoryNode
    [] p.isPrefill /\ ~p.enablePrefixCache /\ HasCp(p) -> AddRingAttentionLB(p)
    [] p.isPrefill /\ ~p.enablePrefixCache /\ ~HasCp(p) ->
         IF p.enableFusedMLA THEN AddLAttnKRopeRepeatNode \o AddEncoderMLANode(p) ELSE AddPaEncoderNode(p)
-----------------------------------------------------------------------------
(* The output linear.                                                      *)
SetAttnOprojPrefetch == <<Node(Op("AclrtCmoAsync"), <<<<"attn_out", "weight">>>>, <<>>)>>

AddOprojAllToAllPaddingNode ==
  Binary("Gather", "self_attention", "attn_padding_idx", "self_attention_padding")

AddQuantOprojNode ==
  <<Node(Op("QuantPerChannel"),
         <<T("self_attention_padding"), <<"attn_out", "scale">>, <<"attn_out", "offset">>>>,
         Names(<<"self_attention_padding_quant">>))>>

AddSelfFusedOutLinearParallelNode ==
  <<Node(Op("LinearReduceScatter"),
         <<T("self_attention_padding_quant"), <<"attn_out", "weight">>, <<"attn_out", "bias">>,
           <<"attn_out", "descale">>>>, Names(<<"out">>))>>

\* What the output linear is given when its heads are not cut.
OutLinearInput(p, quantType) ==
  CASE ~p.enableExtraOprojTp -> "self_attention"
    [] p.enableExtraOprojTp /\ quantType = "W8A8_DEQUANT" -> "self_attention_padding_quant"
    [] OTHER -> "self_attention_padding"

AddUnpadSplitNode(p) ==
  <<Node(Op("Split2"), Names(<<OutLinearInput(p, GetAttnLinearQuantType(p, "attn_out", FALSE))>>),
         Names(<<"o_unpad", "o_pass">>))>>

SetSelfOutLinearParallelParam(p) ==
  LET type == GetAttnLinearQuantType(p, "attn_out", FALSE)
      given == IF type = "W8A8_QUANT" /\ p.enableExtraOprojTp THEN "W8A8_DEQUANT" ELSE type
  IN  [DefaultLinearParallel EXCEPT
         !.parallelType = "ROW_PARALLEL", !.supportLcoc = p.enableLcoc, !.tp = p.tp, !.innerTp = p.innerTp,
         !.linear = [LatentLinearParam(p, given) EXCEPT !.isPrefill = p.isPrefill]]

AddLAttnSelfOutLinearParallelNode(p) ==
  LET out == SetSelfOutLinearParallelParam(p)
  IN  <<Node(OpOf("LinearParallel", out),
             Names(<<IF p.unpadHeads THEN "o_unpad" ELSE OutLinearInput(p, out.linear.quantType)>>)
             \o Pack("attn_out"), Names(<<"out">>))>>

LatentOutput(p) ==
  When(p.enableExtraOprojTp \/ p.enableOutLcocTp,
       When(p.attnOprojPrefetch, SetAttnOprojPrefetch) \o AddOprojAllToAllPaddingNode)
  \o When(p.enableOutLcocTp \/ (p.enableExtraOprojTp /\ UseExtraQuant(p, "attn_out")), AddQuantOprojNode)
  \o (IF p.enableOutLcocTp THEN AddSelfFusedOutLinearParallelNode
      ELSE When(p.unpadHeads, AddUnpadSplitNode(p)) \o AddLAttnSelfOutLinearParallelNode(p))

LatentAttention(p) ==
  Graph(LatentAttnInTensors(p), Names(<<"out">>), LatentAttnInternalTensors(p),
        Preprocess(p) \o LatentSelfAttention(p) \o LatentOutput(p))
=============================================================================
