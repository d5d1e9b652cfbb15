----------------------------- MODULE MCGraphRun -----------------------------
(***************************************************************************)
(* The graphs that the run looks at.  A configuration is a set of the       *)
(* options that are on: every pair of them (`on'), with every value of the  *)
(* options that matter everywhere.  The conditions are what the builders    *)
(* ask of their callers and do not check; README.md has the code where each *)
(* of them bites.                                                          *)
(***************************************************************************)
EXTENDS GraphRun

Pairs(S) == {{a, b} : a, b \in S}

Families == {"NO_QUANT", "W8A8", "W8A8SC", "W8A16", "W4A16", "W8A8_DYNAMIC", "W4A8"}
Described(p, q, anti) ==
  LET desc == IF q = "NO_QUANT" THEN "FLOAT16" ELSE q
      pack == [PackOf("ALL_FP") EXCEPT !.anti = anti]
  IN  [p EXCEPT !.attnPack = pack, !.mlpPack = pack, !.descs = [l \in DOMAIN @ |-> desc]]

\* Decoder layers under every quantisation.
QuantLayers(P(_)) ==
  \E q \in Families, pre, tp, lora, inter, intra, bf16, norm, fa \in BOOLEAN, layer \in 0 .. 2,
     back \in {"ATB", "ACLNN"} :
    /\ lora => q = "NO_QUANT"
    /\ inter => intra
    /\ (inter \/ intra) => ~norm
    /\ layer = 1 \/ inter
    /\ fa = norm /\ (bf16 => pre) /\ (fa => tp)
    /\ LET p == [DefaultLayer EXCEPT
                   !.linear.isPrefill = pre, !.linear.isBF16 = bf16, !.linear.supportLora = lora,
                   !.linear.matmulBackend = back, !.attnBackend = IF fa THEN back ELSE "ATB",
                   !.tp = tp, !.attnTp = tp, !.isFA = fa,
                   !.normType = IF norm THEN "LAYER_NORM" ELSE "RMS_NORM",
                   !.enableInterLayerAddNorm = inter, !.enableIntraLayerAddNorm = intra,
                   !.layerId = layer, !.numHiddenLayers = 3]
       IN  P(OpOf("DecoderLayer", Described(p, q, FALSE)))

LayerKinds ==
  {"compress", "omni", "spec", "split", "dp", "flash", "kvquant", "fa3", "qknorm", "post", "cmo",
   "reduce", "aclgraph", "streams", "ropequant", "edge", "bias", "mc2", "lcoc"}

WithOptions(p, on) ==
  [p EXCEPT
     !.enableCompressHead = "compress" \in on, !.enableOmniAttention = "omni" \in on,
     !.isomnicompressed = "omni" \in on, !.enableSpeculate = "spec" \in on,
     !.enableSplitFuse = "split" \in on, !.hasAttnDp = "dp" \in on, !.hasMlpTp = "dp" \in on,
     !.linear.enableFlashComm = "flash" \in on, !.enableKvQuant = "kvquant" \in on,
     !.enableFA3 = "fa3" \in on, !.useQKNorm = "qknorm" \in on,
     !.usePostSelfAttnLayerNorm = "post" \in on, !.usePostMlpLayerNorm = "post" \in on,
     !.enablePreFetchWeight = "cmo" \in on, !.enableReduceQuant = "reduce" \in on,
     !.enableAclGraphPagedAttention = "aclgraph" \in on, !.multiStream = "streams" \in on,
     !.enableRopeQuantKvcache = "ropequant" \in on, !.isEdgeHardware = "edge" \in on,
     !.qkvHasBias = "bias" \in on, !.selfAttnHasBias = "bias" \in on,
     !.downHasBias = "bias" \in on, !.gateUpHasBias = "bias" \in on,
     !.enableMC2 = "mc2" \in on, !.enableLcoc = "lcoc" \in on]

\* Decoder layers with two options, every position embedding and skipped halves.
FlagLayers(P(_)) ==
  \E on \in Pairs(LayerKinds), pre \in BOOLEAN, emb \in {"ROPE", "ALIBI", "ABSOLUTE"},
     skip \in {"none", "attn", "mlp"} :
    /\ "ropequant" \in on => "kvquant" \in on
    /\ \A bad \in {{"fa3", "split"}, {"reduce", "flash"}, {"compress", "omni"}, {"kvquant", "fa3"},
                   {"streams", "dp"}} : ~(bad \subseteq on)
    /\ "compress" \in on => emb # "ABSOLUTE"
    /\ "dp" \in on => skip = "none"
    /\ emb # "ROPE" => on \cap {"compress", "omni", "spec", "kvquant", "streams"} # {}
    /\ skip # "none" => on \cap {"post", "streams", "qknorm"} # {}
    /\ LET p == [WithOptions(DefaultLayer, on) EXCEPT
                   !.linear.isPrefill = pre, !.positionEmbeddingType = emb,
                   !.isAttnSkipLayer = skip = "attn", !.isMlpSkipLayer = skip = "mlp"]
       IN  P(OpOf("DecoderLayer", Described(p, "NO_QUANT", FALSE)))

ModelKinds ==
  {"compress", "omni", "spec", "dp", "flash", "lora", "addnorm", "dap", "skip", "noword", "kvquant",
   "qknorm", "layernorm", "prefix"}

\* Models of three layers with two options.
Models(P(_)) ==
  \E on \in Pairs(ModelKinds), pre, tp \in BOOLEAN, emb \in {"ROPE", "ALIBI"} :
    /\ \A bad \in {{"compress", "omni"}, {"flash", "noword"}, {"flash", "dp"}, {"dp", "skip"}, {"addnorm", "skip"},
                   {"addnorm", "dp"}, {"addnorm", "layernorm"}, {"lora", "qknorm"}, {"lora", "flash"}} :
         ~(bad \subseteq on)
    /\ "flash" \in on => tp
    /\ LET layer == [WithOptions(DefaultLayer, on) EXCEPT
             !.isomnicompressed = FALSE, !.linear.isPrefill = pre, !.linear.supportLora = "lora" \in on,
             !.tp = tp, !.positionEmbeddingType = emb,
             !.enableInterLayerAddNorm = "addnorm" \in on, !.enableIntraLayerAddNorm = "addnorm" \in on,
             !.normType = IF "layernorm" \in on THEN "LAYER_NORM" ELSE "RMS_NORM"]
       IN  P(OpOf("DecoderModel",
             [DefaultModel EXCEPT
                !.skipWordEmbedding = "noword" \in on, !.enableDap = "dap" \in on,
                !.enablePrefixCache = "prefix" \in on, !.isEmbeddingParallel = tp,
                !.attnSkipLayerSet = IF "skip" \in on THEN {0} ELSE {},
                !.mlpSkipLayerSet = IF "skip" \in on THEN {0, 1} ELSE {},
                !.patternMask = {1}, !.layer = Described(layer, "NO_QUANT", FALSE)]))

\* Heads that turn the last layer's rows into logits.
Heads(P(_)) ==
  \E ahead, dpOut, hidden, argmax, cp, tp \in BOOLEAN, type \in {"ROW_PARALLEL", "COLUMN_PARALLEL"} :
    /\ argmax => tp /\ ~cp /\ type # "ROW_PARALLEL" /\ (dpOut => ahead)
    /\ tp /\ type = "ROW_PARALLEL" => ahead
    /\ P(OpOf("LmHead",
         [DefaultLmHead EXCEPT
            !.gatherAhead = ahead, !.enableDpOut = dpOut, !.outputHidden = hidden, !.contextParallel = cp,
            !.linear = [DefaultLinearParallel EXCEPT
                          !.tp = tp, !.parallelType = type, !.isArgmaxlogits = argmax]]))
-----------------------------------------------------------------------------
ExpertKinds ==
  {"initquant", "v3", "swigluquant", "gmmswiglu", "atlas", "gatingdp", "distribute", "v2", "cutoff",
   "cumsum", "tp", "lcoc", "split", "bias", "aclnn"}
ExpertBases ==
  {{}, {"fused"}, {"fused", "ep"}, {"fused", "ep", "one"}, {"fused", "ep", "dynamic"},
   {"fused", "initquant"}, {"fused", "initquant", "gmmswiglu"}, {"fused", "ep", "dynamic", "initquant"}}

TypesOf(q) == IF q = "ALL_FP" THEN "FP" ELSE "INT"
ExpertsWith(on, q) ==
  [DefaultDynamicEpMoE EXCEPT
     !.isDynamicEp = "dynamic" \in on, !.expertParallelDegree = IF "one" \in on THEN 1 ELSE 0,
     !.hasMoeTp = "tp" \in on, !.enableLcocAll2All = "lcoc" \in on,
     !.mlp = [DefaultMoeMlp EXCEPT
        !.pack = PackOf(q), !.types = [l \in DOMAIN @ |-> TypesOf(q)],
        !.hasBias = "bias" \in on, !.supportSwiGLU = "split" \notin on,
        !.swigluBackend = IF "aclnn" \in on THEN "ACLNN" ELSE "ATB",
        !.enableFusedRouting = "fused" \in on, !.enableInitQuant = "initquant" \in on,
        !.enableInitRoutingV3 = "v3" \in on, !.enableSwigluQuant = "swigluquant" \in on,
        !.enableGMMSwigluQuant = "gmmswiglu" \in on, !.enableAtlasGMMFused = "atlas" \in on,
        !.hasMoeEp = "ep" \in on, !.enableGatingDp = "gatingdp" \in on,
        !.enableMoeDistribute = "distribute" \in on, !.enableDispatchCombineV2 = "v2" \in on,
        !.enableInitRoutingCutoff = "cutoff" \in on, !.enableExpertCumSumOutput = "cumsum" \in on]]

\* Experts on one rank, on all of them with fixed places, and with an exchange of tokens.
MoeExperts(P(_)) ==
  \E base \in ExpertBases, more \in Pairs(ExpertKinds), q \in {"ALL_FP", "W8A8_DYNAMIC", "W4A8", "W8A16"} :
    LET on == base \cup more IN
    /\ "initquant" \in on => "fused" \in on
    /\ "v3" \in on => on \cap {"ep", "cutoff"} = {}
    /\ "gmmswiglu" \in on => q = "W8A8_DYNAMIC" /\ on \cap {"swigluquant", "bias", "split"} = {}
    /\ "gatingdp" \in on => "ep" \in on
    /\ "cutoff" \in on => "fused" \in on /\ "distribute" \notin on
    /\ "distribute" \in on => {"fused", "dynamic"} \subseteq on /\ q \in {"W8A8_DYNAMIC", "W4A8"}
    /\ "lcoc" \in on => "cumsum" \notin on
    /\ "atlas" \in on => {"gmmswiglu", "initquant"} \subseteq on
    /\ "swigluquant" \in on => "split" \notin on /\ q \in {"W8A8_DYNAMIC", "W4A8"}
    /\ P(OpOf("DynamicEpMoE", ExpertsWith(on, q)))

RoutingKinds ==
  {"fusedtopk", "atbgate", "fp32input", "topkfp32", "std", "shift", "reducesumdiv", "force", "mix",
   "epwb", "balance", "onegroup", "last", "gatingdp", "distribute", "bias", "cumsum"}

\* Every way to choose the experts of a token and to weigh them.
SparseMoes(P(_)) ==
  \E on \in Pairs(RoutingKinds) \cup {{"mix", "epwb", a} : a \in RoutingKinds}
            \cup {{"fusedtopk", "shift", a} : a \in RoutingKinds},
     q \in {"ALL_FP", "W8A8_DYNAMIC"},
     method \in {"softMaxTopK", "deviceLimited", "integratedSoftmaxTopK", "noAuxTc"},
     logits \in {"none", "normalization", "scaling", "norm", "normScaling"} :
    /\ "mix" \in on => "epwb" \in on /\ on \cap {"gatingdp", "fusedtopk"} = {} /\ logits # "none"
    /\ on \cap {"shift", "force"} # {} => "fusedtopk" \in on
    /\ "fusedtopk" \in on => "std" \notin on /\ logits # "none"
    /\ "gatingdp" \in on => on \cap {"epwb", "balance", "distribute"} = {} /\ logits # "none"
    /\ "balance" \in on => "epwb" \notin on
    /\ LET spread == IF on \cap {"gatingdp", "distribute"} = {} THEN {} ELSE {"ep", "dynamic"}
       IN  P(OpOf("SparseMoe",
             [DefaultSparseMoe EXCEPT
                !.ep = ExpertsWith({"fused"} \cup on \cup spread, q),
                !.routingMethod = method, !.processLogits = logits, !.routerType = TypesOf(q),
                !.rounterHasBias = "bias" \in on, !.enableFusedTopk = "fusedtopk" \in on,
                !.enableATBGateMatmul = "atbgate" \in on, !.enableFp32GateInput = "fp32input" \in on,
                !.enableTopkFp32 = "topkfp32" \in on, !.useStdNorm = "std" \in on,
                !.enableGatingShift = "shift" \in on, !.enableFusedReducesumDiv = "reducesumdiv" \in on,
                !.forceMoeFusedAddTopkAddNumFp32 = "force" \in on, !.mixSharedRouting = "mix" \in on,
                !.enableEPWB = "epwb" \in on, !.enableLoadBalance = "balance" \in on,
                !.oneGroup = "onegroup" \in on, !.firstDevice = "last" \notin on]))

SharedExperts(P(_)) ==
  \E q \in Families, swiglu, gate, quantised, bf16 \in BOOLEAN :
    /\ quantised => swiglu /\ q \in {"W8A8_DYNAMIC", "W4A8"}
    /\ P(OpOf("SharedExpert",
         [DefaultSharedExpert EXCEPT
            !.pack = PackOf(IF q = "NO_QUANT" THEN "ALL_FP" ELSE q),
            !.types = [l \in DOMAIN @ |-> IF q = "NO_QUANT" THEN "FP" ELSE "INT"], !.isBF16 = bf16,
            !.supportSwiGLU = swiglu, !.hasSharedExpertGate = gate,
            !.enableSwiGLUQuantForSharedExperts = quantised]))
-----------------------------------------------------------------------------
LatentKinds ==
  {"mlapre", "fa3", "trans", "unpad", "qkvdown", "ffn", "lcocpre", "prefix", "fused", "sp", "custom",
   "nomask", "pmask", "pspec", "oproj", "lcocout", "prefetch", "lcoc", "tp", "inner", "nolora", "bias",
   "bf16", "cp"}
OfPrefill == {"prefix", "fused", "nomask"}
OfDecode == {"mlapre", "sp", "custom", "pmask", "pspec"}

\* The quantisation as a type per linear, with a linear that is not quantised, and as
\* a description per linear.
LatentTypes(q, style) ==
  [l \in LatentLinears |->
     CASE q = "ALL_FP" \/ (style = "mixed" /\ l = "attn_out") -> "FP"
       [] q # "ALL_FP" /\ style = "described" -> IF l \in {"k_proj_b_for_q", "v_proj_b_for_o"} THEN "FP" ELSE q
       [] OTHER -> "INT"]

\* Latent attention, on its own and as one rank of up to three.
LatentAttentions(P(_)) ==
  \E on \in Pairs(LatentKinds) \cup {{"sp", "custom", a} : a \in LatentKinds}
            \cup {{"qkvdown", "ffn", a} : a \in LatentKinds} \cup {{"qkvdown", "ffn", "lcocpre", a} : a \in LatentKinds},
     pre \in BOOLEAN, q \in {"ALL_FP", "W8A8", "W8A16", "W8A8SC", "W8A8_DYNAMIC"},
     style \in {"types", "mixed", "described"}, ranks \in {<<1, 0>>, <<2, 0>>, <<2, 1>>, <<3, 1>>} :
    /\ on \cap (IF pre THEN OfDecode ELSE OfPrefill) = {}
    /\ "cp" \in on <=> ranks[1] > 1
    /\ style # "types" => q \in {"W8A8", "W8A8_DYNAMIC"}
    /\ "lcocpre" \in on => "qkvdown" \in on
    /\ "qkvdown" \in on => "ffn" \in on /\ on \cap {"nolora", "mlapre"} = {}
    /\ {"nolora", "lcocpre"} \cap on # {} => q # "W8A8_DYNAMIC"
    /\ "mlapre" \in on => on \cap {"nolora", "trans"} = {}
    /\ pre /\ "cp" \in on => on \cap {"prefix", "fused", "fa3"} = {}
    /\ "oproj" \in on => ~("unpad" \in on /\ q = "W8A8") /\ q # "W8A8SC"
    /\ {"tp", "inner"} \subseteq on => "lcocout" \in on
    /\ "lcocout" \in on => "unpad" \notin on
    /\ "custom" \in on => ("cp" \in on => "sp" \in on) /\ ("sp" \in on => "pspec" \notin on)
    /\ P(OpOf("LatentAttention",
         [DefaultLatentAttention EXCEPT
            !.pack = IF style = "described" THEN UndefinedPack ELSE PackOf(q),
            !.densePack = IF "bf16" \in on THEN PackOf(q) ELSE UndefinedPack,
            !.types = LatentTypes(q, style), !.isBF16 = "bf16" \in on, !.isPrefill = pre,
            !.cp = ranks[1], !.cpRank = ranks[2], !.qLora = "nolora" \notin on,
            !.enableMlaPreprocess = "mlapre" \in on, !.fa3 = "fa3" \in on, !.ropeTrans = "trans" \in on,
            !.unpadHeads = "unpad" \in on, !.enableQkvdownDp = "qkvdown" \in on,
            !.ffnAllGather = "ffn" \in on, !.enablePreprocessLcocTp = "lcocpre" \in on,
            !.enablePrefixCache = "prefix" \in on, !.enableFusedMLA = "fused" \in on,
            !.hasAttnInnerSp = "sp" \in on, !.enableCustomizeMla = "custom" \in on,
            !.hasMask = "nomask" \notin on, !.pageMask = "pmask" \in on, !.pageSpec = "pspec" \in on,
            !.enableExtraOprojTp = "oproj" \in on, !.enableOutLcocTp = "lcocout" \in on,
            !.attnOprojPrefetch = "prefetch" \in on, !.enableLcoc = "lcoc" \in on,
            !.tp = "tp" \in on, !.innerTp = "inner" \in on, !.selfAttnHasBias = "bias" \in on]))
-----------------------------------------------------------------------------
\* The options that change what the nodes of a layer pass on, and those that one node sees.
DeepseekKinds ==
  {"dynamic", "fulltp", "dpout", "gather", "oproj", "outlcoc", "noshared", "p2d", "intra", "qkvdown",
   "shareddp", "gatingdp", "overlap", "mc2", "epwb", "streams"}
DeepseekOthers ==
  {"sp", "normbias", "anti", "int8", "prefetch", "fa3", "prefix", "spec", "balance", "noinfnan", "mix", "cumsum"}

\* The ranks of a group for tp, dp and cp of the attention and ep and tp of the experts.
RankLayouts ==
  {<<1, 1, 1, 1, 1>>, <<2, 1, 1, 2, 1>>, <<1, 2, 1, 1, 2>>, <<1, 1, 2, 2, 1>>, <<2, 2, 1, 4, 1>>}
RanksOf(layout, sp, oproj) ==
  [g \in RankGroups |->
     CASE g = "ATTN_TP" -> layout[1] [] g = "ATTN_DP" -> layout[2] [] g = "ATTN_CP" -> layout[3]
       [] g = "MOE_EP" -> layout[4] [] g = "MOE_TP" -> layout[5]
       [] g = "ATTN_INNER_SP" -> (IF sp THEN layout[1] ELSE 1)
       [] g = "ATTN_O_PROJ_TP" -> (IF oproj THEN 2 ELSE 1)]

DeepseekWith(on, pre, place, layout) ==
  LET experts == {"fused"} \cup (on \cap {"cumsum"})
      topk == IF "mix" \in on THEN "scaling" ELSE "normScaling"
  IN  [DefaultDeepseekLayer EXCEPT
         !.ranks = RanksOf(layout, "sp" \in on, "oproj" \in on), !.isPrefill = pre,
         !.attn.pack = PackOf("W8A8_DYNAMIC"), !.attn.types = LatentTypes("W8A8_DYNAMIC", "types"),
         !.attn.enablePreprocessLcocTp = FALSE,
         !.moe.ep = ExpertsWith(experts, "W8A8_DYNAMIC"), !.moe.processLogits = topk,
         !.moe.enableFusedTopk = "gatingdp" \in on /\ ~pre,
         !.shared.pack = PackOf("W8A8_DYNAMIC"), !.shared.types = [l \in DOMAIN @ |-> "INT"],
         !.multiStream = "streams" \in on,
         !.layerId = CASE place = "dense" -> 0 [] place = "first" -> 1 [] OTHER -> 2,
         !.isDenseLayer = place = "dense", !.isLastLayer = place = "last",
         !.isDynamicEp = "dynamic" \in on, !.isMlpFullTP = "fulltp" \in on, !.enableDpOut = "dpout" \in on,
         !.hasSharedExpert = "noshared" \notin on, !.hasP2DWeight = "p2d" \in on,
         !.enableExtraOprojTp = "oproj" \in on, !.enableOutLcocTp = "outlcoc" \in on,
         !.enableIntraLayerAddNorm = "intra" \in on, !.normHasBias = "normbias" \in on,
         !.isAntiOutlier = "anti" \in on, !.mlpNormQuantType = IF "int8" \in on THEN "INT8" ELSE "UNQUANT",
         !.enableMlaPrefetch = "prefetch" \in on, !.enableFA3 = "fa3" \in on, !.enableKvQuantLayer = "fa3" \in on,
         !.enablePrefixCache = "prefix" \in on, !.enableSpeculate = "spec" \in on,
         !.enableQkvdownDp = "qkvdown" \in on, !.enableSharedExpertDp = "shareddp" \in on,
         !.enableGatingDp = "gatingdp" \in on, !.enableSharedExpertOverlap = "overlap" \in on,
         !.enableLoadBalance = "balance" \in on, !.enableAllToAllMC2 = "mc2" \in on,
         !.enableGatherPreNorm = "gather" \in on, !.enableEPWB = on \cap {"epwb", "mix"} # {},
         !.enableInfNan = "noinfnan" \notin on, !.mixSharedRouting = "mix" \in on,
         !.enableExpertCumSumOutput = "cumsum" \in on]

\* DeepSeek's layers with two options, in every place and under every layout of the ranks.
DeepseekLayers(P(_)) ==
  \E on \in Pairs(DeepseekKinds) \cup {{"gather", a} : a \in DeepseekOthers}
            \cup {{"gather", "qkvdown", a} : a \in DeepseekKinds}
            \cup {{"overlap", "shareddp", a} : a \in DeepseekKinds},
     pre \in BOOLEAN, place \in {"dense", "first", "later", "last"}, layout \in RankLayouts :
    LET p == DeepseekWith(on, pre, place, layout)
        q == Prepared(p)
    IN
    /\ on \cap (IF pre THEN OfDecode \cup {"mc2"} ELSE OfPrefill \cup {"streams"}) = {}
    /\ place = "dense" => on \subseteq {"fulltp", "gather", "oproj", "outlcoc", "intra", "qkvdown", "streams"}
                                     \cup (DeepseekOthers \ {"balance", "mix", "cumsum"})
    /\ "fulltp" \in on => place = "dense" /\ "qkvdown" \notin on
    /\ ("dpout" \in on => place = "last") /\ (place = "first" => "qkvdown" \in on)
    /\ "sp" \in on => layout[1] > 1
    /\ layout[3] > 1 /\ pre => on \cap {"prefix", "fa3"} = {}
    /\ "gatingdp" \in on => q.hasAttnComm /\ layout[4] > 1 /\ on \cap {"epwb", "mc2"} = {}
    /\ "mc2" \in on => "dynamic" \in on /\ layout[4] > 1
    /\ "overlap" \in on => "shareddp" \in on
    /\ "shareddp" \in on => q.ffnReduceScatter /\ "noshared" \notin on
    /\ {"p2d", "overlap"} \subseteq on => pre
    /\ "oproj" \in on => ~q.hasAttnComm /\ "qkvdown" \notin on /\ (q.attnAllreduce => "outlcoc" \in on)
    /\ q.attnAllGather /\ ~q.attnReduceScatter => "gather" \in on
    /\ "intra" \in on => ~q.attnReduceScatter /\ "streams" \notin on
    /\ P(OpOf("DeepseekLayer", p))
-----------------------------------------------------------------------------
MoeKinds == {"dynamic", "fulltp", "shared", "gate", "intra", "normbias", "shift", "distribute"}
MoeOthers == {"spec", "split", "prefix", "qknorm", "aclgraph", "bias", "lcoc", "mc2", "anti", "dp"}

\* Layers of the other models with experts, with two options, in every place and layout of the ranks.
MoeLayers(P(_)) ==
  \E on \in Pairs(MoeKinds) \cup {{"dynamic", a} : a \in MoeOthers}, pre \in BOOLEAN,
     q \in {"W8A8", "W8A8_DYNAMIC"}, place \in {"dense", "later", "last"},
     layout \in {l \in RankLayouts : l[3] = 1} :
    LET experts == IF q = "W8A8_DYNAMIC" THEN q ELSE "ALL_FP"
        base == [WithOptions(DefaultLayer, on) EXCEPT
                   !.linear.isPrefill = pre, !.hasMlpTp = FALSE, !.numHiddenLayers = 3,
                   !.layerId = CASE place = "dense" -> 0 [] place = "later" -> 1 [] OTHER -> 2,
                   !.enableIntraLayerAddNorm = "intra" \in on]
        p == [DefaultMoeLayer EXCEPT
                !.base = Described(base, q, "anti" \in on),
                !.moe.ep = ExpertsWith({"fused"}, experts), !.moe.processLogits = "normalization",
                !.shared.pack = PackOf(experts), !.shared.types = [l \in DOMAIN @ |-> TypesOf(experts)],
                !.shared.hasSharedExpertGate = "gate" \in on,
                !.ranks = [g \in MoeRankGroups |->
                             CASE g = "ATTN_TP" -> layout[1] [] g = "ATTN_DP" -> layout[2]
                               [] g = "MOE_EP" -> layout[4] [] g = "MOE_TP" -> layout[5]],
                !.isDenseLayer = place = "dense", !.isDynamicEp = "dynamic" \in on,
                !.isMlpFullTP = "fulltp" \in on, !.hasSharedExpert = "shared" \in on,
                !.normHasBias = "normbias" \in on, !.enablePrefixCache = "prefix" \in on,
                !.enableAllToAllMC2 = "distribute" \in on, !.enableGatingDp = "shift" \in on]
    IN
    /\ on \cap (IF pre THEN {"shift", "distribute", "aclgraph"} ELSE {}) = {}
    /\ "fulltp" \in on => place = "dense"
    /\ place = "dense" => on \cap {"shift", "distribute", "gate"} = {}
    /\ "gate" \in on => "shared" \in on
    /\ "intra" \in on => ~MoePrepared(p).hasAttnComm
    /\ "distribute" \in on => "dynamic" \in on /\ layout[4] > 1 /\ experts # "ALL_FP"
    /\ P(OpOf("MoeLayer", p))
-----------------------------------------------------------------------------
Top(P(_)) ==
  \/ QuantLayers(P) \/ FlagLayers(P) \/ Models(P) \/ Heads(P)
  \/ MoeExperts(P) \/ SparseMoes(P) \/ SharedExperts(P) \/ LatentAttentions(P)
  \/ DeepseekLayers(P) \/ MoeLayers(P)

Init == Top(LAMBDA o : Start(Build(o)))
Spec == Init /\ [][Next]_vars
=============================================================================
