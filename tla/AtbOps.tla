------------------------------- MODULE AtbOps -------------------------------
(***************************************************************************)
(* How many tensors the operations of this repository take and give:        *)
(* <<inputs, outputs>>, what GetInputNum and GetOutputNum answer for a       *)
(* parameter.  Operations of ATB itself are not here.                        *)
(***************************************************************************)
EXTENDS GraphBuild

One(c) == IF c THEN 1 ELSE 0

W8A8Arity(p) == <<3 + One(p.hasPerTokenScale) + One(p.hasBias), 1>>
W4A8Arity == <<5, 1>>
WeightQuantBatchMatmulArity(p) == <<4 + One(p.hasBias), 1>>
W16A16Arity(p) == <<2 + One(p.hasBias), 1>>
DynamicQuantArity == <<1, 2>>
GroupedMatmulArity(p) == <<3 + One(p.hasBias) + 2 * One(p.quant), 1>>
DequantSwigluQuantArity(p) == <<IF p.inTensorsNum \in 1 .. 5 THEN p.inTensorsNum ELSE 5, 2>>
AddRmsNormQuantArity == <<5, 3>>
AddRmsNormDynamicQuantArity == <<3, 5>>
AddRmsNormArity == <<3, 3>>
RmsNormArity == <<2, 2>>
SplitRmsnormRopeArity == <<5, 3>>
DequantRopeQuantKvcacheArity(p) == <<10 + 2 * One(p.enableDequant), 3>>
ReshapeDecodeKvCacheArity == <<6, 2>>
XAttentionArity == <<8, 1>>
AttnArity(p) == <<6 + One(p.kvQuant) + One(p.kvQuant /\ p.kvQuantOffset), 1>>
FusedInferAttentionArity(p) ==
  <<4 + One(p.needMask) + (IF p.enablePa THEN 2 ELSE One(p.tnd)), 1>>
AclrtCmoAsyncArity == <<1, 0>>
GroupedMatmulSwigluArity == <<5, 2>>
MoeGroupedMatmulSwigluQuantArity == <<5, 2>>
QuantGMMDequantArity == <<4, 1>>
MoeInitRoutingArity == <<2, 3>>
MoeInitRoutingQuantArity == <<2, 5>>
MoeInitRoutingV3Arity == <<2, 4>>
MoeDistributeDispatchArity(p) == <<4 + One(p.quantSmooth), 7>>
MoeDistributeCombineArity == <<7, 1>>
MoeTokenUnpermuteArity == <<3, 1>>
MoeTopkSoftmaxArity == <<1, 3>>
MoeFusedAddTopkArity == <<2, 2>>
MoeFusedReducesumDivArity == <<1, 1>>
MatmulArity(p) == <<2 + One(p.hasBias), 1>>
InplaceMaskedFillTensorArity == <<2, 1>>
MinimumArity == <<2, 1>>
ConcatArity == <<2, 1>>
\* A speculative step takes the place of a ring and has no second output.
MultiLatentAttentionArity(p) ==
  <<6 + One(p.mask) + One(p.spec) + 2 * One(p.int8Cache), 1 + One(p.ring /\ ~p.spec)>>
UnaryArity == <<1, 1>>
-----------------------------------------------------------------------------
Arity(op) ==
  LET p == op.param IN
  CASE op.kind = "W8A8" -> W8A8Arity(p)
    [] op.kind = "W4A8" -> W4A8Arity
    [] op.kind = "WeightQuantBatchMatmul" -> WeightQuantBatchMatmulArity(p)
    [] op.kind = "W16A16" -> W16A16Arity(p)
    [] op.kind = "DynamicQuant" -> DynamicQuantArity
    [] op.kind = "GroupedMatmul" -> GroupedMatmulArity(p)
    [] op.kind = "DequantSwigluQuant" -> DequantSwigluQuantArity(p)
    [] op.kind = "AddRmsNormQuant" -> AddRmsNormQuantArity
    [] op.kind = "AddRmsNormDynamicQuant" -> AddRmsNormDynamicQuantArity
    [] op.kind = "AddRmsNorm" -> AddRmsNormArity
    [] op.kind \in {"RmsNorm", "RmsNormAclnn"} -> RmsNormArity
    [] op.kind = "SplitRmsnormRope" -> SplitRmsnormRopeArity
    [] op.kind = "DequantRopeQuantKvcache" -> DequantRopeQuantKvcacheArity(p)
    [] op.kind = "ReshapeDecodeKvCache" -> ReshapeDecodeKvCacheArity
    [] op.kind = "XAttention" -> XAttentionArity
    [] op.kind = "AclNNAttention" -> AttnArity(p)
    [] op.kind = "FusedInferAttention" -> FusedInferAttentionArity(p)
    [] op.kind = "AclrtCmoAsync" -> AclrtCmoAsyncArity
    [] op.kind = "GroupedMatmulSwiglu" -> GroupedMatmulSwigluArity
    [] op.kind = "MoeGroupedMatmulSwigluQuant" -> MoeGroupedMatmulSwigluQuantArity
    [] op.kind = "QuantGMMDequant" -> QuantGMMDequantArity
    [] op.kind = "MoeInitRouting" -> MoeInitRoutingArity
    [] op.kind = "MoeInitRoutingQuant" -> MoeInitRoutingQuantArity
    [] op.kind = "MoeInitRoutingV3" -> MoeInitRoutingV3Arity
    [] op.kind = "MoeDistributeDispatch" -> MoeDistributeDispatchArity(p)
    [] op.kind = "MoeDistributeCombine" -> MoeDistributeCombineArity
    [] op.kind = "MoeTokenUnpermute" -> MoeTokenUnpermuteArity
    [] op.kind = "MoeTopkSoftmax" -> MoeTopkSoftmaxArity
    [] op.kind = "MoeFusedAddTopk" -> MoeFusedAddTopkArity
    [] op.kind = "MoeFusedReducesumDiv" -> MoeFusedReducesumDivArity
    [] op.kind = "Matmul" -> MatmulArity(p)
    [] op.kind = "InplaceMaskedFillTensor" -> InplaceMaskedFillTensorArity
    [] op.kind = "Minimum" -> MinimumArity
    [] op.kind = "AclNNConcat" -> ConcatArity
    [] op.kind = "MultiLatentAttention" -> MultiLatentAttentionArity(p)
    [] op.kind \in {"Std", "VectorNorm", "Len", "SwiGlu", "AclNNCast", "Repeat"} -> UnaryArity

Counted == {"W8A8", "W4A8", "WeightQuantBatchMatmul", "W16A16", "DynamicQuant", "GroupedMatmul",
            "DequantSwigluQuant", "AddRmsNormQuant", "AddRmsNormDynamicQuant", "AddRmsNorm", "RmsNorm",
            "RmsNormAclnn", "SplitRmsnormRope", "DequantRopeQuantKvcache", "ReshapeDecodeKvCache",
            "XAttention", "AclNNAttention", "FusedInferAttention", "AclrtCmoAsync",
            "GroupedMatmulSwiglu", "MoeGroupedMatmulSwigluQuant", "QuantGMMDequant", "MoeInitRouting",
            "MoeInitRoutingQuant", "MoeInitRoutingV3", "MoeDistributeDispatch", "MoeDistributeCombine",
            "MoeTokenUnpermute", "MoeTopkSoftmax", "MoeFusedAddTopk", "MoeFusedReducesumDiv", "Matmul",
            "InplaceMaskedFillTensor", "Minimum", "AclNNConcat", "Std", "VectorNorm", "Len", "SwiGlu",
            "AclNNCast", "MultiLatentAttention", "Repeat"}
=============================================================================
