----------------------------- MODULE MCAclNNOps -----------------------------
(* The operations of src/operations/aclnn/ops with every parameter that     *)
(* decides how many tensors they take, and the ranks their callers use.     *)
EXTENDS AclNNOps

Flags(names) == [names -> BOOLEAN]
Bias == Flags({"hasBias"})

\* W16A16 assigns two dimensions whatever the rank; a negative dimension of
\* IndexSelect, Concat and SplitWithSize would index before the array.
LinearOperations ==
  UNION {{AclnnMatmulOperation(r), MatmulAllreduceOperation(r)} : r \in {2, 3}}
    \cup {MatmulOperation(p, r) : p \in Bias, r \in {2, 3}}
    \cup {W16A16Operation(p, 2) : p \in Bias}
    \cup {W8A8Operation(p, 2) : p \in {p \in Flags({"hasBias", "hasPerTokenScale", "isOutDequantBias"}) :
                                         ~(p.hasBias /\ p.isOutDequantBias)}}
    \cup {W4A8Operation, QuantGMMDequantOperation}
    \cup UNION {{W8A16Operation(p, r), W4A16Operation(p, r)} : p \in Bias, r \in {2, 3}}

NormAndElementwiseOperations ==
  UNION {{AclnnRopeOperation(r), RmsNormOperation(r), AddRmsNormOperation(r), AddRmsNormQuantOperation(r),
          AddRmsNormDynamicQuantOperation(r), GeluOperation(r), SigmoidOperation(r), SwiGluOperation(r),
          CastOperation(r), StdOperation(r), VectorNormOperation(r), MinimumOperation(r), RepeatOperation(r),
          DynamicQuantOperation(r), InplaceNanToNumOperation(r), InplaceMaskedFillTensorOperation(r),
          IndexputOperation(r), ObfuscationCalculateOperation(r)} : r \in {2, 3}}
    \cup {LayerNormOperation(p, r) : p \in Bias, r \in {2, 3}}
    \cup {ConcatOperation([dim |-> d], r) : d \in {0, 1}, r \in {2, 3}}
    \cup {SplitWithSizeOperation([dim |-> 1, num |-> n], 2) : n \in {2, 3}}
    \cup {IndexSelectOperation([dim |-> d], 2) : d \in {0, 1}}
    \cup {LenOperation, ArgSortOperation(1), ObfuscationSetupOperation}
    \cup {ArgMaxOperation(p, 2) : p \in Flags({"keepdim"})} \cup {MaxV2Operation(p, 2) : p \in Flags({"keepdim"})}
    \cup {ScatterOperation(p, 2) : p \in Flags({"inplace"})}

\* Without a mask the code reads the block table past the inputs it takes.
AttentionOperations ==
  {AttnOperation(p, 4) : p \in Flags({"isFA", "hasKVQuant", "hasQuantOffset"})}
    \cup {FusedInferAttentionV2Operation(p, 3) : p \in {p \in Flags({"needMask", "enablePa", "isTND"}) :
                                                         p.enablePa => p.needMask}}
    \cup {FlashAttentionScoreOperation(p, 4) : p \in Flags({"needPse", "needMask"})}
    \cup {PromptFlashAttentionOperation(p, 3) : p \in Flags({"needMask"})}
    \cup {MultiLatentAttentionOperation(p) : p \in Flags({"hasMask", "isSpec", "isInt8Nz", "isRing"})}
    \cup {LightningIndexerOperation(p) : p \in Flags({"hasBlockTable", "isBSND"})}
    \cup {SparseFlashAttentionOperation(p) : p \in Flags({"hasBlockTable", "isTND"})}
    \cup {MlaPreprocessV2Operation, ReshapeDecodeKvCacheOperation, XAttentionOperation(3)}
    \cup {DequantRopeQuantKvcacheOperation(p) : p \in Flags({"enableDequant"})}

\* quantSmooth would pass input 2 twice and refresh one of the two.
GroupedMatmuls ==
  {p \in [hasBias : BOOLEAN, indexGmm : BOOLEAN,
          quantType : {"NONE", "W8A8_CHANNEL", "W8A16_CHANNEL", "W8A8_TOKEN", "W4A8_GROUP"}] :
     p.indexGmm => p.quantType = "W8A8_TOKEN" /\ ~p.hasBias}
MoeOperations ==
  {GroupedMatmulOperation(p) : p \in GroupedMatmuls}
    \cup {MoeGroupedMatmulWeightNZOperation, GroupedMatmulSwigluOperation, MoeGroupedMatmulSwigluQuantOperation}
    \cup {DequantSwigluQuantOperation(n) : n \in {1, 3, 5}}
    \cup {MoeDistributeDispatchOperation([quantSmooth |-> FALSE]), MoeDistributeCombineOperation,
          MoeDistributeDispatchV2Operation([quantSmooth |-> FALSE]), MoeDistributeCombineV2Operation}
    \cup {MoeInitRoutingOperation, MoeInitRoutingQuantOperation}
    \cup {MoeInitRoutingV3Operation([expertTokensNumType |-> t]) : t \in {1, 2}}
    \cup {MoeTopkSoftmaxOperation, MoeTokenUnpermuteOperation, MoeComputeExpertTokensOperation,
          FinalizeRoutingOperation, MoeFusedReducesumDivOperation(2)}
    \cup {MoeFusedAddTopkOperation(p) : p \in Flags({"enableExpertMapping"})}

MCOperations == LinearOperations \cup NormAndElementwiseOperations \cup AttentionOperations \cup MoeOperations
=============================================================================
