---------------------------- MODULE AclNNOpTable ----------------------------
(***************************************************************************)
(* The operations of src/operations/aclnn/ops.  Each hands the tensors that *)
(* atb gives it to one aclnn call:                                          *)
(*   ins, outs    where Execute puts the address of each tensor             *)
(*                (tensorListidx, tensorIdx, needUpdateTensorDataPtr);      *)
(*   call         the tensors that aclnn...GetWorkspaceSize gets, by number *)
(*                of the input, Null for nullptr; `gets' the outputs;       *)
(*   host         the inputs that it gets as an array of host data, and of  *)
(*   unrecorded   them those that the cache keeps no copy of;               *)
(*   lists, outLists   the tensor lists the cache keeps, as sets of tensors;*)
(*   loose        lists, arrays and scalars made for the call and not kept; *)
(*   shapes       what InferShape makes of each output: the rank, and the   *)
(*                dimensions it assigns.                                    *)
(* Tensors are numbered from 0, as in the code.  The operations that the    *)
(* ranks of the inputs decide have the rank of the first one as parameter.  *)
(***************************************************************************)
EXTENDS Integers, Sequences

Null == -1
NotInTensorList == -1
One(c) == IF c THEN 1 ELSE 0
Upto(n) == [i \in 1 .. n |-> i - 1]

At(idx) == [list |-> NotInTensorList, idx |-> idx, update |-> TRUE]
InList(list, idx) == [list |-> list, idx |-> idx, update |-> TRUE]
Kept(idx) == [list |-> NotInTensorList, idx |-> idx, update |-> FALSE]
InOrder(n) == [i \in 1 .. n |-> At(i - 1)]

Full(rank) == [rank |-> rank, dims |-> 0 .. rank - 1]
First(rank, n) == [rank |-> rank, dims |-> 0 .. n - 1]

\* An operation whose tensors keep their numbers.
Call(n, call, shapes) ==
  [ins |-> InOrder(n), outs |-> InOrder(Len(shapes)), call |-> call, gets |-> Upto(Len(shapes)),
   host |-> {}, unrecorded |-> {}, lists |-> <<>>, outLists |-> <<>>, loose |-> {}, aux |-> {},
   shapes |-> shapes]
-----------------------------------------------------------------------------
(* Linear operations.  r \in {2, 3}.                                       *)
AclnnMatmulOperation(r) == Call(2, <<0, 1>>, <<Full(r)>>)
Biased(p, r) == [Call(2 + One(p.hasBias), <<IF p.hasBias THEN 2 ELSE Null, 0, 1>>, <<Full(r)>>)
                   EXCEPT !.loose = {"betaZero", "betaOne"}]
MatmulOperation(p, r) == Biased(p, r)
W16A16Operation(p, r) == [Biased(p, r) EXCEPT !.shapes = <<First(r, 2)>>]
W8A8Operation(p, r) ==
  LET n == 3 + One(p.hasPerTokenScale) + One(p.hasBias)
  IN  Call(n, <<0, 1, 2, Null, IF p.hasPerTokenScale THEN 3 ELSE Null,
                IF p.hasBias /\ ~p.isOutDequantBias THEN n - 1 ELSE Null>>, <<Full(r)>>)
W4A8Operation == [Call(5, <<0, 1, 2, 3, Null, Null, Null, 4, Null>>, <<Full(2)>>) EXCEPT !.ins[5] = At(7)]
QuantBatchMatmulOperation(p, r) ==
  LET op == Call(4 + One(p.hasBias), <<0, 1, 2, 3, Null, Null, IF p.hasBias THEN 4 ELSE Null>>, <<Full(r)>>)
  IN  IF p.hasBias THEN [op EXCEPT !.ins[5] = At(6)] ELSE op
W8A16Operation(p, r) == QuantBatchMatmulOperation(p, r)
W4A16Operation(p, r) == QuantBatchMatmulOperation(p, r)
QuantGMMDequantOperation == Call(4, <<0, 1, 2, 3, Null, Null, Null, Null>>, <<Full(2)>>)
MatmulAllreduceOperation(r) == Call(2, <<0, 1, Null>>, <<Full(r)>>)

(* Normalisation, activation and element-wise operations.                  *)
AclnnRopeOperation(r) == Call(3, <<0, 1, 2>>, <<Full(r)>>)
RmsNormOperation(r) == Call(2, <<0, 1>>, <<Full(r), Full(r)>>)
AddRmsNormOperation(r) == Call(3, <<0, 1, 2>>, <<Full(r), Full(r), Full(r)>>)
AddRmsNormQuantOperation(r) ==
  [Call(5, <<0, 1, 2, 3, Null, 4, Null>>, <<Full(r), Full(r), Full(r)>>) EXCEPT !.ins[5] = At(5)]
\* Mutant: the last dimension of the scale is not assigned.
AddRmsNormDynamicQuantOperationShort(r) ==
  Call(3, <<0, 1, 2, Null, Null>>, <<Full(r), Full(1), Full(r), First(r - 1, r - 2), Full(1)>>)
AddRmsNormDynamicQuantOperation(r) ==
  Call(3, <<0, 1, 2, Null, Null>>, <<Full(r), Full(1), Full(r), Full(r - 1), Full(1)>>)
LayerNormOperation(p, r) ==
  [Call(3, <<0, 1, IF p.hasBias THEN 2 ELSE Null>>, <<Full(r)>>) EXCEPT !.loose = {"normalizedShape"}]
GeluOperation(r) == Call(1, <<0>>, <<Full(r)>>)
SigmoidOperation(r) == Call(1, <<0>>, <<Full(r)>>)
SwiGluOperation(r) == Call(1, <<0>>, <<Full(r)>>)
CastOperation(r) == Call(1, <<0>>, <<Full(r)>>)
StdOperation(r) == Call(1, <<0>>, <<Full(r)>>)    \* the array is the operation's own
VectorNormOperation(r) == [Call(1, <<0>>, <<Full(r)>>) EXCEPT !.loose = {"ord"}]
MinimumOperation(r) == Call(2, <<0, 1>>, <<Full(r)>>)
RepeatOperation(r) == [Call(1, <<0>>, <<Full(r)>>) EXCEPT !.loose = {"repeats"}]
ConcatOperation(p, r) ==
  [Call(2, <<0, 1>>, <<[rank |-> r, dims |-> 0 .. r - 1 \cup {p.dim}]>>) EXCEPT !.loose = {"tensorList"}]
SplitWithSizeOperation(p, r) ==
  [Call(1, <<0>>, [i \in 1 .. p.num |-> [rank |-> r, dims |-> 0 .. r - 1 \cup {p.dim}]])
     EXCEPT !.loose = {"out", "splitSizeIntArray"}]
IndexSelectOperation(p, r) == Call(2, <<0, 1>>, <<[rank |-> r, dims |-> 0 .. r - 1 \cup {p.dim}]>>)
LenOperation == [Call(1, <<>>, <<Full(1)>>) EXCEPT !.loose = {"start", "end", "step"}]
ArgSortOperation(r) == Call(1, <<0>>, <<First(r, 1)>>)
ArgMaxOperation(p, r) == Call(1, <<0>>, <<Full(IF p.keepdim THEN r ELSE r - 1)>>)
MaxV2Operation(p, r) == [ArgMaxOperation(p, r) EXCEPT !.loose = {"dims"}]
DynamicQuantOperation(r) == Call(1, <<0, Null>>, <<Full(r), Full(r - 1)>>)

\* These write their first input.
InPlace(op) == [op EXCEPT !.gets = <<>>]
InplaceNanToNumOperation(r) == InPlace(Call(1, <<0>>, <<Full(r)>>))
InplaceMaskedFillTensorOperation(r) == [InPlace(Call(2, <<0, 1>>, <<Full(r)>>)) EXCEPT !.loose = {"value"}]
IndexputOperation(r) ==
  [InPlace(Call(3, <<0, 1, 2>>, <<Full(r)>>)) EXCEPT !.ins[2] = InList(0, 0), !.lists = <<{1}>>]
ScatterOperation(p, r) ==
  LET op == Call(3, <<0, 1, 2>>, <<Full(r)>>) IN IF p.inplace THEN InPlace(op) ELSE op
ObfuscationCalculateOperation(r) == [Call(1, <<0>>, <<Full(r)>>) EXCEPT !.ins[1] = At(1)]
ObfuscationSetupOperation == Call(0, <<>>, <<Full(1)>>)
-----------------------------------------------------------------------------
(* Attention.  Input 4 of Attn and inputs 3 and 5 of FusedInferAttention   *)
(* are sequence lengths on the host; the key and the value go in lists.    *)
KeyAndValueList == <<{}, {1}, {2}>>
AttnOperation(p, r) ==
  LET slots == <<At(0), InList(1, 0), InList(2, 0), IF p.isFA THEN At(4) ELSE Kept(4), Kept(6),
                 IF p.isFA THEN Kept(-1) ELSE At(14), At(12), At(13)>>
      n == 6 + One(p.hasKVQuant) + One(p.hasKVQuant /\ p.hasQuantOffset)
  IN  [Call(n, <<0, 1, 2, Null, IF p.isFA THEN 3 ELSE Null, IF p.hasKVQuant THEN 6 ELSE Null,
                 IF p.hasKVQuant /\ p.hasQuantOffset THEN 7 ELSE Null, IF p.isFA THEN Null ELSE 5>>,
            <<IF p.isFA THEN Full(r) ELSE Full(r - 1)>>)
         EXCEPT !.ins = SubSeq(slots, 1, n), !.host = {4}, !.lists = KeyAndValueList]
FusedInferAttentionV2Operation(p, r) ==
  LET slots == <<At(0), InList(1, 0), InList(2, 0), Kept(6), At(4), Kept(5), At(14)>>
      n == 4 + (IF ~p.needMask THEN 0 ELSE IF p.enablePa THEN 3 ELSE 1 + One(p.isTND))
  IN  [Call(n, <<0, 1, 2, Null, IF p.needMask THEN 4 ELSE Null, IF p.enablePa THEN 6 ELSE Null>>, <<Full(r)>>)
         EXCEPT !.ins = SubSeq(slots, 1, n), !.host = {3} \cup IF n > 5 THEN {5} ELSE {},
                !.lists = KeyAndValueList]
FlashAttentionScoreOperation(p, r) ==
  LET n == 3 + One(p.needPse) + One(p.needMask)
  IN  [Call(n, <<0, 1, 2, IF p.needPse THEN 3 ELSE Null, Null, Null, IF p.needMask THEN n - 1 ELSE Null, Null>>,
            <<Full(r), Full(4), Full(4), Full(4)>>) EXCEPT !.gets = <<1, 2, 3, 0>>]
PromptFlashAttentionOperation(p, r) ==
  LET n == 5 + One(p.needMask)
  IN  [Call(n, <<0, 1, 2, Null, IF p.needMask THEN 3 ELSE Null>>, <<Full(r)>>)
         EXCEPT !.ins = [i \in 1 .. n |-> IF i > n - 2 THEN Kept(i) ELSE IF i > 3 THEN At(i) ELSE At(i - 1)],
                !.host = {n - 2, n - 1}, !.unrecorded = {n - 2, n - 1}]
\* The optional inputs follow the six required ones without gaps.
MultiLatentAttentionOperation(p) ==
  LET mask == 6
      qLen == 6 + One(p.hasMask)
      descale == qLen + One(p.isSpec)
      n == descale + 2 * One(p.isInt8Nz)
      slots == Upto(6) \o (IF p.hasMask THEN <<6>> ELSE <<>>) \o (IF p.isSpec THEN <<7>> ELSE <<>>)
                       \o (IF p.isInt8Nz THEN <<8, 9>> ELSE <<>>)
  IN  [Call(n, Upto(6) \o <<IF p.hasMask THEN mask ELSE Null, IF p.isSpec THEN qLen ELSE Null,
                            IF p.isInt8Nz THEN descale ELSE Null, IF p.isInt8Nz THEN descale + 1 ELSE Null>>,
            IF p.isRing THEN <<Full(3), Full(3)>> ELSE <<Full(3)>>)
         EXCEPT !.ins = [i \in 1 .. n |-> At(slots[i])], !.host = {5} \cup IF p.isSpec THEN {qLen} ELSE {}]
\* An extra output tensor of the executor; it stands on the first output.
LightningIndexerOperation(p) ==
  [Call(5 + One(p.hasBlockTable), Upto(5) \o <<IF p.hasBlockTable THEN 5 ELSE Null>>,
        <<Full(IF p.isBSND THEN 4 ELSE 3)>>) EXCEPT !.aux = {0}]
SparseFlashAttentionOperation(p) ==
  LET op == Call(9, <<0, 1, 2, 3, IF p.hasBlockTable THEN 4 ELSE Null, 5, 6, 7, 8>>,
                 <<Full(IF p.isTND THEN 3 ELSE 4)>>)
  IN  IF p.hasBlockTable THEN op ELSE [op EXCEPT !.ins[5] = Kept(-1)]
MlaPreprocessV2Operation == Call(24, Upto(24), <<Full(3), Full(4), Full(3), Full(4), Full(2)>>)
ReshapeDecodeKvCacheOperation == Call(6, Upto(6), <<Full(4), Full(4)>>)
XAttentionOperation(r) == Call(8, Upto(8) \o <<Null>>, <<Full(r)>>)
DequantRopeQuantKvcacheOperation(p) ==
  LET op == [Call(10 + 2 * One(p.enableDequant),
                  Upto(10) \o <<IF p.enableDequant THEN 10 ELSE Null, Null, Null,
                                IF p.enableDequant THEN 11 ELSE Null, Null>>, <<Full(3), Full(3), Full(3)>>)
               EXCEPT !.loose = {"sizeSplits"}]
  IN  IF p.enableDequant THEN [op EXCEPT !.ins[12] = At(12)] ELSE op

(* Mixture of experts.                                                     *)
\* The call that quantType selects: <<the inputs before the group list>>.
\* indexGmm: a bfloat16 result of index grouped matmul, on the sizes it takes.
GmmArguments(p) ==
  LET b == One(p.hasBias)
      bias == IF p.hasBias THEN 2 ELSE Null
  IN  CASE p.quantType = "NONE" -> <<0, 1, bias, Null, Null, Null, Null, Null>>
        [] p.quantType = "W8A8_CHANNEL" -> <<0, 1, bias, 2 + b, 3 + b, Null, Null, Null>>
        [] p.quantType \in {"W8A16_CHANNEL", "W4A16_CHANNEL"} -> <<0, 1, bias, Null, Null, 2 + b, 3 + b, Null>>
        [] p.quantType = "W8A8_TOKEN" /\ p.indexGmm -> <<0, 1, 2 + b, 3 + b>>
        [] OTHER -> <<0, 1, bias, 2 + b, Null, Null, Null, 3 + b>>
\* The lists of one tensor each that the tensors of a grouped matmul go in.
OneEach(n) == [i \in 1 .. n |-> {i - 1}]
GroupedMatmulOperation(p) ==
  LET n == 3 + One(p.hasBias) + (IF p.quantType = "NONE" THEN 0 ELSE 2)
  IN  [Call(n, Append(GmmArguments(p), n - 1), <<Full(2)>>)
         EXCEPT !.ins = [i \in 1 .. n |-> IF i < n THEN InList(i - 1, 0) ELSE At(IF p.indexGmm THEN 4 ELSE 7)],
                !.outs = <<InList(0, 0)>>, !.lists = OneEach(n - 1), !.outLists = OneEach(1)]
MoeGroupedMatmulWeightNZOperation ==
  [Call(3, <<0, 1, Null, 2>>, <<Full(2)>>)
     EXCEPT !.ins = <<InList(0, 0), InList(1, 0), At(7)>>, !.outs = <<InList(0, 0)>>,
            !.lists = OneEach(2), !.outLists = OneEach(1)]
\* Mutant: two scales in one slot.
SwigluSlotsTwice == <<At(0), At(1), At(4), At(5), At(5)>>
SwigluSlots == <<At(0), At(1), At(4), At(5), At(6)>>
GroupedMatmulSwigluOperation ==
  [Call(5, <<0, 1, Null, Null, 2, 3, 4>>, <<Full(2), Full(1)>>) EXCEPT !.ins = SwigluSlots]
MoeGroupedMatmulSwigluQuantOperation ==
  [Call(5, <<0, 1, 2, 3, 4>>, <<Full(2), Full(1)>>) EXCEPT !.ins = SwigluSlots]
\* n \in {1, 3, 5} inputs
DequantSwigluQuantOperation(n) ==
  LET weightScale == IF n > 3 THEN 1 ELSE Null
      bias == IF n > 3 THEN 2 ELSE Null
      slots == CASE n = 3 -> <<0, 4, 5>> [] n = 5 -> <<0, 1, 3, 4, 5>> [] OTHER -> <<0>>
  IN  [Call(n, <<0, weightScale, Null, bias, IF n > 1 THEN n - 2 ELSE Null, IF n > 1 THEN n - 1 ELSE Null, Null>>,
            <<Full(2), Full(1)>>) EXCEPT !.ins = [i \in 1 .. n |-> At(slots[i])]]
DispatchShapes == <<Full(2), Full(1), Full(1), Full(1), Full(1), Full(1), Full(1)>>
\* The expert scales, input 3, are not passed on.
MoeDistributeDispatchOperation(p) ==
  LET op == Call(4 + One(p.quantSmooth), <<0, 1, IF p.quantSmooth THEN 2 ELSE Null, Null, 2>>, DispatchShapes)
  IN  [op EXCEPT !.ins[3] = At(4), !.ins[4] = Kept(3)]
MoeDistributeDispatchV2Operation(p) == MoeDistributeDispatchOperation(p)
MoeDistributeCombineOperation ==
  [Call(7, <<0, 1, 2, 3, 4, 5, Null, Null, Null, Null, 6>>, <<Full(2)>>) EXCEPT !.ins[7] = At(10)]
MoeDistributeCombineV2Operation ==
  [MoeDistributeCombineOperation EXCEPT !.call = Append(@, Null)]
MoeInitRoutingOperation == Call(2, <<0, 1>>, <<Full(2), Full(1), Full(1)>>)
MoeInitRoutingV3Operation(p) ==
  [Call(2, <<0, 1, Null, Null>>,
        <<Full(2), Full(1), IF p.expertTokensNumType = 2 THEN Full(2) ELSE Full(1), Full(1)>>)
     EXCEPT !.loose = {"activeExpertRange"}]
MoeInitRoutingQuantOperation == Call(2, <<0, 1>>, <<Full(2), Full(1), Full(1), Full(1), Full(1)>>)
MoeTopkSoftmaxOperation == Call(1, <<0, Null>>, <<Full(2), Full(2), Full(2)>>)
MoeTokenUnpermuteOperation == Call(3, <<0, 1, 2, Null>>, <<Full(2)>>)
MoeFusedAddTopkOperation(p) ==
  Call(2 + 2 * One(p.enableExpertMapping),
       <<0, 1>> \o (IF p.enableExpertMapping THEN <<2, 3>> ELSE <<Null, Null>>), <<Full(2), Full(2)>>)
MoeFusedReducesumDivOperation(r) == Call(1, <<0>>, <<Full(r)>>)
MoeComputeExpertTokensOperation == Call(1, <<0>>, <<Full(1)>>)
FinalizeRoutingOperation == Call(7, Upto(7), <<Full(2)>>)
=============================================================================
