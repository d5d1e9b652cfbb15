--------------------------- MODULE MicroBatchLayer ---------------------------
(***************************************************************************)
(* A decoder layer in the prefill phase with FLAGS_enable_multi_stream_     *)
(* parallel: models/base/layer/decoder_layer.cpp and                        *)
(* models/deepseekv2/layer/decoder_layer.cpp with the helpers of            *)
(* models/base/util.h.  The batch is split in two halves; stream 0 computes *)
(* one half while stream 1 communicates for the other.                     *)
(*                                                                         *)
(* insert_push_events marks the end of what stream 1 does for a half, and   *)
(* insert_pop_events, called where a half leaves stream 0 for stream 1,     *)
(* hands that half over and takes the other one back.  Both use the keys    *)
(* with PUSH and POP, so they match by number, over all layers.             *)
(***************************************************************************)
EXTENDS EventGraphBuilder

CONSTANTS Layers      \* the sequences of layer configurations to build

\* A layer of the base model: which parts it skips, whether their linear ends in a
\* communication operation, and whether attention data parallelism gathers on stream 1.
BaseLayers == [model : {"base"}, attnSkip : BOOLEAN, mlpSkip : BOOLEAN,
               attnComm : BOOLEAN, mlpComm : BOOLEAN, gather : BOOLEAN]

\* A layer of DeepSeek-V2: CalculateCommType lets a half end in an all-reduce only if
\* both the attention and the feed-forward part do (pure tensor parallelism);
\* otherwise it ends in the reduce-scatter and all-gather of SetPost...Process.
DeepseekLayers == [model : {"deepseek"}, dense : BOOLEAN, allReduce : BOOLEAN]
-----------------------------------------------------------------------------
(* models/base/util.h.  `inited' is a variable of the process.             *)

insert_start_events(b) ==
    WaitEvent(RecordEvent(b, "PUSH", "cc_start", 0), "POP", "cc_start", 1)

KeepInited(b, value) == b
SetInited(b, value) == [b EXCEPT !.own.inited = value]

PushWithoutWait(b) == SetInited(RecordEvent(b, "PUSH", "comm_control", 1), TRUE)
insert_push_events(b) ==
    LET b1 == RecordEvent(b, "PUSH", "comm_control", 1)
    IN  SetInited(WaitEvent(b1, "PUSH", "compute_control", 1), TRUE)

\* The half computed on stream 0 is handed over before the other half is awaited.
HandOver(b) ==
    WaitEvent(RecordEvent(b, "POP", "compute_control", 0), "POP", "comm_control", 0)
insert_pop_events(b) == IF b.own.inited THEN HandOver(b) ELSE insert_start_events(b)
-----------------------------------------------------------------------------
\* Work on the half-batch `half' of the hidden states.
Work(b, half, stream) ==
    AddTask(b, half, IF stream = 0 THEN "compute" ELSE "comm", stream)

\* The linear on stream 0, then AddCommunicationOp on stream 1.
LinearParallel(b, half, comm) ==
    LET linear == Work(b, half, 0)
    IN  IF comm THEN Work(insert_pop_events(linear), half, 1) ELSE linear

(* The base model. *)

AddFusionAttention(b, half, l) == LinearParallel(b, half, l.attnComm)
AddFusionAttentionResidualAdd(b, half) == Work(b, half, 1)
AddMlp(b, half, l) == LinearParallel(b, half, l.mlpComm)
AddMlpResidualAdd(b, half) == Work(b, half, 1)
AddFusedAllGather(b, half, l) == IF l.gather THEN Work(b, half, 1) ELSE b
AddRevertAllGather(b, half, l) == IF l.gather THEN Work(b, half, 1) ELSE b

AttentionHalf(b, half, l) ==
    insert_push_events(AddFusedAllGather(
        AddFusionAttentionResidualAdd(AddFusionAttention(b, half, l), half), half, l))
MlpHalf(b, half, l) ==
    insert_push_events(AddRevertAllGather(
        AddMlpResidualAdd(AddMlp(b, half, l), half), half, l))

BaseLayer(b, l) ==
    LET attn == IF l.attnSkip THEN b ELSE AttentionHalf(AttentionHalf(b, 0, l), 1, l)
        mlp  == IF l.mlpSkip THEN attn ELSE MlpHalf(MlpHalf(attn, 0, l), 1, l)
    IN  SetInited(insert_pop_events(mlp), FALSE)

(* DeepSeek-V2. *)

SetAttention(b, half, l) ==
    LinearParallel(b, half, l.allReduce)
SetPostAttnProcess(b, half, l) ==
    Work(IF l.dense THEN b ELSE insert_pop_events(b), half, 1)
SetFFN(b, half) == Work(b, half, 0)
SetAllReduce(b, half) == Work(insert_pop_events(b), half, 1)
SetPostMoeProcess(b, half, l) ==
    LET b1 == IF l.dense THEN b ELSE insert_pop_events(b)
    IN  Work(IF l.allReduce THEN SetAllReduce(b1, half) ELSE b1, half, 1)

DeepseekLayer(b, l) ==
    LET attn(a, half) ==
            insert_push_events(SetPostAttnProcess(SetAttention(a, half, l), half, l))
        ffn(a, half) == insert_push_events(SetPostMoeProcess(SetFFN(a, half), half, l))
    IN  SetInited(insert_pop_events(ffn(ffn(attn(attn(b, 0), 1), 0), 1)), FALSE)

AddOperationToGraph(b, l) == IF l.model = "base" THEN BaseLayer(b, l) ELSE DeepseekLayer(b, l)

BuildLayers(layers) ==
    LET upTo[n \in 0 .. Len(layers)] ==
            IF n = 0 THEN EmptyBuild([inited |-> FALSE])
            ELSE AddOperationToGraph(upTo[n - 1], layers[n])
    IN  upTo[Len(layers)]
MicroBatchGraphs == {Finished(BuildLayers(layers)) : layers \in Layers}
=============================================================================
