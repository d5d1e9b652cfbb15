---------------------------- MODULE MCEventGraph ----------------------------
(* The graphs that DecoderModelDap and MicroBatchLayer build, for EventGraph. *)
EXTENDS EventGraph

CONSTANTS MaxLayers, MaxComms    \* bounds of the models built with enableDap

ASSUME MCAssumption == MaxLayers \in Nat \ {0} /\ MaxComms \in Nat \ {0}

DapModels(flashComm) == INSTANCE DecoderModelDap
    WITH Keys <- {"compute", "comm", "end"}, FlashComm <- {flashComm}
DapGraphs == DapModels(FALSE)!DapGraphs
FlashCommGraphs == DapModels(TRUE)!DapGraphs

LayersOf(Chosen) == INSTANCE MicroBatchLayer
    WITH Keys <- {"cc_start", "comm_control", "compute_control"}, Layers <- Chosen
UpTo(n, S) == UNION {[1 .. k -> S] : k \in 1 .. n}

\* Tensor parallelism on both parts; either part may be skipped, and a layer that skips
\* both is not built at all (DecoderModel::AddSingleLayer).
BaseLayers == UpTo(2, {l \in LayersOf({})!BaseLayers : /\ l.attnComm /\ l.mlpComm
                                                       /\ ~(l.attnSkip /\ l.mlpSkip)})

\* Data and tensor parallelism of the attention: the dense layers reduce within a data
\* parallel group, the expert layers scatter and gather. (An expert layer that ends both
\* parts in an all-reduce pops twice per push and is left out.)
DeepseekLayers == UpTo(3, {l \in LayersOf({})!DeepseekLayers : l.dense <=> l.allReduce})

PairedGraphs == DapGraphs \cup LayersOf(BaseLayers \cup DeepseekLayers)!MicroBatchGraphs
=============================================================================
