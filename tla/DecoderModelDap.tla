--------------------------- MODULE DecoderModelDap ---------------------------
(***************************************************************************)
(* models/base/model/decoder_model.cpp with enableDap, and the event        *)
(* helpers of operations/fusion/utils.cpp.  The model is built twice into   *)
(* one graph: for the PRECEDER batch on stream 0 and for the SUCCESSOR      *)
(* batch on stream 1, layer by layer in turn.  Around every communication   *)
(* operation the builders insert RECORD and WAIT operations, so that one    *)
(* batch communicates while the other computes.                             *)
(*                                                                         *)
(* A configuration says which layers are skipped, how many communication    *)
(* operations a layer and the nodes after the layers have, and whether      *)
(* LinearParallel is a reduce-scatter (enableFlashComm).  The all-gathers    *)
(* that no event wraps (word_embedding.cpp, AddAllGather,                    *)
(* AddCommunicationArgmaxOp) are left out: nothing orders them.             *)
(***************************************************************************)
EXTENDS EventGraphBuilder

CONSTANTS MaxLayers,      \* bound: layers of the model
          MaxComms,       \* bound: communication operations of a layer
          FlashComm       \* the values of enableFlashComm

\* Skipped layers have no node at all, so only what is not skipped is counted.
\* At least one communication operation: enableDap is for several ranks.
Configs == {c \in [layers : UNION {[1 .. n -> 0 .. MaxComms] : n \in 1 .. MaxLayers},
                   after : 0 .. 1, flashComm : FlashComm] :
               c.after > 0 \/ \E l \in DOMAIN c.layers : c.layers[l] > 0}
-----------------------------------------------------------------------------
(* DapManager and CommOpCounter, singletons of the process.                *)

Roles == {"PRECEDER", "SUCCESSOR"}
Preceder(b)  == b.own.role = "PRECEDER"
StreamOf(b)  == IF b.own.role = "SUCCESSOR" THEN 1 ELSE 0
SetRole(b, role) == [b EXCEPT !.own.role = role]
KeepCount(b) == b
Increment(b) == [b EXCEPT !.own.count[b.own.role] = @ + 1]
GetCount(b)  == b.own.count[b.own.role]
Reset(b)     == [b EXCEPT !.own.count = [r \in Roles |-> 0]]

\* The counter as an earlier model of the process may have left it.
Counts == [Roles -> 0 .. 1]
NewBuild(count) == EmptyBuild([role |-> "UNDEFINED_ROLE", count |-> count])

ActionOf(b) == IF Preceder(b) THEN "PUSH" ELSE "POP"

\* The first communication of the PRECEDER has none of the SUCCESSOR's to wait for.
NeverFirst(b) == FALSE
FirstOfPreceder(b) == Preceder(b) /\ GetCount(b) = 0

AddDapEventsBeforeComm(b) ==
    LET b1 == RecordEvent(b, ActionOf(b), "compute", StreamOf(b))
    IN  IF FirstOfPreceder(b) THEN b1 ELSE WaitEvent(b1, ActionOf(b), "comm", StreamOf(b))

SwappedAfterComm(b) ==
    LET b1 == WaitEvent(b, ActionOf(b), "compute", StreamOf(b))
    IN  Increment(RecordEvent(b1, ActionOf(b), "comm", StreamOf(b)))
AddDapEventsAfterComm(b) ==
    LET b1 == RecordEvent(b, ActionOf(b), "comm", StreamOf(b))
    IN  Increment(WaitEvent(b1, ActionOf(b), "compute", StreamOf(b)))
-----------------------------------------------------------------------------
\* The batches are numbered as their streams are.
Compute(b) == AddTask(b, StreamOf(b), "compute", StreamOf(b))
Comm(b)    == AddTask(b, StreamOf(b), "comm", StreamOf(b))

\* AddReduceScatterOp wraps its node by itself, with two calls of
\* AddDapEventsBeforeComm, inside the calls of AddCommunicationOp.
AddReduceScatterOp(b) == AddDapEventsBeforeComm(Comm(AddDapEventsBeforeComm(b)))
AddCommunicationOp(b, reduceScatter) ==
    LET b1 == AddDapEventsBeforeComm(b)
    IN  AddDapEventsAfterComm(IF reduceScatter THEN AddReduceScatterOp(b1) ELSE Comm(b1))

\* n times: some computation and a communication operation.
LinearParallel(b, n, reduceScatter) ==
    LET upTo[i \in 0 .. n] ==
            IF i = 0 THEN b ELSE AddCommunicationOp(Compute(upTo[i - 1]), reduceScatter)
    IN  upTo[n]

\* The head of the model is a column-parallel linear: an all-gather.
AddNodesBeforeLayer(b) == Compute(b)
AddNodesAfterLayer(b, c) == LinearParallel(Compute(b), c.after, FALSE)

\* Every layer is added for both batches; the role decides the stream.
AddSingleLayer(b, layer, c) == LinearParallel(b, c.layers[layer], c.flashComm)
AddLayerTwice(b, layer, c) ==
    LET first == AddSingleLayer(b, layer, c)
        second == AddSingleLayer(SetRole(first, "SUCCESSOR"), layer, c)
    IN  SetRole(second, "PRECEDER")
AddLayer(b, c) ==
    LET upTo[layer \in 0 .. Len(c.layers)] ==
            IF layer = 0 THEN b ELSE AddLayerTwice(upTo[layer - 1], layer, c)
    IN  upTo[Len(c.layers)]

BeforeLayers(b) ==
    LET first == AddNodesBeforeLayer(SetRole(b, "PRECEDER"))
        turn == WaitEvent(SetRole(first, "SUCCESSOR"), "POP", "compute", 1)
    IN  SetRole(AddNodesBeforeLayer(turn), "PRECEDER")

\* The PRECEDER leaves the last computation to the SUCCESSOR and waits for its end.
DoNotWaitEnd(b) == b
WaitEnd(b) == WaitEvent(b, "POP", "end", 0)
RecordEnd(b) == RecordEvent(b, "PUSH", "end", 1)
AfterLayers(b, c) ==
    LET first == AddNodesAfterLayer(b, c)
        turn == RecordEvent(WaitEvent(first, "PUSH", "comm", 0), "PUSH", "compute", 0)
        last == AddNodesAfterLayer(SetRole(WaitEnd(turn), "SUCCESSOR"), c)
    IN  SetRole(RecordEnd(last), "PRECEDER")

AddOperationToGraph(b, c) == AfterLayers(AddLayer(BeforeLayers(b), c), c)

BuildGraph(count, c) ==
    AddOperationToGraph(Reset(SetRole(NewBuild(count), "UNDEFINED_ROLE")), c)
DapGraphs == {Finished(BuildGraph(count, c)) : count \in Counts, c \in Configs}
=============================================================================
