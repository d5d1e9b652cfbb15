------------------------ MODULE MCInternalTensorPool ------------------------
(***************************************************************************)
(* InternalTensorPool for TLC: all small graphs of a kind.                 *)
(***************************************************************************)
EXTENDS InternalTensorPool, TLC

CONSTANTS MCTensors, MCStreams, MCNodeCount

NodeShapes == [ins : SUBSET MCTensors, outs : {S \in SUBSET MCTensors : Cardinality(S) <= 1},
               stream : MCStreams]

(* Nodes read only what earlier nodes have written.                        *)
WrittenFirst(g) ==
  \A n \in 1 .. MCNodeCount : g[n].ins \subseteq UNION {g[m].outs : m \in 1 .. n - 1}

(* Whatever a node writes is read, by a later node or in place by itself.  *)
ReadLast(g) ==
  \A m \in 1 .. MCNodeCount : \A t \in g[m].outs :
    \E n \in m .. MCNodeCount : t \in g[n].ins /\ (n = m => t \in UNION {g[k].outs : k \in 1 .. m - 1})

(* All of them on one stream; on two streams those of at most two tensors. *)
SmallEnough(g) ==
  \/ \A n \in 1 .. MCNodeCount : g[n].stream = 0
  \/ /\ g[1].stream = 0
     /\ Cardinality(UNION {g[n].outs : n \in 1 .. MCNodeCount}) <= 2

WellUsedGraphs ==
  {g \in [1 .. MCNodeCount -> NodeShapes] : WrittenFirst(g) /\ ReadLast(g) /\ SmallEnough(g)}

Symmetric == Permutations(Tensors) \cup Permutations(Addresses)
=============================================================================
