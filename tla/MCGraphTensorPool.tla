------------------------- MODULE MCGraphTensorPool -------------------------
(***************************************************************************)
(* GraphTensorPool for TLC: all small graphs whose nodes read only what    *)
(* earlier nodes have written.                                             *)
(***************************************************************************)
EXTENDS GraphTensorPool, TLC

CONSTANTS MCTensors, MCNodeCount

NodeShapes == [ins : SUBSET MCTensors, outs : {S \in SUBSET MCTensors : Cardinality(S) <= 1}]

WrittenFirstGraphs ==
  {g \in [1 .. MCNodeCount -> NodeShapes] :
     \A n \in 1 .. MCNodeCount : g[n].ins \subseteq UNION {g[m].outs : m \in 1 .. n - 1}}

Symmetric == Permutations(Tensors) \cup Permutations(Addresses)
=============================================================================
