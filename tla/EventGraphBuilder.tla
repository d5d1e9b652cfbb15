-------------------------- MODULE EventGraphBuilder --------------------------
(***************************************************************************)
(* How the graph builders put tasks, RECORD and WAIT operations on the two  *)
(* streams of a device.  A graph under construction is a record that the    *)
(* builders pass on.  EventManager ties the n-th PUSH and the n-th POP of a *)
(* key together (EventManager!PairedInOrder, BoundWhenPushed), so here an   *)
(* event is named <<key, n>> from the start.                                *)
(***************************************************************************)
EXTENDS Naturals, Sequences

CONSTANT Keys    \* the keys the builders give to RecordEvent and WaitEvent

Streams == {0, 1}

\* What a builder keeps for itself, apart from the nodes, is `own'.
EmptyBuild(own) ==
    [nodes |-> [s \in Streams |-> <<>>], size |-> 0,
     pushed |-> [k \in Keys |-> 0], popped |-> [k \in Keys |-> 0], own |-> own]

AddNode(b, stream, node) ==
    [b EXCEPT !.nodes[stream] = Append(@, node), !.size = @ + 1]

\* A task works on some data, on a computing unit or on the network, and remembers its
\* place in the graph, which is the order of the data flow.
AddTask(b, data, unit, stream) ==
    AddNode(b, stream, [kind |-> "task", data |-> data, unit |-> unit, place |-> b.size + 1])

\* The rank of the next call with this action.
Rank(b, action, key) == IF action = "PUSH" THEN b.pushed[key] + 1 ELSE b.popped[key] + 1

EventNode(b, kind, action, key, stream) ==
    LET added == AddNode(b, stream, [kind |-> kind, event |-> <<key, Rank(b, action, key)>>])
    IN  IF action = "PUSH" THEN [added EXCEPT !.pushed[key] = @ + 1]
        ELSE [added EXCEPT !.popped[key] = @ + 1]

RecordEvent(b, action, key, stream) == EventNode(b, "RECORD", action, key, stream)
WaitEvent(b, action, key, stream)   == EventNode(b, "WAIT", action, key, stream)

\* An operation that no PUSH has completed keeps the undefined type: it does nothing.
NoEvent == <<>>
Completed(b, n) ==
    IF n.kind = "task" \/ n.event[2] <= b.pushed[n.event[1]] THEN n
    ELSE [n EXCEPT !.event = NoEvent]

\* What the device gets: the nodes of each stream, in order.
Finished(b) ==
    [s \in Streams |-> [i \in DOMAIN b.nodes[s] |-> Completed(b, b.nodes[s][i])]]
=============================================================================
