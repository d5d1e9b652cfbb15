----------------------------- MODULE EventGraph -----------------------------
(***************************************************************************)
(* A device that runs a graph of tasks and events on its streams.  The      *)
(* device is outside the repository: a stream runs its nodes in order, a    *)
(* RECORD raises its event, a WAIT holds its stream until the event is      *)
(* raised and lowers it.  The properties say what the builders of the       *)
(* graphs rely on.                                                          *)
(***************************************************************************)
EXTENDS Naturals, Sequences, FiniteSets

CONSTANTS Graphs,    \* the graphs to run: per stream, a sequence of nodes
          Rounds     \* bound: how often a graph is run

ASSUME EventGraphAssumption == Rounds \in Nat \ {0}

VARIABLES graph,   \* the nodes of each stream, in order
          pos,     \* per stream, how many nodes it has run, over all rounds
          raised   \* the events recorded and not yet waited for

vars == <<graph, pos, raised>>

Streams == {0, 1}
NoEvent == <<>>

LastPos(s) == Rounds * Len(graph[s])
Ended(s) == pos[s] = LastPos(s)

\* The node that stream s has reached.
Reached(s) == graph[s][(pos[s] % Len(graph[s])) + 1]

\* A task runs from the moment its stream has reached it until the stream goes on.
Running(s) == ~Ended(s) /\ Reached(s).kind = "task"

FinishTask(s) == /\ Running(s)
                 /\ UNCHANGED raised
Record(s) == /\ Reached(s).kind = "RECORD"
             /\ raised' = raised \cup ({Reached(s).event} \ {NoEvent})
Wait(s) == /\ Reached(s).kind = "WAIT"
           /\ Reached(s).event \in raised \cup {NoEvent}
           /\ raised' = raised \ {Reached(s).event}

Advance(s) == /\ ~Ended(s)
              /\ FinishTask(s) \/ Record(s) \/ Wait(s)
              /\ pos' = [pos EXCEPT ![s] = @ + 1]
              /\ UNCHANGED graph

Init == /\ graph \in Graphs
        /\ pos = [s \in Streams |-> 0]
        /\ raised = {}

Next == \E s \in Streams : Advance(s)

\* A stream whose next node can run runs it.
Spec == Init /\ [][Next]_vars /\ \A s \in Streams : WF_vars(Advance(s))
-----------------------------------------------------------------------------
Nodes == UNION {{<<s, i>> : i \in DOMAIN graph[s]} : s \in Streams}
NodesOf(kind) == {x \in Nodes : graph[x[1]][x[2]].kind = kind}
EventsOf(kind) == {graph[x[1]][x[2]].event : x \in NodesOf(kind)}
Uses(kind, e) == {x \in NodesOf(kind) : graph[x[1]][x[2]].event = e}

\* The graph is one of those built, no stream runs past its end and only recorded
\* events are raised.
TypeOK == /\ graph \in Graphs
          /\ pos \in [Streams -> Nat]
          /\ \A s \in Streams : pos[s] <= LastPos(s)
          /\ raised \subseteq EventsOf("RECORD")

\* Every event of the graph has one RECORD and one WAIT: no stream waits for an event
\* nobody records and no two recorders share one.  It depends on every builder
\* function making the calls its counterpart makes, in the same order.
EventsArePaired ==
    \A e \in EventsOf("RECORD") \cup EventsOf("WAIT") :
        /\ e # NoEvent
        /\ Cardinality(Uses("RECORD", e)) = 1
        /\ Cardinality(Uses("WAIT", e)) = 1

-----------------------------------------------------------------------------
\* How events tie a graph g together.  The event that node a of stream s records is the one that
\* node b of stream t waits for.
Signal(g, s, a, t, b) ==
    g[s][a].kind = "RECORD" /\ g[t][b].kind = "WAIT" /\ g[s][a].event = g[t][b].event

\* Some event makes node i of stream s end before node j of stream t begins, in the same execution
\* of the graph (Before), or in the next one (BeforeNext).
Before(g, s, i, t, j) ==
    \E a \in DOMAIN g[s], b \in DOMAIN g[t] : Signal(g, s, a, t, b) /\ i < a /\ b < j
BeforeNext(g, s, i, t, j) ==
    \E a \in DOMAIN g[s], b \in DOMAIN g[t] : Signal(g, s, a, t, b) /\ (i < a \/ b < j)

\* An event leads from one node to one node, of the other stream.
Paired(g) ==
    \A s \in Streams : Len(g[s]) \in Nat /\ DOMAIN g[s] = 1 .. Len(g[s]) /\ \A i \in DOMAIN g[s] :
        /\ g[s][i].kind \in {"task", "RECORD", "WAIT"}
        /\ g[s][i].kind \in {"RECORD", "WAIT"} =>
             /\ g[s][i].event # NoEvent
             /\ \A t \in Streams : \A j \in DOMAIN g[t] :
                  /\ g[t][j].kind = g[s][i].kind /\ g[t][j].event = g[s][i].event => s = t /\ i = j
        /\ g[s][i].kind = "RECORD" => \E b \in DOMAIN g[1 - s] : Signal(g, s, i, 1 - s, b)
        /\ g[s][i].kind = "WAIT" => \E a \in DOMAIN g[1 - s] : Signal(g, 1 - s, a, s, i)

\* Before an event is recorded again an event in the other direction says it has been waited for.
Answered(g) ==
    \A s \in Streams : \A a \in DOMAIN g[s], b \in DOMAIN g[1 - s] :
        Signal(g, s, a, 1 - s, b) => BeforeNext(g, 1 - s, b, s, a)

\* Of two tasks on the same unit one hands it over to the other, and gets it back.
Separated(g, s, i, t, j) == Before(g, s, i, t, j) /\ BeforeNext(g, t, j, s, i)
UnitsShared(g) ==
    \A s \in Streams : \A i \in DOMAIN g[s], j \in DOMAIN g[1 - s] :
        (g[s][i].kind = "task" /\ g[1 - s][j].kind = "task" /\ g[s][i].unit = g[1 - s][j].unit)
            => Separated(g, s, i, 1 - s, j) \/ Separated(g, 1 - s, j, s, i)

\* A task comes after those it gets its data from.
DataOrdered(g) ==
    \A s, t \in Streams : \A i \in DOMAIN g[s], j \in DOMAIN g[t] :
        ( /\ g[s][i].kind = "task" /\ g[t][j].kind = "task"
          /\ g[s][i].data = g[t][j].data /\ g[s][i].place < g[t][j].place )
            => IF s = t THEN i < j ELSE Before(g, s, i, t, j)

\* Two streams never wait for what each would only record afterwards.
Uncrossed(g) ==
    \A s \in Streams : \A a \in DOMAIN g[s], b \in DOMAIN g[1 - s] :
        Signal(g, s, a, 1 - s, b) =>
            \A c \in DOMAIN g[1 - s], d \in DOMAIN g[s] :
                Signal(g, 1 - s, c, s, d) => a < d \/ c < b

WellTied(g) == Paired(g) /\ Answered(g) /\ UnitsShared(g) /\ DataOrdered(g) /\ Uncrossed(g)

\* The events of every graph that is handed to the device, whichever layers and communications it
\* has, pair up and order the streams as the properties below need it, however often it is run.
GraphIsTied == (\A s \in Streams : pos[s] = 0) => WellTied(graph)
-----------------------------------------------------------------------------
\* A RECORD never raises an event that is still raised, which would lose one of the
\* two signals.
SignalsAreKept ==
    \A s \in Streams :
        (~Ended(s) /\ Reached(s).kind = "RECORD") => Reached(s).event \notin raised

\* The two streams never compute at the same time and never communicate at the same
\* time: the events hand the computing units and the network back and forth.
BatchesTakeTurns ==
    \A s, t \in Streams :
        (s # t /\ Running(s) /\ Running(t)) => Reached(s).unit # Reached(t).unit

\* The n-th node of stream t is done in the execution of the graph that stream s is in.
Round(s) == pos[s] \div Len(graph[s])
DoneFor(s, t, n) == pos[t] >= Round(s) * Len(graph[t]) + n

\* A task starts only when every task on the same data that comes earlier in the graph,
\* on whatever stream, has ended: the streams compute what one stream would.
DataFlowKept ==
    \A s \in Streams : Running(s) =>
        \A x \in NodesOf("task") :
            LET n == graph[x[1]][x[2]]
            IN  (n.data = Reached(s).data /\ n.place < Reached(s).place)
                    => DoneFor(s, x[1], x[2])

\* Every execution ends on every stream: the streams never wait for each other in a
\* circle.
ExecutionsEnd == <>(\A s \in Streams : Ended(s))
=============================================================================
