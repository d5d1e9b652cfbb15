----------------------- MODULE MCExternalCommManager -----------------------
(* Four ranks: the whole world, pairs of neighbours, pairs at a distance of  *)
(* two, and ranks on their own.                                             *)
EXTENDS ExternalCommManager, TLC

CONSTANTS Requests   \* bound: requests after the first

MCTypes == {"world", "near", "far", "alone"}
PerRank(a, b, c, d) == 0 :> a @@ 1 :> b @@ 2 :> c @@ 3 :> d
MCRankIds ==
    [world |-> PerRank(<<0, 1, 2, 3>>, <<0, 1, 2, 3>>, <<0, 1, 2, 3>>, <<0, 1, 2, 3>>),
     near  |-> PerRank(<<0, 1>>, <<0, 1>>, <<2, 3>>, <<2, 3>>),
     far   |-> PerRank(<<0, 2>>, <<1, 3>>, <<0, 2>>, <<1, 3>>),
     alone |-> PerRank(<<0>>, <<1>>, <<2>>, <<3>>)]
MCGroupId ==
    [world |-> PerRank(0, 0, 0, 0), near |-> PerRank(0, 0, 1, 1),
     far   |-> PerRank(0, 1, 0, 1), alone |-> PerRank(0, 1, 2, 3)]

Start(backend, asked) == [op |-> "Init", backend |-> backend, global |-> asked, stream |-> 0]
Ask(type, backend, buffer, stream, reuse) ==
    [op |-> "Get", type |-> type, backend |-> backend, buffer |-> buffer,
     stream |-> stream, reuse |-> reuse]

Asks(backend) ==
    {Ask("world", backend, 200, 0, TRUE), Ask("near", backend, 200, 0, TRUE),
     Ask("near", backend, 200, 1, TRUE), Ask("far", backend, 200, 0, FALSE)}
NoGroup(backend) == Ask("alone", backend, 200, 0, TRUE)
NoBuffer(backend) == Ask("world", backend, 0, 0, TRUE)

\* The first request is Init; a later one is that of a second model.
ProgramsOf(local, table, backend, asked, other) ==
    {[local |-> local, table |-> table, requests |-> <<Start(backend, asked)>> \o later] :
        later \in [1 .. Requests -> {Start(backend, asked), other} \cup Asks(backend)]}
MCPrograms ==
    ProgramsOf(4, FALSE, "lccl", "none", NoBuffer("lccl"))
        \cup ProgramsOf(4, TRUE, "lccl", "created", NoGroup("lccl"))
        \cup ProgramsOf(2, FALSE, "lccl", "created", NoGroup("lccl"))
        \cup ProgramsOf(2, FALSE, "lccl", "failed", NoBuffer("lccl"))
=============================================================================
