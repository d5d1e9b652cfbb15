------------------------- MODULE ExternalCommManager -------------------------
(***************************************************************************)
(* core/base/external_comm_manager.cpp: the names (domains) of the          *)
(* communication groups.  Every rank has a manager of its own and they never *)
(* talk to each other; that the ranks of a group meet under one name, and   *)
(* no two groups under the same one, rests on all ranks making the same     *)
(* sequence of requests, each for its own group.                            *)
(*                                                                         *)
(* A request names a parallel strategy (models/base/param/mapping.h), which *)
(* divides the ranks into groups.                                           *)
(***************************************************************************)
EXTENDS Naturals, Sequences, FiniteSets

CONSTANTS WorldSize,
          Types,          \* the parallel strategies
          RankIds,        \* RankIds[t][r]: the group of rank r, in order
          GroupId,        \* GroupId[t][r]: the index of that group
          Programs,       \* the sequences of requests the ranks may make, each with the
                          \* ranks of a node and whether there is a rank table
          LowerBound, UpperBound   \* SetLcclCommDomainRange

Ranks == 0 .. WorldSize - 1
SizeOf(t) == Len(RankIds[t][0])

\* Each strategy has groups of one size, numbered from 0, and two strategies agree on
\* the group of every rank or of none.
UniformMapping ==
    /\ WorldSize \in Nat \ {0, 1}
    /\ RankIds \in [Types -> [Ranks -> Seq(Ranks)]]
    /\ GroupId \in [Types -> [Ranks -> Nat]]
    /\ \A t \in Types, r \in Ranks :
          /\ Len(RankIds[t][r]) = SizeOf(t) /\ SizeOf(t) > 0
          /\ GroupId[t][r] < WorldSize \div SizeOf(t)
    /\ \A t \in Types, q, r \in Ranks :
          GroupId[t][q] = GroupId[t][r] <=> RankIds[t][q] = RankIds[t][r]
    /\ \A t, u \in Types :
          (\E r \in Ranks : RankIds[t][r] = RankIds[u][r]) => RankIds[t] = RankIds[u]

SpansNodes(ids, local) == \E i, j \in DOMAIN ids : ids[i] \div local # ids[j] \div local

ASSUME MappingAssumption == UniformMapping
ASSUME BoundsAssumption == LowerBound \in Nat /\ UpperBound \in Nat
\* The groups of a strategy are all within a node, or none is.
ASSUME NodesAssumption ==
    \A p \in Programs, t \in Types, q, r \in Ranks :
        SpansNodes(RankIds[t][q], p.local) = SpansNodes(RankIds[t][r], p.local)

Backends == {"lccl", "hccl"}

\* A request Init says what becomes of the global HCCL communicator: it is not asked for,
\* created, or, without a rank table, its creation fails and the manager does without.
\* The backend of a request is the one of its model; rankIds decides which is used.
InitRequests == [op : {"Init"}, backend : Backends, global : {"none", "created", "failed"}, stream : Nat]
GetRequests == [op : {"Get"}, type : Types, backend : Backends, buffer : Nat, stream : Nat, reuse : BOOLEAN]

ASSUME ProgramsAssumption ==
    \A p \in Programs : p.requests \in Seq(InitRequests \cup GetRequests)

VARIABLES
    program,     \* the requests of this execution
    made,        \* per rank: how many of them it has made
    commInfo,    \* per rank: commInfoCache_, from domains to group descriptions
    counter,     \* per rank: commDomainCounter_
    global,      \* per rank: globalComm_ is not null
    domain,      \* per rank: the domains it got, in the order of the requests
    stopped      \* the ranks whose manager has thrown

vars == <<program, made, commInfo, counter, global, domain, stopped>>

NoDomain == [kind |-> "none", n |-> 0]
World    == [kind |-> "world", n |-> 0]
Self(n)  == [kind |-> "self", n |-> n]    \* std::to_string(n)
Sub(n)   == [kind |-> "sub", n |-> n]     \* what HCCL calls the group with this id

Init ==
    /\ program \in Programs
    /\ made = [r \in Ranks |-> 0]
    /\ commInfo = [r \in Ranks |-> <<>>]
    /\ counter = [r \in Ranks |-> 0]
    /\ global = [r \in Ranks |-> FALSE]
    /\ domain = [r \in Ranks |-> <<>>]
    /\ stopped = {}
-----------------------------------------------------------------------------
\* A group that spans nodes uses HCCL, and so does the whole world if it has a rank table.
InitCommBackend(rankIds, backend) ==
    IF \/ SpansNodes(rankIds, program.local)
       \/ program.table /\ WorldSize <= program.local /\ Len(rankIds) = WorldSize
    THEN "hccl" ELSE backend

Info(rankIds, backend, buffer, stream, reuse) ==
    [rankIds |-> rankIds, backend |-> backend, buffer |-> buffer, stream |-> stream,
     reuse |-> reuse]

AllRanks == [i \in 1 .. WorldSize |-> i - 1]
GroupInfo(r, q) ==
    Info(RankIds[q.type][r], InitCommBackend(RankIds[q.type][r], q.backend), q.buffer,
         q.stream, q.reuse)

Hits(r, i) == {d \in DOMAIN commInfo[r] : commInfo[r][d] = [i EXCEPT !.reuse = TRUE]}

\* The first hit in the order of the map, which has the empty name first.
GetCommDomainFromCache(r, i) ==
    IF NoDomain \in Hits(r, i) \/ Hits(r, i) = {} THEN NoDomain
    ELSE CHOOSE d \in Hits(r, i) : TRUE

StoreWithoutBuffer(r, d, i) ==
    commInfo' = [commInfo EXCEPT ![r] =
                    [e \in DOMAIN @ \cup {d} |-> IF e = d THEN [i EXCEPT !.buffer = 0] ELSE @[e]]]

\* The cache is one map: an entry replaces what its domain led to.
Store(r, d, i) ==
    commInfo' = [commInfo EXCEPT ![r] =
                    [e \in DOMAIN @ \cup {d} |-> IF e = d THEN i ELSE @[e]]]

\* The numbers a request takes, on all ranks together.
OneName(size) == 1
Names(size) == WorldSize \div size

RankDomainInt(r, groupId) == LowerBound + counter[r] + r
CommDomainInt(r, groupId) == LowerBound + counter[r] + groupId

BelowUpperBound(n) == n < UpperBound

\* The request ends with the domain d for the group that i describes.
Answer(r, d, i) ==
    /\ domain' = [domain EXCEPT ![r] = Append(@, d)]
    /\ Store(r, d, i)
    /\ UNCHANGED stopped

GetSelfAssignedCommDomain(r, i, groupId) ==
    IF BelowUpperBound(CommDomainInt(r, groupId))
    THEN /\ Answer(r, Self(CommDomainInt(r, groupId)), i)
         /\ counter' = [counter EXCEPT ![r] = @ + Names(Len(i.rankIds))]
    ELSE /\ stopped' = stopped \cup {r}
         /\ UNCHANGED <<counter, commInfo, domain>>

\* cacheId_ of a new entry: it tells sub-communicators of one rank apart.
CacheId(r) == Cardinality(DOMAIN commInfo[r])

GetHcclSubCommDomain(r, i, groupId) ==
    IF global[r]
    THEN Answer(r, Sub(CacheId(r)), i) /\ UNCHANGED counter
    ELSE GetSelfAssignedCommDomain(r, i, groupId)

Reused(r, d) ==
    /\ domain' = [domain EXCEPT ![r] = Append(@, d)]
    /\ UNCHANGED <<counter, commInfo, stopped>>

GetCommDomain(r, q) ==
    LET i == GroupInfo(r, q)
        hit == IF q.reuse THEN GetCommDomainFromCache(r, i) ELSE NoDomain
    IN  /\ \/ /\ SizeOf(q.type) <= 1
              /\ Reused(r, NoDomain)
           \/ /\ SizeOf(q.type) > 1 /\ hit # NoDomain
              /\ Reused(r, hit)
           \/ /\ SizeOf(q.type) > 1 /\ hit = NoDomain
              /\ IF i.backend = "hccl"
                 THEN GetHcclSubCommDomain(r, i, GroupId[q.type][r])
                 ELSE GetSelfAssignedCommDomain(r, i, GroupId[q.type][r])
        /\ UNCHANGED global

\* ExternalCommManager::Init.  The manager does not know of the rank table before.  The
\* entry has no buffer size, whatever it was found by.
InitBuffer == 200
InitInfo(q) ==
    Info(AllRanks, IF SpansNodes(AllRanks, program.local) THEN "hccl" ELSE q.backend, 0,
         q.stream, TRUE)
InitManager(r, q) ==
    IF global[r]
    THEN Reused(r, NoDomain) /\ UNCHANGED global
    ELSE LET hit == GetCommDomainFromCache(r, [InitInfo(q) EXCEPT !.buffer = InitBuffer])
         IN  /\ global' = [global EXCEPT ![r] = q.global = "created"]
             /\ CASE q.global = "created" -> Answer(r, World, InitInfo(q)) /\ UNCHANGED counter
                  [] q.global = "failed" -> Answer(r, NoDomain, InitInfo(q)) /\ UNCHANGED counter
                  [] q.global = "none" /\ hit = NoDomain ->
                         GetSelfAssignedCommDomain(r, InitInfo(q), 0)
                  [] OTHER -> Answer(r, hit, InitInfo(q)) /\ UNCHANGED counter

Request(r) ==
    /\ made[r] < Len(program.requests) /\ r \notin stopped
    /\ made' = [made EXCEPT ![r] = @ + 1]
    /\ LET q == program.requests[made[r] + 1]
       IN  IF q.op = "Init" THEN InitManager(r, q) ELSE GetCommDomain(r, q)
    /\ UNCHANGED program

Next == \E r \in Ranks : Request(r)

Spec == Init /\ [][Next]_vars
-----------------------------------------------------------------------------
Domains == [kind : {"none", "world", "self", "sub"}, n : Nat]

TypeOK ==
    /\ made \in [Ranks -> Nat]
    /\ counter \in [Ranks -> Nat] /\ global \in [Ranks -> BOOLEAN]
    /\ domain \in [Ranks -> Seq(Domains)]
    /\ stopped \subseteq Ranks
    /\ \A r \in Ranks : \A k \in DOMAIN domain[r] :
          domain[r][k].kind = "self" => domain[r][k].n \in LowerBound .. UpperBound - 1
    /\ \A r \in Ranks :
          /\ DOMAIN commInfo[r] \subseteq Domains
          /\ Len(domain[r]) = made[r] - (IF r \in stopped THEN 1 ELSE 0)

\* The k-th request of rank r asked for a domain and got one.
Got(r, k) == k \in DOMAIN domain[r] /\ program.requests[k].op = "Get" /\ domain[r][k] # NoDomain

\* The ranks of a group get the same domain for the same request: they meet.
GroupsMeet ==
    \A q, r \in Ranks : \A k \in DOMAIN domain[q] \cap DOMAIN domain[r] :
        (Got(q, k) /\ RankIds[program.requests[k].type][q] = RankIds[program.requests[k].type][r])
            => domain[q][k] = domain[r][k]

\* Init looks for the world with the default buffer, and what it finds it stores without one.
SameUse(i, j) ==
    \/ i = j
    \/ /\ i.rankIds = AllRanks /\ {i.buffer, j.buffer} = {0, InitBuffer}
       /\ [i EXCEPT !.buffer = 0] = [j EXCEPT !.buffer = 0]

\* Two requests that get the same domain are for the same group with the same backend,
\* buffer and stream, but for the buffer of a domain that Init has taken over, and neither
\* asked for a domain of its own.  HCCL numbers the groups of one rank; self-assigned
\* domains are common to all ranks.
NoStrangersMeet ==
    \A q, r \in Ranks : \A j \in DOMAIN domain[q], k \in DOMAIN domain[r] :
        (/\ domain[q][j] = domain[r][k]
         /\ q = r \/ domain[q][j].kind = "self"
         /\ Got(q, j) /\ Got(r, k))
            => /\ SameUse(GroupInfo(q, program.requests[j]), GroupInfo(r, program.requests[k]))
               /\ j # k => program.requests[j].reuse

FailedBefore(r, k) ==
    \E l \in 1 .. k : /\ program.requests[l].op = "Init" /\ program.requests[l].global = "failed"
                     /\ InitInfo(program.requests[l]) = GroupInfo(r, program.requests[k])

\* Between two calls of Init equal requests of a rank get the same domain: a layer does
\* not open a communicator that another layer has already opened.  The exception are requests
\* that find the entry of an Init that failed, under the empty name: they count as not found.
GroupsAreReused ==
    \A r \in Ranks : \A j, k \in DOMAIN domain[r] :
        (/\ j < k /\ Got(r, j) /\ program.requests[j] = program.requests[k] /\ program.requests[j].reuse
         /\ \A l \in j .. k : program.requests[l].op = "Get"
         /\ ~FailedBefore(r, j))
            => domain[r][j] = domain[r][k]
=============================================================================
