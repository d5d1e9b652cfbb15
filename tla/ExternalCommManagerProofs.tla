---------------------- MODULE ExternalCommManagerProofs ----------------------
(***************************************************************************)
(* Proofs about ExternalCommManager: the ranks of a group meet, strangers   *)
(* do not, and groups are reused, for any world, parallel strategies and    *)
(* sequences of requests.                                                  *)
(*                                                                         *)
(* The ranks run at their own pace, so that their counters and caches       *)
(* differ at every moment.  What they have in common is the history: the    *)
(* domains that a rank got so far determine its counter and its cache       *)
(* after every request.  The definitions below read them off a sequence of  *)
(* domains; the invariant says that the rank's variables agree with it,     *)
(* that each domain was decided from those before it, and that the          *)
(* histories of two ranks match as far as both have come (Lockstep).        *)
(***************************************************************************)
EXTENDS ExternalCommManager, Integers, FiniteSetTheorems, TLAPS

Req(k) == program.requests[k]
IsInit(k) == Req(k).op = "Init"
AsksWorld(k) == IsInit(k) /\ Req(k).global = "created"
FailsWorld(k) == IsInit(k) /\ Req(k).global = "failed"

\* Does a rank have the global communicator after k requests?
GlobalAt(k) == \E j \in 1 .. k : AsksWorld(j)

\* The description that request k of rank r stores, the one it looks for, if it does,
\* and whether it has to come up with a domain.
Entry(r, k) == IF IsInit(k) THEN InitInfo(Req(k)) ELSE GroupInfo(r, Req(k))
Wanted(r, k) == IF IsInit(k) THEN [InitInfo(Req(k)) EXCEPT !.buffer = InitBuffer]
                             ELSE [GroupInfo(r, Req(k)) EXCEPT !.reuse = TRUE]
LooksUp(k) == IF IsInit(k) THEN Req(k).global = "none" ELSE Req(k).reuse
InitWrites(k) == IsInit(k) /\ ~GlobalAt(k - 1)
NeedsDomain(k) ==
    IF IsInit(k) THEN ~GlobalAt(k - 1) /\ Req(k).global # "failed" ELSE SizeOf(Req(k).type) > 1
KindAt(r, k) ==
    IF IsInit(k) THEN IF AsksWorld(k) THEN "world" ELSE "self"
    ELSE IF Entry(r, k).backend = "hccl" /\ GlobalAt(k - 1) THEN "sub" ELSE "self"
GidAt(r, k) == IF IsInit(k) THEN 0 ELSE GroupId[Req(k).type][r]
NamesAt(k) == Names(IF IsInit(k) THEN WorldSize ELSE SizeOf(Req(k).type))

\* s is the history of a rank.  A new domain is one that it had not got before.
New(s, k) == s[k] # NoDomain /\ \A j \in 1 .. k - 1 : s[j] # s[k]
Writes(s, k) == New(s, k) \/ InitWrites(k)
\* The domains that the first n requests have stored, and the requests that stored them last.
Stored(s, n) == {s[j] : j \in {l \in 1 .. n : Writes(s, l)}}
Last(s, k, j) == Writes(s, j) /\ \A l \in j + 1 .. k : Writes(s, l) => s[l] # s[j]
HitsAt(r, s, k, i) == {s[j] : j \in {l \in 1 .. k : Last(s, k, l) /\ Entry(r, l) = i}}
Choice(H) == IF NoDomain \in H \/ H = {} THEN NoDomain ELSE CHOOSE d \in H : TRUE
FoundAt(r, s, k) ==
    IF NeedsDomain(k) /\ LooksUp(k) THEN Choice(HitsAt(r, s, k - 1, Wanted(r, k))) ELSE NoDomain

NewSelf(s, k) == New(s, k) /\ s[k].kind = "self"
Base(r, s, k) == s[k].n - LowerBound - GidAt(r, k)
After(r, s, k) == Base(r, s, k) + NamesAt(k)
\* c is the counter after the first k requests.
CounterIs(r, s, k, c) ==
    /\ \A j \in 1 .. k : NewSelf(s, j) => After(r, s, j) <= c
    /\ \/ c = 0 /\ \A j \in 1 .. k : ~NewSelf(s, j)
       \/ \E j \in 1 .. k : NewSelf(s, j) /\ After(r, s, j) = c

FailedAt(k) == \E j \in 1 .. k : InitWrites(j) /\ FailsWorld(j)
NewUpTo(s, k) == {j \in 1 .. k : New(s, j)}
CacheSize(s, k) == Cardinality(NewUpTo(s, k)) + (IF FailedAt(k) THEN 1 ELSE 0)
-----------------------------------------------------------------------------
Types0 ==
    /\ program \in Programs
    /\ made \in [Ranks -> Nat] /\ counter \in [Ranks -> Nat] /\ global \in [Ranks -> BOOLEAN]
    /\ domain \in [Ranks -> Seq(Domains)]
    /\ stopped \subseteq Ranks
    /\ DOMAIN commInfo = Ranks
    /\ \A r \in Ranks :
          /\ made[r] <= Len(program.requests)
          /\ Len(domain[r]) = made[r] - (IF r \in stopped THEN 1 ELSE 0)

\* A new domain has the kind and the number that the requests before it lead to; any other
\* is the one found.
Decided(r, s, k) ==
    /\ New(s, k) <=> NeedsDomain(k) /\ FoundAt(r, s, k) = NoDomain
    /\ ~New(s, k) => s[k] = FoundAt(r, s, k)
    /\ New(s, k) =>
         /\ s[k].kind = KindAt(r, k)
         /\ s[k].kind = "sub" => s[k].n = CacheSize(s, k - 1)
         /\ s[k].kind = "self" => /\ s[k].n < UpperBound /\ Base(r, s, k) \in Nat
                                 /\ CounterIs(r, s, k - 1, Base(r, s, k))
         /\ s[k].kind = "world" => s[k] = World

FirstIsNew(s) ==
    \A k \in 1 .. Len(s) : s[k] # NoDomain => \E j \in 1 .. k : New(s, j) /\ s[j] = s[k]

\* Requests with the same domain want the same use of it, and do not mind to share.
SharedUse(r, s) ==
    \A j, k \in 1 .. Len(s) :
        s[j] # NoDomain /\ s[j] = s[k] =>
            SameUse(Entry(r, j), Entry(r, k)) /\ (j # k => Entry(r, j).reuse)

History(r, s) ==
    /\ \A k \in 1 .. Len(s) : Decided(r, s, k)
    /\ FirstIsNew(s)
    /\ SharedUse(r, s)

\* The cache has the last description that was stored for each domain.
CacheIs(r, s, c) ==
    /\ DOMAIN c = Stored(s, Len(s))
    /\ \A d \in DOMAIN c : \E j \in 1 .. Len(s) : Last(s, Len(s), j) /\ s[j] = d /\ c[d] = Entry(r, j)
    /\ \A j \in 1 .. Len(s) : Last(s, Len(s), j) => c[s[j]] = Entry(r, j)
    /\ IsFiniteSet(DOMAIN c) /\ Cardinality(DOMAIN c) = CacheSize(s, Len(s))

Agrees(r) ==
    LET s == domain[r] IN
    /\ History(r, s)
    /\ CacheIs(r, s, commInfo[r])
    /\ CounterIs(r, s, Len(s), counter[r])
    /\ global[r] = GlobalAt(Len(s))

Matches(q, r, s, t, k) ==
    /\ New(s, k) <=> New(t, k)
    /\ New(s, k) => /\ s[k].kind = t[k].kind
                    /\ s[k].kind = "self" => Base(q, s, k) = Base(r, t, k)
    /\ Entry(q, k).rankIds = Entry(r, k).rankIds => s[k] = t[k]

Lockstep ==
    \A q, r \in Ranks : \A k \in (1 .. Len(domain[q])) \cap (1 .. Len(domain[r])) :
        Matches(q, r, domain[q], domain[r], k)

IInv == Types0 /\ (\A r \in Ranks : Agrees(r)) /\ Lockstep
-----------------------------------------------------------------------------
(* The parallel strategies.                                                *)

LEMMA WorldFacts == WorldSize \in Nat /\ WorldSize >= 2 /\ 0 \in Ranks
BY MappingAssumption DEF UniformMapping, Ranks

LEMMA SizeFacts ==
  ASSUME NEW t \in Types, NEW r \in Ranks
  PROVE  /\ SizeOf(t) \in Nat /\ SizeOf(t) > 0 /\ Len(RankIds[t][r]) = SizeOf(t)
         /\ GroupId[t][r] \in Nat /\ GroupId[t][r] < Names(SizeOf(t))
         /\ Names(SizeOf(t)) \in Nat
<1>1. /\ RankIds \in [Types -> [Ranks -> Seq(Ranks)]] /\ GroupId \in [Types -> [Ranks -> Nat]]
      /\ Len(RankIds[t][r]) = SizeOf(t) /\ SizeOf(t) > 0
      /\ GroupId[t][r] < Names(SizeOf(t))
  BY MappingAssumption DEF UniformMapping, Names
<1>2. Len(RankIds[t][r]) \in Nat /\ GroupId[t][r] \in Nat
  BY <1>1
<1>3. \A n \in Nat : n > 0 => WorldSize \div n \in Nat
  BY WorldFacts
<1> QED
  BY <1>1, <1>2, <1>3 DEF Names

LEMMA OneWorld == Names(WorldSize) = 1 /\ Len(AllRanks) = WorldSize
BY WorldFacts DEF Names, AllRanks

\* Who is in one group under a strategy is in one group under every strategy that has that group.
LEMMA SameGroup ==
  ASSUME NEW t \in Types, NEW u \in Types, NEW q \in Ranks, NEW r \in Ranks
  PROVE  /\ RankIds[t][q] = RankIds[u][q] => RankIds[t][r] = RankIds[u][r]
         /\ RankIds[t][q] = AllRanks => RankIds[t][r] = AllRanks
         /\ GroupId[t][q] = GroupId[t][r] <=> RankIds[t][q] = RankIds[t][r]
<1>1. RankIds[t][q] = RankIds[u][q] => RankIds[t][r] = RankIds[u][r]
  BY MappingAssumption DEF UniformMapping
<1>2. GroupId[t][q] = GroupId[t][r] <=> RankIds[t][q] = RankIds[t][r]
  BY MappingAssumption DEF UniformMapping
<1>3. ASSUME RankIds[t][q] = AllRanks PROVE RankIds[t][r] = AllRanks
  <2>1. SizeOf(t) = WorldSize
    BY <1>3, OneWorld, SizeFacts
  <2>2. GroupId[t][q] = 0 /\ GroupId[t][r] = 0
    BY <2>1, SizeFacts, OneWorld
  <2> QED
    BY <1>2, <1>3, <2>2
<1> QED
  BY <1>1, <1>2, <1>3

-----------------------------------------------------------------------------
(* What a request stores and looks for.                                    *)

IdsAt(r, k) == IF IsInit(k) THEN AllRanks ELSE RankIds[Req(k).type][r]

LEMMA RequestType ==
  ASSUME program \in Programs, NEW k \in 1 .. Len(program.requests)
  PROVE  /\ IsInit(k) => Req(k) \in InitRequests
         /\ ~IsInit(k) => Req(k) \in GetRequests
<1>1. program.requests \in Seq(InitRequests \cup GetRequests)
  BY ProgramsAssumption
<1>2. Req(k) \in InitRequests \cup GetRequests
  BY <1>1 DEF Req
<1> QED
  BY <1>2 DEF IsInit, InitRequests, GetRequests

\* The record of a request, without IF.
Yes == TRUE
BackendAt(k) == Entry(0, k).backend
BufferAt(k) == IF IsInit(k) THEN 0 ELSE Req(k).buffer
BufferSoughtAt(k) == IF IsInit(k) THEN InitBuffer ELSE Req(k).buffer
ReuseAt(k) == IF IsInit(k) THEN Yes ELSE Req(k).reuse

LEMMA InfoFields ==
  ASSUME NEW i, NEW b, NEW u, NEW s, NEW e
  PROVE  /\ Info(i, b, u, s, e).rankIds = i /\ Info(i, b, u, s, e).backend = b
         /\ Info(i, b, u, s, e).buffer = u /\ Info(i, b, u, s, e).stream = s
         /\ Info(i, b, u, s, e).reuse = e
BY DEF Info

LEMMA InfoExcept ==
  ASSUME NEW i, NEW b, NEW u, NEW s, NEW e, NEW w
  PROVE  [Info(i, b, u, s, e) EXCEPT !.buffer = w] = Info(i, b, w, s, e)
BY DEF Info

LEMMA InfoReuse ==
  ASSUME NEW i, NEW b, NEW u, NEW s, NEW e, NEW w
  PROVE  [Info(i, b, u, s, e) EXCEPT !.reuse = w] = Info(i, b, u, s, w)
BY DEF Info

\* All but the ranks of the group is the same for every rank.
LEMMA EntryShape ==
  ASSUME program \in Programs, NEW k \in 1 .. Len(program.requests), NEW r \in Ranks
  PROVE  /\ Entry(r, k) = Info(IdsAt(r, k), BackendAt(k), BufferAt(k), Req(k).stream, ReuseAt(k))
         /\ Wanted(r, k) = Info(IdsAt(r, k), BackendAt(k), BufferSoughtAt(k), Req(k).stream, Yes)
         /\ ReuseAt(k) \in BOOLEAN
<1>1. CASE IsInit(k)
  <2> DEFINE b == InitInfo(Req(k)).backend
  <2>1. InitInfo(Req(k)) = Info(AllRanks, b, 0, Req(k).stream, Yes)
    <3> DEFINE c == IF SpansNodes(AllRanks, program.local) THEN "hccl" ELSE Req(k).backend
    <3>1. InitInfo(Req(k)) = Info(AllRanks, c, 0, Req(k).stream, Yes)
      BY DEF InitInfo, Yes
    <3> QED
      BY <3>1, InfoFields
  <2>2. [InitInfo(Req(k)) EXCEPT !.buffer = InitBuffer] = Info(AllRanks, b, InitBuffer, Req(k).stream, Yes)
    <3> HIDE DEF b
    <3> QED
      BY <2>1, InfoExcept
  <2>3. Entry(r, k) = InitInfo(Req(k)) /\ Wanted(r, k) = [InitInfo(Req(k)) EXCEPT !.buffer = InitBuffer]
    BY <1>1 DEF Entry, Wanted
  <2>4. /\ BackendAt(k) = b /\ BufferAt(k) = 0 /\ BufferSoughtAt(k) = InitBuffer /\ ReuseAt(k) = Yes
        /\ IdsAt(r, k) = AllRanks
    BY <1>1 DEF BackendAt, Entry, BufferAt, BufferSoughtAt, ReuseAt, IdsAt
  <2> HIDE DEF b
  <2>5. Yes \in BOOLEAN
    BY DEF Yes
  <2> QED
    BY <2>1, <2>2, <2>3, <2>4, <2>5
<1>2. CASE ~IsInit(k)
  <2> DEFINE t == Req(k).type
             B(q) == InitCommBackend(RankIds[t][q], Req(k).backend)
  <2>1. t \in Types /\ Req(k).reuse \in BOOLEAN
    BY <1>2, RequestType DEF GetRequests
  <2>2. B(r) = B(0)
    <3>1. Len(RankIds[t][r]) = Len(RankIds[t][0])
      BY <2>1, SizeFacts, WorldFacts
    <3>2. SpansNodes(RankIds[t][r], program.local) = SpansNodes(RankIds[t][0], program.local)
      BY <2>1, WorldFacts, NodesAssumption
    <3> QED
      BY <3>1, <3>2 DEF InitCommBackend
  <2>3. \A q : GroupInfo(q, Req(k)) = Info(RankIds[t][q], B(q), Req(k).buffer, Req(k).stream, Req(k).reuse)
    BY DEF GroupInfo
  <2>4. Entry(r, k) = GroupInfo(r, Req(k)) /\ Entry(0, k) = GroupInfo(0, Req(k))
    BY <1>2 DEF Entry
  <2>5. Wanted(r, k) = [GroupInfo(r, Req(k)) EXCEPT !.reuse = Yes]
    BY <1>2 DEF Wanted, Yes
  <2>6. /\ BackendAt(k) = B(r) /\ BufferAt(k) = Req(k).buffer /\ BufferSoughtAt(k) = Req(k).buffer
        /\ ReuseAt(k) = Req(k).reuse /\ IdsAt(r, k) = RankIds[t][r]
    <3> HIDE DEF B
    <3> QED
      BY <1>2, <2>2, <2>3, <2>4, InfoFields DEF BackendAt, BufferAt, BufferSoughtAt, ReuseAt, IdsAt
  <2> HIDE DEF B
  <2>7. Wanted(r, k) = Info(RankIds[t][r], B(r), Req(k).buffer, Req(k).stream, Yes)
    <3>1. GroupInfo(r, Req(k)) = Info(RankIds[t][r], B(r), Req(k).buffer, Req(k).stream, Req(k).reuse)
      BY <2>3
    <3>2. [GroupInfo(r, Req(k)) EXCEPT !.reuse = Yes] = Info(RankIds[t][r], B(r), Req(k).buffer, Req(k).stream, Yes)
      BY <3>1, InfoReuse
    <3> QED
      BY <2>5, <3>2
  <2>8. Entry(r, k) = Info(IdsAt(r, k), BackendAt(k), BufferAt(k), Req(k).stream, ReuseAt(k))
    BY <2>3, <2>4, <2>6
  <2>9. Wanted(r, k) = Info(IdsAt(r, k), BackendAt(k), BufferSoughtAt(k), Req(k).stream, Yes)
    BY <2>6, <2>7
  <2> QED
    BY <2>1, <2>6, <2>8, <2>9
<1> QED
  BY <1>1, <1>2

LEMMA SameIds ==
  ASSUME program \in Programs, NEW j \in 1 .. Len(program.requests), NEW k \in 1 .. Len(program.requests),
         NEW q \in Ranks, NEW r \in Ranks
  PROVE  /\ IdsAt(q, j) = IdsAt(q, k) => IdsAt(r, j) = IdsAt(r, k)
         /\ IdsAt(q, k) = AllRanks => IdsAt(r, k) = AllRanks
         /\ IsInit(k) => IdsAt(r, k) = AllRanks
         /\ GidAt(q, k) = GidAt(r, k) <=> IdsAt(q, k) = IdsAt(r, k)
<1>1. /\ ~IsInit(j) => Req(j).type \in Types
      /\ ~IsInit(k) => Req(k).type \in Types
  BY RequestType DEF GetRequests
<1>2. IdsAt(q, k) = AllRanks => IdsAt(r, k) = AllRanks
  BY <1>1, SameGroup DEF IdsAt
<1>3. IdsAt(q, j) = AllRanks => IdsAt(r, j) = AllRanks
  BY <1>1, SameGroup DEF IdsAt
<1>4. ~IsInit(j) /\ ~IsInit(k) /\ IdsAt(q, j) = IdsAt(q, k) => IdsAt(r, j) = IdsAt(r, k)
  BY <1>1, SameGroup DEF IdsAt
<1>5. GidAt(q, k) = GidAt(r, k) <=> IdsAt(q, k) = IdsAt(r, k)
  BY <1>1, SameGroup DEF IdsAt, GidAt
<1> QED
  BY <1>2, <1>3, <1>4, <1>5 DEF IdsAt

LEMMA EntryFacts ==
  ASSUME program \in Programs, NEW j \in 1 .. Len(program.requests), NEW k \in 1 .. Len(program.requests),
         NEW q \in Ranks, NEW r \in Ranks
  PROVE  /\ Entry(q, k).rankIds = IdsAt(q, k)
         /\ Entry(q, k).reuse = ReuseAt(k) /\ ReuseAt(k) \in BOOLEAN
         /\ IdsAt(q, k) = IdsAt(r, k) => Entry(q, k) = Entry(r, k) /\ Wanted(q, k) = Wanted(r, k)
         /\ KindAt(q, k) = KindAt(r, k)
         /\ Entry(q, j) = Wanted(q, k) =>
              /\ Entry(r, j) = Wanted(r, k)
              /\ IdsAt(q, j) = IdsAt(q, k)
              /\ ReuseAt(j)
              /\ LooksUp(k) => SameUse(Entry(q, j), Entry(q, k)) /\ ReuseAt(k)
<1>1. /\ Entry(q, k).rankIds = IdsAt(q, k)
      /\ Entry(q, k).reuse = ReuseAt(k) /\ ReuseAt(k) \in BOOLEAN
  BY EntryShape, InfoFields
<1>2. IdsAt(q, k) = IdsAt(r, k) => Entry(q, k) = Entry(r, k) /\ Wanted(q, k) = Wanted(r, k)
  BY EntryShape
<1>3. KindAt(q, k) = KindAt(r, k)
  BY EntryShape, InfoFields DEF KindAt
<1>4. ASSUME Entry(q, j) = Wanted(q, k)
      PROVE  /\ Entry(r, j) = Wanted(r, k)
             /\ IdsAt(q, j) = IdsAt(q, k)
             /\ ReuseAt(j)
             /\ LooksUp(k) => SameUse(Entry(q, j), Entry(q, k)) /\ ReuseAt(k)
  <2>1. /\ IdsAt(q, j) = IdsAt(q, k) /\ BackendAt(j) = BackendAt(k) /\ BufferAt(j) = BufferSoughtAt(k)
        /\ Req(j).stream = Req(k).stream /\ ReuseAt(j) = Yes
    <3>1. Info(IdsAt(q, j), BackendAt(j), BufferAt(j), Req(j).stream, ReuseAt(j))
            = Info(IdsAt(q, k), BackendAt(k), BufferSoughtAt(k), Req(k).stream, Yes)
      BY <1>4, EntryShape
    <3> QED
      BY <3>1, InfoFields
  <2>2. IdsAt(r, j) = IdsAt(r, k)
    BY <2>1, SameIds
  <2>3. Entry(r, j) = Wanted(r, k)
    BY <2>1, <2>2, EntryShape
  <2>4. ASSUME LooksUp(k)
        PROVE  SameUse(Entry(q, j), Entry(q, k)) /\ ReuseAt(k)
    <3>1. Entry(q, j) = Info(IdsAt(q, k), BackendAt(k), BufferSoughtAt(k), Req(k).stream, Yes)
      BY <2>1, EntryShape
    <3>2. CASE IsInit(k)
      <4>1. Entry(q, j) = Info(AllRanks, BackendAt(k), InitBuffer, Req(k).stream, Yes)
        BY <3>1, <3>2 DEF IdsAt, BufferSoughtAt
      <4>2. Entry(q, k) = Info(AllRanks, BackendAt(k), 0, Req(k).stream, Yes)
        BY <3>2, EntryShape DEF IdsAt, BufferAt, ReuseAt
      <4>3. [Entry(q, j) EXCEPT !.buffer = 0] = [Entry(q, k) EXCEPT !.buffer = 0]
        BY <4>1, <4>2, InfoExcept
      <4>4. SameUse(Entry(q, j), Entry(q, k))
        BY <4>1, <4>2, <4>3, InfoFields DEF SameUse
      <4> QED
        BY <3>2, <4>4 DEF ReuseAt, Yes
    <3>3. CASE ~IsInit(k)
      <4>1. ReuseAt(k) /\ BufferAt(k) = BufferSoughtAt(k)
        BY <2>4, <3>3 DEF LooksUp, ReuseAt, BufferAt, BufferSoughtAt
      <4>2. ReuseAt(k) = Yes
        BY <4>1, EntryShape DEF Yes
      <4>3. Entry(q, k) = Entry(q, j)
        BY <3>1, <4>1, <4>2, EntryShape
      <4> QED
        BY <4>1, <4>3 DEF SameUse
    <3> QED
      BY <3>2, <3>3
  <2> QED
    BY <2>1, <2>3, <2>4 DEF Yes
<1> QED
  BY <1>1, <1>2, <1>3, <1>4

-----------------------------------------------------------------------------
(* Histories.  What is read off the first n domains depends on these only. *)

LEMMA SamePrefix ==
  ASSUME NEW s, NEW t, NEW n \in Nat, \A j \in 1 .. n : s[j] = t[j], NEW k \in 1 .. n, NEW r \in Ranks
  PROVE  /\ New(s, k) <=> New(t, k)
         /\ NewSelf(s, k) <=> NewSelf(t, k)
         /\ Writes(s, k) <=> Writes(t, k)
         /\ Base(r, s, k) = Base(r, t, k) /\ After(r, s, k) = After(r, t, k)
<1>1. New(s, k) <=> New(t, k)
  BY DEF New
<1>2. s[k] = t[k]
  OBVIOUS
<1> QED
  BY <1>1, <1>2 DEF NewSelf, Writes, Base, After

LEMMA SamePast ==
  ASSUME NEW s, NEW t, NEW n \in Nat, \A j \in 1 .. n : s[j] = t[j], NEW r \in Ranks
  PROVE  /\ \A j \in 1 .. n : Last(s, n, j) <=> Last(t, n, j)
         /\ \A i : HitsAt(r, s, n, i) = HitsAt(r, t, n, i)
         /\ \A c : CounterIs(r, s, n, c) <=> CounterIs(r, t, n, c)
         /\ CacheSize(s, n) = CacheSize(t, n)
         /\ FoundAt(r, s, n + 1) = FoundAt(r, t, n + 1)
<1>1. \A k \in 1 .. n : /\ New(s, k) <=> New(t, k)
                        /\ NewSelf(s, k) <=> NewSelf(t, k)
                        /\ Writes(s, k) <=> Writes(t, k)
                        /\ After(r, s, k) = After(r, t, k)
  BY SamePrefix
<1>2. \A j \in 1 .. n : Last(s, n, j) <=> Last(t, n, j)
  BY <1>1 DEF Last
<1>3. ASSUME NEW i
      PROVE  HitsAt(r, s, n, i) = HitsAt(r, t, n, i)
  BY <1>2 DEF HitsAt
<1>4. ASSUME NEW c
      PROVE  CounterIs(r, s, n, c) <=> CounterIs(r, t, n, c)
  BY <1>1 DEF CounterIs
<1>5. NewUpTo(s, n) = NewUpTo(t, n)
  BY <1>1 DEF NewUpTo
<1>6. FoundAt(r, s, n + 1) = FoundAt(r, t, n + 1)
  <2>1. n + 1 - 1 = n
    OBVIOUS
  <2>2. HitsAt(r, s, n + 1 - 1, Wanted(r, n + 1)) = HitsAt(r, t, n + 1 - 1, Wanted(r, n + 1))
    BY <1>3, <2>1
  <2> QED
    BY <2>2 DEF FoundAt
<1> QED
  BY <1>2, <1>3, <1>4, <1>5, <1>6 DEF CacheSize

LEMMA SameDecision ==
  ASSUME NEW s, NEW t, NEW n \in Nat, \A j \in 1 .. n : s[j] = t[j], NEW k \in 1 .. n, NEW r \in Ranks
  PROVE  Decided(r, s, k) <=> Decided(r, t, k)
<1>1. k - 1 \in Nat /\ \A j \in 1 .. k - 1 : s[j] = t[j]
  OBVIOUS
<1>2. /\ \A c : CounterIs(r, s, k - 1, c) <=> CounterIs(r, t, k - 1, c)
      /\ CacheSize(s, k - 1) = CacheSize(t, k - 1)
      /\ FoundAt(r, s, k - 1 + 1) = FoundAt(r, t, k - 1 + 1)
  BY <1>1, SamePast
<1>3. k - 1 + 1 = k
  OBVIOUS
<1>4. FoundAt(r, s, k) = FoundAt(r, t, k)
  BY <1>2, <1>3
<1>5. s[k] = t[k] /\ (New(s, k) <=> New(t, k)) /\ Base(r, s, k) = Base(r, t, k)
  BY SamePrefix
<1> QED
  BY <1>2, <1>4, <1>5 DEF Decided
-----------------------------------------------------------------------------
(* Two histories.                                                          *)

Matching(q, r, s, t, n) == \A k \in 1 .. n : Matches(q, r, s, t, k)

\* Requests up to the n-th with the same domain are for the same group.
OneGroup(r, s, n) ==
    \A j, k \in 1 .. n : s[j] # NoDomain /\ s[j] = s[k] => IdsAt(r, j) = IdsAt(r, k)

LEMMA LastMatches ==
  ASSUME program \in Programs, NEW q \in Ranks, NEW r \in Ranks, NEW s, NEW t,
         NEW n \in 0 .. Len(program.requests), Matching(q, r, s, t, n), OneGroup(r, t, n),
         NEW j \in 1 .. n, Last(s, n, j)
  PROVE  /\ Last(t, n, j)
         /\ s[j] = NoDomain => t[j] = NoDomain
         /\ IdsAt(q, j) = IdsAt(r, j) => s[j] = t[j]
<1>1. \A k \in 1 .. n : /\ New(s, k) <=> New(t, k)
                        /\ Writes(s, k) <=> Writes(t, k)
                        /\ IdsAt(q, k) = IdsAt(r, k) => s[k] = t[k]
  BY EntryFacts DEF Matching, Matches, Writes
<1>2. \A k \in 1 .. n : InitWrites(k) => IdsAt(r, k) = AllRanks /\ IdsAt(q, k) = AllRanks /\ s[k] = t[k]
  BY <1>1, SameIds DEF InitWrites
<1>3. Writes(s, j) /\ Writes(t, j)
  BY <1>1 DEF Last
<1>4. ASSUME NEW l \in j + 1 .. n, Writes(t, l), t[l] = t[j]
      PROVE  FALSE
  <2>1. l \in 1 .. n /\ j \in 1 .. l - 1
    OBVIOUS
  <2>2. InitWrites(l) /\ Writes(s, l)
    BY <1>1, <1>4, <2>1 DEF New, Writes
  <2>3. IdsAt(r, j) = AllRanks
    <3>1. CASE t[j] = NoDomain
      BY <1>2, <1>3, <3>1 DEF New, Writes
    <3>2. CASE t[j] # NoDomain
      BY <1>2, <1>4, <2>1, <2>2, <3>2 DEF OneGroup
    <3> QED
      BY <3>1, <3>2
  <2>4. IdsAt(q, j) = AllRanks
    BY <2>3, SameIds
  <2>5. s[j] = t[j] /\ s[l] = t[l]
    BY <1>1, <1>2, <2>1, <2>2, <2>3, <2>4
  <2> QED
    BY <1>4, <2>2, <2>5 DEF Last
<1>5. s[j] = NoDomain => t[j] = NoDomain
  BY <1>2, <1>3 DEF Writes, New
<1> QED
  BY <1>1, <1>3, <1>4, <1>5 DEF Last

HitIndices(r, s, n, k) == {j \in 1 .. n : Last(s, n, j) /\ Entry(r, j) = Wanted(r, k)}

LEMMA HitsAtIndices ==
  ASSUME NEW r, NEW s, NEW n
  PROVE  HitsAt(r, s, n, Wanted(r, n + 1)) = {s[j] : j \in HitIndices(r, s, n, n + 1)}
BY DEF HitsAt, HitIndices

LEMMA FoundFacts ==
  ASSUME NEW r, NEW s, NEW n \in Nat
  PROVE  /\ FoundAt(r, s, n + 1) # NoDomain =>
              /\ NeedsDomain(n + 1) /\ LooksUp(n + 1)
              /\ \E j \in HitIndices(r, s, n, n + 1) : s[j] = FoundAt(r, s, n + 1)
         /\ FoundAt(r, s, n + 1) = NoDomain <=>
              \/ ~NeedsDomain(n + 1) \/ ~LooksUp(n + 1)
              \/ HitIndices(r, s, n, n + 1) = {}
              \/ \E j \in HitIndices(r, s, n, n + 1) : s[j] = NoDomain
<1> DEFINE H == HitsAt(r, s, n, Wanted(r, n + 1))
<1>1. H = {s[j] : j \in HitIndices(r, s, n, n + 1)}
  BY HitsAtIndices
<1>2. FoundAt(r, s, n + 1) = IF NeedsDomain(n + 1) /\ LooksUp(n + 1) THEN Choice(H) ELSE NoDomain
  <2>1. n + 1 - 1 = n
    OBVIOUS
  <2> QED
    BY <2>1 DEF FoundAt
<1> HIDE DEF H
<1>3. CASE NoDomain \in H \/ H = {}
  <2>1. Choice(H) = NoDomain
    BY <1>3 DEF Choice
  <2> QED
    BY <1>1, <1>2, <1>3, <2>1 DEF H
<1>4. CASE NoDomain \notin H /\ H # {}
  <2>1. Choice(H) = CHOOSE d \in H : TRUE
    BY <1>4 DEF Choice
  <2>2. Choice(H) \in H
    BY <1>4, <2>1
  <2> QED
    BY <1>1, <1>2, <1>4, <2>2 DEF H
<1> QED
  BY <1>3, <1>4

LEMMA MatchingIsSymmetric ==
  ASSUME program \in Programs, NEW q \in Ranks, NEW r \in Ranks, NEW s, NEW t,
         NEW n \in 0 .. Len(program.requests), Matching(q, r, s, t, n)
  PROVE  Matching(r, q, t, s, n)
<1> SUFFICES ASSUME NEW k \in 1 .. n
             PROVE  Matches(r, q, t, s, k)
  BY DEF Matching
<1>1. Matches(q, r, s, t, k)
  BY DEF Matching
<1> QED
  BY <1>1 DEF Matches

LEMMA HitsMatch ==
  ASSUME program \in Programs, NEW q \in Ranks, NEW r \in Ranks, NEW s, NEW t,
         NEW n \in 0 .. Len(program.requests) - 1, Matching(q, r, s, t, n), OneGroup(r, t, n),
         NEW j \in HitIndices(q, s, n, n + 1)
  PROVE  /\ j \in HitIndices(r, t, n, n + 1)
         /\ s[j] = NoDomain => t[j] = NoDomain
         /\ IdsAt(q, n + 1) = IdsAt(r, n + 1) => s[j] = t[j]
<1>1. j \in 1 .. n /\ Last(s, n, j) /\ Entry(q, j) = Wanted(q, n + 1)
  BY DEF HitIndices
<1>2. /\ Len(program.requests) \in Nat
      /\ n \in 0 .. Len(program.requests) /\ n + 1 \in 1 .. Len(program.requests)
      /\ j \in 1 .. Len(program.requests)
  <2>1. Len(program.requests) \in Nat
    BY ProgramsAssumption
  <2> QED
    BY <1>1, <2>1
<1>3. Entry(r, j) = Wanted(r, n + 1) /\ IdsAt(q, j) = IdsAt(q, n + 1)
  BY <1>1, <1>2, EntryFacts
<1>4. IdsAt(q, n + 1) = IdsAt(r, n + 1) => IdsAt(q, j) = IdsAt(r, j)
  BY <1>2, <1>3, SameIds
<1> QED
  BY <1>1, <1>2, <1>3, <1>4, LastMatches DEF HitIndices

LEMMA FoundMatches ==
  ASSUME program \in Programs, NEW q \in Ranks, NEW r \in Ranks, NEW s, NEW t,
         NEW n \in 0 .. Len(program.requests) - 1, Matching(q, r, s, t, n),
         OneGroup(q, s, n), OneGroup(r, t, n)
  PROVE  /\ FoundAt(q, s, n + 1) = NoDomain <=> FoundAt(r, t, n + 1) = NoDomain
         /\ IdsAt(q, n + 1) = IdsAt(r, n + 1) => FoundAt(q, s, n + 1) = FoundAt(r, t, n + 1)
<1>0. Len(program.requests) \in Nat /\ n \in Nat /\ n \in 0 .. Len(program.requests)
  <2>1. Len(program.requests) \in Nat
    BY ProgramsAssumption
  <2> QED
    BY <2>1
<1>1. Matching(r, q, t, s, n)
  BY <1>0, MatchingIsSymmetric
<1>2. HitIndices(q, s, n, n + 1) = HitIndices(r, t, n, n + 1)
  <2>1. ASSUME NEW j \in HitIndices(q, s, n, n + 1)
        PROVE  j \in HitIndices(r, t, n, n + 1)
    BY HitsMatch
  <2>2. ASSUME NEW j \in HitIndices(r, t, n, n + 1)
        PROVE  j \in HitIndices(q, s, n, n + 1)
    BY <1>1, HitsMatch
  <2> QED
    BY <2>1, <2>2
<1>3. \A j \in HitIndices(q, s, n, n + 1) : s[j] = NoDomain <=> t[j] = NoDomain
  BY <1>1, <1>2, HitsMatch
<1>4. FoundAt(q, s, n + 1) = NoDomain <=> FoundAt(r, t, n + 1) = NoDomain
  <2>1. /\ FoundAt(q, s, n + 1) = NoDomain <=>
              \/ ~NeedsDomain(n + 1) \/ ~LooksUp(n + 1)
              \/ HitIndices(q, s, n, n + 1) = {}
              \/ \E j \in HitIndices(q, s, n, n + 1) : s[j] = NoDomain
        /\ FoundAt(r, t, n + 1) = NoDomain <=>
              \/ ~NeedsDomain(n + 1) \/ ~LooksUp(n + 1)
              \/ HitIndices(r, t, n, n + 1) = {}
              \/ \E j \in HitIndices(r, t, n, n + 1) : t[j] = NoDomain
    BY <1>0, FoundFacts
  <2> QED
    BY <1>2, <1>3, <2>1
<1>5. ASSUME IdsAt(q, n + 1) = IdsAt(r, n + 1)
      PROVE  FoundAt(q, s, n + 1) = FoundAt(r, t, n + 1)
  <2>1. \A j \in HitIndices(q, s, n, n + 1) : s[j] = t[j]
    BY <1>5, HitsMatch
  <2>2. HitsAt(q, s, n, Wanted(q, n + 1)) = HitsAt(r, t, n, Wanted(r, n + 1))
    <3>1. /\ HitsAt(q, s, n, Wanted(q, n + 1)) = {s[j] : j \in HitIndices(q, s, n, n + 1)}
          /\ HitsAt(r, t, n, Wanted(r, n + 1)) = {t[j] : j \in HitIndices(r, t, n, n + 1)}
      BY HitsAtIndices
    <3> DEFINE I == HitIndices(q, s, n, n + 1)
    <3>2. {t[j] : j \in HitIndices(r, t, n, n + 1)} = {t[j] : j \in I}
      BY <1>2
    <3>3. \A j \in I : s[j] = t[j]
      BY <2>1
    <3> HIDE DEF I
    <3>4. {s[j] : j \in I} = {t[j] : j \in I}
      BY <3>3
    <3> QED
      BY <3>1, <3>2, <3>4 DEF I
  <2>3. n + 1 - 1 = n
    BY <1>0
  <2> QED
    BY <2>2, <2>3 DEF FoundAt
<1> QED
  BY <1>4, <1>5

LEMMA CountersMatch ==
  ASSUME NEW q \in Ranks, NEW r \in Ranks, NEW s, NEW t, NEW n \in Nat, Matching(q, r, s, t, n),
         NEW b \in Int, NEW c \in Int, CounterIs(q, s, n, b), CounterIs(r, t, n, c)
  PROVE  b = c
<1>1. \A j \in 1 .. n : /\ NewSelf(s, j) <=> NewSelf(t, j)
                        /\ NewSelf(s, j) => After(q, s, j) = After(r, t, j)
  BY DEF Matching, Matches, NewSelf, After
<1>2. CASE \A j \in 1 .. n : ~NewSelf(s, j)
  <2>1. \A j \in 1 .. n : ~NewSelf(t, j)
    BY <1>1, <1>2
  <2> QED
    BY <1>2, <2>1 DEF CounterIs
<1>3. CASE \E j \in 1 .. n : NewSelf(s, j)
  <2>1. \E j \in 1 .. n : NewSelf(t, j)
    BY <1>1, <1>3
  <2>2. PICK i \in 1 .. n : NewSelf(s, i) /\ After(q, s, i) = b
    BY <1>3 DEF CounterIs
  <2>3. PICK j \in 1 .. n : NewSelf(t, j) /\ After(r, t, j) = c
    BY <2>1 DEF CounterIs
  <2>4. b <= c
    BY <1>1, <2>2 DEF CounterIs
  <2>5. c <= b
    BY <1>1, <2>3 DEF CounterIs
  <2> QED
    BY <2>4, <2>5
<1> QED
  BY <1>2, <1>3

LEMMA SizesMatch ==
  ASSUME NEW q, NEW r, NEW s, NEW t, NEW n, Matching(q, r, s, t, n)
  PROVE  CacheSize(s, n) = CacheSize(t, n)
<1>1. NewUpTo(s, n) = NewUpTo(t, n)
  BY DEF NewUpTo, Matching, Matches
<1> QED
  BY <1>1 DEF CacheSize

LEMMA DomainIsKindAndNumber ==
  ASSUME NEW d \in Domains, NEW e \in Domains, d.kind = e.kind, d.n = e.n
  PROVE  d = e
BY DEF Domains

\* Two ranks that have matched so far take the same decision.
LEMMA StepMatches ==
  ASSUME program \in Programs, NEW q \in Ranks, NEW r \in Ranks, NEW s, NEW t,
         NEW n \in 0 .. Len(program.requests) - 1, Matching(q, r, s, t, n),
         OneGroup(q, s, n), OneGroup(r, t, n), s[n + 1] \in Domains, t[n + 1] \in Domains,
         Decided(q, s, n + 1), Decided(r, t, n + 1)
  PROVE  Matches(q, r, s, t, n + 1)
<1> DEFINE k == n + 1
<1>0. n \in Nat /\ k \in 1 .. Len(program.requests) /\ k - 1 = n
  <2>1. Len(program.requests) \in Nat
    BY ProgramsAssumption
  <2> QED
    BY <2>1
<1>1. /\ FoundAt(q, s, k) = NoDomain <=> FoundAt(r, t, k) = NoDomain
      /\ IdsAt(q, k) = IdsAt(r, k) => FoundAt(q, s, k) = FoundAt(r, t, k)
  BY FoundMatches
<1>2. /\ Entry(q, k).rankIds = IdsAt(q, k) /\ Entry(r, k).rankIds = IdsAt(r, k)
      /\ KindAt(q, k) = KindAt(r, k)
  BY <1>0, EntryFacts
<1>3. IdsAt(q, k) = IdsAt(r, k) => GidAt(q, k) = GidAt(r, k)
  BY <1>0, SameIds
<1>4. Decided(q, s, k) /\ Decided(r, t, k) /\ s[k] \in Domains /\ t[k] \in Domains
  OBVIOUS
<1>5. GidAt(q, k) \in Nat /\ GidAt(r, k) \in Nat /\ LowerBound \in Nat
  <2>1. ~IsInit(k) => Req(k).type \in Types
    BY <1>0, RequestType DEF GetRequests
  <2> QED
    BY <2>1, SizeFacts, BoundsAssumption DEF GidAt
<1> HIDE DEF k
<1>6. New(s, k) <=> New(t, k)
  BY <1>1, <1>4 DEF Decided
<1>7. ASSUME New(s, k)
      PROVE  /\ s[k].kind = t[k].kind
             /\ s[k].kind = "self" => Base(q, s, k) = Base(r, t, k)
             /\ IdsAt(q, k) = IdsAt(r, k) => s[k] = t[k]
  <2>1. s[k].kind = KindAt(q, k) /\ t[k].kind = KindAt(q, k)
    BY <1>2, <1>4, <1>6, <1>7 DEF Decided
  <2>2. ASSUME s[k].kind = "self"
        PROVE  Base(q, s, k) = Base(r, t, k)
    <3>1. CounterIs(q, s, n, Base(q, s, k)) /\ CounterIs(r, t, n, Base(r, t, k))
      BY <1>0, <1>4, <1>6, <1>7, <2>1, <2>2 DEF Decided
    <3>2. Base(q, s, k) \in Int /\ Base(r, t, k) \in Int
      BY <1>4, <1>5 DEF Base, Domains
    <3> QED
      BY <1>0, <3>1, <3>2, CountersMatch
  <2>3. ASSUME IdsAt(q, k) = IdsAt(r, k)
        PROVE  s[k] = t[k]
    <3>1. CASE s[k].kind = "self"
      <4>1. s[k].n = t[k].n
        BY <1>3, <1>4, <1>5, <2>2, <2>3, <3>1 DEF Base, Domains
      <4> QED
        BY <1>4, <2>1, <4>1, DomainIsKindAndNumber
    <3>2. CASE s[k].kind = "sub"
      <4>1. s[k].n = CacheSize(s, n) /\ t[k].n = CacheSize(t, n)
        BY <1>0, <1>4, <1>6, <1>7, <2>1, <3>2 DEF Decided
      <4>2. s[k].n = t[k].n
        BY <4>1, SizesMatch
      <4> QED
        BY <1>4, <2>1, <4>2, DomainIsKindAndNumber
    <3>3. CASE s[k].kind = "world"
      BY <1>4, <1>6, <1>7, <2>1, <3>3 DEF Decided
    <3> QED
      BY <2>1, <3>1, <3>2, <3>3 DEF KindAt
  <2> QED
    BY <2>1, <2>2, <2>3
<1>8. ASSUME ~New(s, k), IdsAt(q, k) = IdsAt(r, k)
      PROVE  s[k] = t[k]
  BY <1>1, <1>4, <1>6, <1>8 DEF Decided
<1> QED
  BY <1>2, <1>6, <1>7, <1>8 DEF Matches, k

-----------------------------------------------------------------------------
(* One more domain: t is the history s followed by d.                      *)

Extends(s, t, d) ==
    /\ program \in Programs
    /\ s \in Seq(Domains) /\ d \in Domains /\ t = Append(s, d)
    /\ Len(s) + 1 <= Len(program.requests)

\* The domain is a new one, or it is the one found, NoDomain if the request needs none.
IsFresh(r, s, d) ==
    LET k == Len(s) + 1 IN
    /\ NeedsDomain(k) /\ FoundAt(r, s, k) = NoDomain
    /\ d.kind = KindAt(r, k)
    /\ d.kind = "sub" => d.n = CacheSize(s, Len(s))
    /\ d.kind = "self" => /\ d.n < UpperBound /\ d.n - LowerBound - GidAt(r, k) \in Nat
                          /\ CounterIs(r, s, Len(s), d.n - LowerBound - GidAt(r, k))
    /\ d.kind = "world" => d = World
IsFound(r, s, d) ==
    LET k == Len(s) + 1 IN
    d = FoundAt(r, s, k) /\ (NeedsDomain(k) => d # NoDomain)

LEMMA ExtendsFacts ==
  ASSUME NEW s, NEW t, NEW d, Extends(s, t, d)
  PROVE  /\ Len(s) \in Nat /\ Len(program.requests) \in Nat
         /\ Len(t) = Len(s) + 1 /\ t[Len(s) + 1] = d /\ t \in Seq(Domains)
         /\ \A j \in 1 .. Len(s) : t[j] = s[j] /\ s[j] \in Domains
         /\ Len(s) + 1 \in 1 .. Len(program.requests)
         /\ Len(s) \in 0 .. Len(program.requests) - 1
<1>1. Len(program.requests) \in Nat
  BY ProgramsAssumption DEF Extends
<1>2. Len(s) \in Nat
  BY DEF Extends
<1> QED
  BY <1>1, <1>2 DEF Extends

LEMMA GidFacts ==
  ASSUME program \in Programs, NEW k \in 1 .. Len(program.requests), NEW r \in Ranks
  PROVE  GidAt(r, k) \in Nat /\ NamesAt(k) \in Nat /\ GidAt(r, k) < NamesAt(k)
<1>1. ~IsInit(k) => Req(k).type \in Types
  BY RequestType DEF GetRequests
<1> QED
  BY <1>1, SizeFacts, OneWorld DEF GidAt, NamesAt

LEMMA CacheSizeGrows ==
  ASSUME NEW s, NEW n \in Nat, NEW j \in 1 .. n, New(s, j)
  PROVE  CacheSize(s, j - 1) < CacheSize(s, n) /\ CacheSize(s, j - 1) \in Nat
<1>1. IsFiniteSet(NewUpTo(s, n)) /\ IsFiniteSet(NewUpTo(s, j - 1))
  <2>1. \A m \in Nat : IsFiniteSet(1 .. m) /\ NewUpTo(s, m) \subseteq 1 .. m
    BY FS_Interval DEF NewUpTo
  <2>2. j - 1 \in Nat
    OBVIOUS
  <2> QED
    BY <2>1, <2>2, FS_Subset
<1>2. NewUpTo(s, j - 1) \cup {j} \subseteq NewUpTo(s, n) /\ j \notin NewUpTo(s, j - 1)
  BY DEF NewUpTo
<1>3. Cardinality(NewUpTo(s, j - 1) \cup {j}) = Cardinality(NewUpTo(s, j - 1)) + 1
  BY <1>1, <1>2, FS_AddElement
<1>4. Cardinality(NewUpTo(s, j - 1) \cup {j}) <= Cardinality(NewUpTo(s, n))
  BY <1>1, <1>2, FS_Subset
<1>5. FailedAt(j - 1) => FailedAt(n)
  BY DEF FailedAt
<1>6. Cardinality(NewUpTo(s, n)) \in Nat /\ Cardinality(NewUpTo(s, j - 1)) \in Nat
  BY <1>1, FS_CardinalityType
<1> QED
  BY <1>3, <1>4, <1>5, <1>6 DEF CacheSize

LEMMA FreshIsNew ==
  ASSUME NEW r \in Ranks, NEW s, NEW t, NEW d, Extends(s, t, d), History(r, s), IsFresh(r, s, d)
  PROVE  New(t, Len(s) + 1)
<1> DEFINE n == Len(s)
           k == n + 1
<1>0. /\ n \in Nat /\ Len(program.requests) \in Nat /\ k \in 1 .. Len(program.requests) /\ k - 1 = n
      /\ \A j \in 1 .. n : t[j] = s[j] /\ s[j] \in Domains
      /\ t[k] = d /\ d \in Domains /\ program \in Programs
  BY ExtendsFacts DEF Extends
<1>1. /\ NeedsDomain(k) /\ d.kind = KindAt(r, k)
      /\ d.kind = "sub" => d.n = CacheSize(s, n)
      /\ d.kind = "self" => CounterIs(r, s, n, d.n - LowerBound - GidAt(r, k))
      /\ d.kind = "world" => d = World
  BY DEF IsFresh
<1> HIDE DEF n, k
<1>2. d # NoDomain /\ d.kind \in {"world", "self", "sub"}
  BY <1>1 DEF KindAt, NoDomain
<1>3. ASSUME NEW j \in 1 .. n, New(s, j), s[j] = d
      PROVE  FALSE
  <2>1. Decided(r, s, j)
    BY DEF History, n
  <2>2. j \in 1 .. Len(program.requests)
    BY <1>0 DEF k
  <2>3. CASE d.kind = "self"
    <3>1. After(r, s, j) <= d.n - LowerBound - GidAt(r, k)
      BY <1>1, <1>3, <2>3 DEF CounterIs, NewSelf
    <3>2. /\ GidAt(r, j) \in Nat /\ NamesAt(j) \in Nat /\ GidAt(r, j) < NamesAt(j)
          /\ GidAt(r, k) \in Nat
      BY <1>0, <2>2, GidFacts
    <3>3. d.n \in Nat /\ LowerBound \in Nat
      BY <1>0, BoundsAssumption DEF Domains
    <3>4. After(r, s, j) = d.n - LowerBound - GidAt(r, j) + NamesAt(j)
      BY <1>3 DEF After, Base
    <3> HIDE DEF After
    <3> QED
      BY <3>1, <3>2, <3>3, <3>4
  <2>4. CASE d.kind = "sub"
    <3>1. d.n = CacheSize(s, j - 1)
      BY <1>3, <2>1, <2>4 DEF Decided
    <3> QED
      BY <1>0, <1>1, <1>3, <2>4, <3>1, CacheSizeGrows
  <2>5. CASE d.kind = "world"
    <3>1. AsksWorld(j) /\ AsksWorld(k)
      BY <1>1, <1>3, <2>1, <2>5 DEF Decided, KindAt
    <3>2. ~GlobalAt(n)
      BY <1>0, <1>1, <3>1 DEF NeedsDomain, AsksWorld
    <3> QED
      BY <3>1, <3>2 DEF GlobalAt
  <2> QED
    BY <1>2, <2>3, <2>4, <2>5
<1>4. ASSUME NEW j \in 1 .. n, s[j] = d
      PROVE  FALSE
  <2>1. PICK i \in 1 .. j : New(s, i) /\ s[i] = s[j]
    BY <1>2, <1>4 DEF History, FirstIsNew, n
  <2>2. i \in 1 .. n
    BY <1>0
  <2> QED
    BY <1>3, <1>4, <2>1, <2>2
<1>5. New(t, k)
  BY <1>0, <1>2, <1>4 DEF New
<1> QED
  BY <1>5 DEF k, n

LEMMA FoundIsOld ==
  ASSUME NEW r \in Ranks, NEW s, NEW t, NEW d, Extends(s, t, d), IsFound(r, s, d), d # NoDomain
  PROVE  /\ LooksUp(Len(s) + 1)
         /\ \E j \in 1 .. Len(s) : s[j] = d /\ Last(s, Len(s), j) /\ Entry(r, j) = Wanted(r, Len(s) + 1)
<1>1. Len(s) \in Nat
  BY ExtendsFacts
<1>2. FoundAt(r, s, Len(s) + 1) # NoDomain
  BY DEF IsFound
<1>3. /\ LooksUp(Len(s) + 1)
      /\ \E j \in HitIndices(r, s, Len(s), Len(s) + 1) : s[j] = FoundAt(r, s, Len(s) + 1)
  BY <1>1, <1>2, FoundFacts
<1> QED
  BY <1>3 DEF HitIndices, IsFound

LEMMA FoundIsNotNew ==
  ASSUME NEW r \in Ranks, NEW s, NEW t, NEW d, Extends(s, t, d), IsFound(r, s, d)
  PROVE  ~New(t, Len(s) + 1)
<1>1. /\ Len(s) \in Nat /\ t[Len(s) + 1] = d
      /\ \A j \in 1 .. Len(s) : t[j] = s[j]
  BY ExtendsFacts
<1>2. CASE d = NoDomain
  BY <1>1, <1>2 DEF New
<1>3. CASE d # NoDomain
  <2>1. PICK j \in 1 .. Len(s) : s[j] = d
    BY <1>3, FoundIsOld
  <2> QED
    BY <1>1, <2>1 DEF New
<1> QED
  BY <1>2, <1>3

LEMMA DecidedGrows ==
  ASSUME NEW r \in Ranks, NEW s, NEW t, NEW d, Extends(s, t, d), History(r, s),
         IsFresh(r, s, d) \/ IsFound(r, s, d)
  PROVE  \A k \in 1 .. Len(t) : Decided(r, t, k)
<1> DEFINE n == Len(s)
           k == n + 1
<1>0. /\ n \in Nat /\ k - 1 = n /\ Len(t) = n + 1
      /\ \A j \in 1 .. n : s[j] = t[j]
      /\ t[k] = d
  BY ExtendsFacts
<1>1. \A j \in 1 .. n : Decided(r, t, j)
  <2> SUFFICES ASSUME NEW j \in 1 .. n
               PROVE  Decided(r, t, j)
    OBVIOUS
  <2>1. Decided(r, s, j)
    BY DEF History
  <2> HIDE DEF n
  <2> QED
    BY <1>0, <2>1, SameDecision
<1>2. /\ FoundAt(r, t, k) = FoundAt(r, s, k)
      /\ CacheSize(t, n) = CacheSize(s, n)
      /\ \A c : CounterIs(r, s, n, c) <=> CounterIs(r, t, n, c)
  <2> HIDE DEF n
  <2> QED
    BY <1>0, SamePast DEF k
<1>3. CASE IsFresh(r, s, d)
  <2>1. New(t, k)
    BY <1>3, FreshIsNew
  <2>2. /\ NeedsDomain(k) /\ FoundAt(r, s, k) = NoDomain
        /\ d.kind = KindAt(r, k)
        /\ d.kind = "sub" => d.n = CacheSize(s, n)
        /\ d.kind = "self" => /\ d.n < UpperBound /\ d.n - LowerBound - GidAt(r, k) \in Nat
                              /\ CounterIs(r, s, n, d.n - LowerBound - GidAt(r, k))
        /\ d.kind = "world" => d = World
    BY <1>3 DEF IsFresh
  <2> HIDE DEF k, n
  <2> QED
    BY <1>0, <1>1, <1>2, <2>1, <2>2 DEF Decided, Base, k
<1>4. CASE IsFound(r, s, d)
  <2>1. ~New(t, k)
    BY <1>4, FoundIsNotNew
  <2>2. d = FoundAt(r, s, k) /\ (NeedsDomain(k) => d # NoDomain)
    BY <1>4 DEF IsFound
  <2> HIDE DEF k, n
  <2> QED
    BY <1>0, <1>1, <1>2, <2>1, <2>2 DEF Decided, k
<1> QED
  BY <1>3, <1>4

LEMMA FirstGrows ==
  ASSUME NEW r \in Ranks, NEW s, NEW t, NEW d, Extends(s, t, d), History(r, s),
         IsFresh(r, s, d) \/ IsFound(r, s, d)
  PROVE  FirstIsNew(t)
<1> DEFINE n == Len(s)
<1>0. /\ n \in Nat /\ Len(t) = n + 1
      /\ \A j \in 1 .. n : t[j] = s[j]
      /\ t[n + 1] = d
  BY ExtendsFacts
<1>1. FirstIsNew(s)
  BY DEF History
<1>2. IsFresh(r, s, d) => New(t, n + 1)
  BY FreshIsNew
<1>3. IsFound(r, s, d) /\ d # NoDomain => \E j \in 1 .. n : s[j] = d
  BY FoundIsOld
<1> HIDE DEF n
<1>4. \A j \in 1 .. n : New(s, j) <=> New(t, j)
  BY <1>0, WorldFacts, SamePrefix
<1>5. ASSUME NEW k \in 1 .. n, s[k] # NoDomain
      PROVE  \E j \in 1 .. k : New(t, j) /\ t[j] = t[k]
  <2>1. PICK j \in 1 .. k : New(s, j) /\ s[j] = s[k]
    BY <1>1, <1>5 DEF FirstIsNew, n
  <2>2. j \in 1 .. n
    BY <1>0
  <2> QED
    BY <1>0, <1>4, <2>1, <2>2
<1>6. ASSUME d # NoDomain
      PROVE  \E j \in 1 .. n + 1 : New(t, j) /\ t[j] = d
  <2>1. CASE IsFresh(r, s, d)
    BY <1>0, <1>2, <2>1
  <2>2. CASE IsFound(r, s, d)
    <3>1. PICK i \in 1 .. n : s[i] = d
      BY <1>3, <1>6, <2>2
    <3>2. PICK j \in 1 .. i : New(t, j) /\ t[j] = t[i]
      BY <1>5, <1>6, <3>1
    <3> QED
      BY <1>0, <3>1, <3>2
  <2> QED
    BY <2>1, <2>2
<1> QED
  BY <1>0, <1>5, <1>6 DEF FirstIsNew

LEMMA SameUseIsShared ==
  ASSUME program \in Programs, NEW r \in Ranks, NEW i \in 1 .. Len(program.requests),
         NEW j \in 1 .. Len(program.requests), NEW k \in 1 .. Len(program.requests)
  PROVE  /\ SameUse(Entry(r, i), Entry(r, i))
         /\ SameUse(Entry(r, i), Entry(r, j)) => SameUse(Entry(r, j), Entry(r, i)) /\ IdsAt(r, i) = IdsAt(r, j)
         /\ SameUse(Entry(r, i), Entry(r, j)) /\ SameUse(Entry(r, j), Entry(r, k)) => SameUse(Entry(r, i), Entry(r, k))
<1>1. SameUse(Entry(r, i), Entry(r, i))
  BY DEF SameUse
<1>2. \A l \in 1 .. Len(program.requests) :
        /\ Entry(r, l) = Info(IdsAt(r, l), BackendAt(l), BufferAt(l), Req(l).stream, ReuseAt(l))
        /\ Entry(r, l).rankIds = IdsAt(r, l)
        /\ Entry(r, l).buffer = BufferAt(l)
        /\ [Entry(r, l) EXCEPT !.buffer = 0] = Info(IdsAt(r, l), BackendAt(l), 0, Req(l).stream, ReuseAt(l))
  BY EntryShape, InfoFields, InfoExcept
<1> DEFINE NoBuffer(l) == Info(IdsAt(r, l), BackendAt(l), 0, Req(l).stream, ReuseAt(l))
<1>3. \A l, m \in 1 .. Len(program.requests) : NoBuffer(l) = NoBuffer(m) =>
         /\ IdsAt(r, l) = IdsAt(r, m)
         /\ BufferAt(l) = BufferAt(m) => Entry(r, l) = Entry(r, m)
  <2> SUFFICES ASSUME NEW l \in 1 .. Len(program.requests), NEW m \in 1 .. Len(program.requests),
                      NoBuffer(l) = NoBuffer(m)
               PROVE  /\ IdsAt(r, l) = IdsAt(r, m)
                      /\ BufferAt(l) = BufferAt(m) => Entry(r, l) = Entry(r, m)
    OBVIOUS
  <2>1. /\ IdsAt(r, l) = IdsAt(r, m) /\ BackendAt(l) = BackendAt(m) /\ Req(l).stream = Req(m).stream
        /\ ReuseAt(l) = ReuseAt(m)
    BY InfoFields
  <2> QED
    BY <1>2, <2>1
<1>4. \A l, m \in 1 .. Len(program.requests) : SameUse(Entry(r, l), Entry(r, m)) <=>
         \/ Entry(r, l) = Entry(r, m)
         \/ /\ IdsAt(r, l) = AllRanks /\ {BufferAt(l), BufferAt(m)} = {0, InitBuffer}
            /\ NoBuffer(l) = NoBuffer(m)
  BY <1>2 DEF SameUse
<1>5. \A l, m \in 1 .. Len(program.requests) : Entry(r, l) = Entry(r, m) =>
         NoBuffer(l) = NoBuffer(m) /\ BufferAt(l) = BufferAt(m) /\ IdsAt(r, l) = IdsAt(r, m)
  BY <1>2
<1> HIDE DEF NoBuffer
<1>6. 0 # InitBuffer
  BY DEF InitBuffer
<1>7. SameUse(Entry(r, i), Entry(r, j)) => SameUse(Entry(r, j), Entry(r, i)) /\ IdsAt(r, i) = IdsAt(r, j)
  BY <1>3, <1>4, <1>5
<1>8. ASSUME SameUse(Entry(r, i), Entry(r, j)), SameUse(Entry(r, j), Entry(r, k))
      PROVE  SameUse(Entry(r, i), Entry(r, k))
  <2>1. CASE Entry(r, i) = Entry(r, j) \/ Entry(r, j) = Entry(r, k)
    BY <1>8, <2>1
  <2>2. CASE ~(Entry(r, i) = Entry(r, j) \/ Entry(r, j) = Entry(r, k))
    <3>1. /\ {BufferAt(i), BufferAt(j)} = {0, InitBuffer} /\ NoBuffer(i) = NoBuffer(j)
          /\ {BufferAt(j), BufferAt(k)} = {0, InitBuffer} /\ NoBuffer(j) = NoBuffer(k)
      BY <1>4, <1>8, <2>2
    <3>2. BufferAt(i) = BufferAt(k)
      <4>1. /\ BufferAt(i) \in {0, InitBuffer} /\ 0 \in {BufferAt(i), BufferAt(j)}
            /\ InitBuffer \in {BufferAt(i), BufferAt(j)}
        BY <3>1
      <4>2. /\ BufferAt(k) \in {0, InitBuffer} /\ 0 \in {BufferAt(j), BufferAt(k)}
            /\ InitBuffer \in {BufferAt(j), BufferAt(k)}
        BY <3>1
      <4> QED
        BY <1>6, <4>1, <4>2
    <3> QED
      BY <1>3, <1>4, <3>1, <3>2
  <2> QED
    BY <2>1, <2>2
<1> QED
  BY <1>1, <1>7, <1>8

LEMMA SharedUseGrows ==
  ASSUME NEW r \in Ranks, NEW s, NEW t, NEW d, Extends(s, t, d), History(r, s),
         IsFresh(r, s, d) \/ IsFound(r, s, d)
  PROVE  SharedUse(r, t)
<1> DEFINE n == Len(s)
           k == n + 1
           L == Len(program.requests)
<1>0. /\ n \in Nat /\ Len(t) = n + 1 /\ L \in Nat /\ k \in 1 .. L /\ n <= L
      /\ \A j \in 1 .. n : t[j] = s[j]
      /\ t[k] = d /\ program \in Programs
  BY ExtendsFacts DEF Extends
<1>1. SharedUse(r, s)
  BY DEF History
<1>2. ASSUME NEW j \in 1 .. n, s[j] = d, d # NoDomain
      PROVE  /\ SameUse(Entry(r, j), Entry(r, k)) /\ SameUse(Entry(r, k), Entry(r, j))
             /\ Entry(r, j).reuse /\ Entry(r, k).reuse
  <2>1. ~IsFresh(r, s, d)
    <3>1. ~New(t, k)
      <4> HIDE DEF n
      <4> QED
        BY <1>0, <1>2 DEF New, k
    <3> QED
      BY <3>1, FreshIsNew
  <2>2. IsFound(r, s, d)
    BY <2>1
  <2>3. LooksUp(k) /\ \E i \in 1 .. n : s[i] = d /\ Entry(r, i) = Wanted(r, k)
    BY <1>2, <2>2, FoundIsOld
  <2>4. PICK i \in 1 .. n : s[i] = d /\ Entry(r, i) = Wanted(r, k)
    BY <2>3
  <2>5. i \in 1 .. L /\ j \in 1 .. L
    <3> HIDE DEF n, k, L
    <3> QED
      BY <1>0
  <2>6. SameUse(Entry(r, i), Entry(r, k)) /\ ReuseAt(k) /\ ReuseAt(i)
    <3> HIDE DEF n, k
    <3> QED
      BY <1>0, <2>3, <2>4, <2>5, EntryFacts DEF L
  <2>7. SameUse(Entry(r, j), Entry(r, i)) /\ (j # i => Entry(r, j).reuse)
    BY <1>1, <1>2, <2>4 DEF SharedUse
  <2>8. /\ Entry(r, j).reuse = ReuseAt(j) /\ Entry(r, i).reuse = ReuseAt(i) /\ Entry(r, k).reuse = ReuseAt(k)
    BY <1>0, <2>5, EntryFacts
  <2>9. SameUse(Entry(r, j), Entry(r, k)) /\ SameUse(Entry(r, k), Entry(r, j))
    BY <1>0, <2>5, <2>6, <2>7, SameUseIsShared
  <2> QED
    BY <2>6, <2>7, <2>8, <2>9
<1>3. SameUse(Entry(r, k), Entry(r, k))
  BY <1>0, SameUseIsShared
<1> SUFFICES ASSUME NEW i \in 1 .. Len(t), NEW j \in 1 .. Len(t), t[i] # NoDomain, t[i] = t[j]
             PROVE  SameUse(Entry(r, i), Entry(r, j)) /\ (i # j => Entry(r, i).reuse)
  BY DEF SharedUse
<1> HIDE DEF n, L
<1>4. CASE i \in 1 .. n /\ j \in 1 .. n
  BY <1>0, <1>1, <1>4 DEF SharedUse, n
<1>5. CASE i = k /\ j = k
  BY <1>3, <1>5
<1>6. CASE i = k /\ j \in 1 .. n
  BY <1>0, <1>2, <1>6
<1>7. CASE i \in 1 .. n /\ j = k
  BY <1>0, <1>2, <1>7
<1> QED
  BY <1>0, <1>4, <1>5, <1>6, <1>7

LEMMA HistoryGrows ==
  ASSUME NEW r \in Ranks, NEW s, NEW t, NEW d, Extends(s, t, d), History(r, s),
         IsFresh(r, s, d) \/ IsFound(r, s, d)
  PROVE  History(r, t)
BY DecidedGrows, FirstGrows, SharedUseGrows DEF History

LEMMA HistorysGroups ==
  ASSUME program \in Programs, NEW r \in Ranks, NEW s, NEW n \in Nat, n <= Len(s), Len(s) \in Nat,
         Len(s) <= Len(program.requests), History(r, s)
  PROVE  OneGroup(r, s, n)
<1> SUFFICES ASSUME NEW j \in 1 .. n, NEW k \in 1 .. n, s[j] # NoDomain, s[j] = s[k]
             PROVE  IdsAt(r, j) = IdsAt(r, k)
  BY DEF OneGroup
<1>1. Len(program.requests) \in Nat
  BY ProgramsAssumption
<1>2. /\ j \in 1 .. Len(s) /\ k \in 1 .. Len(s)
      /\ j \in 1 .. Len(program.requests) /\ k \in 1 .. Len(program.requests)
  BY <1>1
<1>3. SameUse(Entry(r, j), Entry(r, k))
  BY <1>2 DEF History, SharedUse
<1> QED
  BY <1>2, <1>3, SameUseIsShared

LEMMA FailedEntries ==
  ASSUME NEW r, NEW s, \A k \in 1 .. Len(s) : Decided(r, s, k), NEW j \in 1 .. Len(s)
  PROVE  Writes(s, j) /\ s[j] = NoDomain <=> InitWrites(j) /\ FailsWorld(j)
<1>1. Decided(r, s, j)
  OBVIOUS
<1>2. InitWrites(j) => (NeedsDomain(j) <=> ~FailsWorld(j))
  BY DEF InitWrites, NeedsDomain, FailsWorld
<1>3. ASSUME Writes(s, j), s[j] = NoDomain
      PROVE  InitWrites(j) /\ FailsWorld(j)
  <2>1. ~New(s, j) /\ InitWrites(j)
    BY <1>3 DEF New, Writes
  <2>2. FoundAt(r, s, j) = NoDomain /\ ~NeedsDomain(j)
    BY <1>1, <1>3, <2>1 DEF Decided
  <2> QED
    BY <1>2, <2>1, <2>2
<1>4. ASSUME InitWrites(j), FailsWorld(j)
      PROVE  Writes(s, j) /\ s[j] = NoDomain
  <2>1. ~NeedsDomain(j)
    BY <1>2, <1>4
  <2>2. FoundAt(r, s, j) = NoDomain
    BY <2>1 DEF FoundAt
  <2> QED
    BY <1>1, <1>4, <2>1, <2>2 DEF Decided, Writes
<1> QED
  BY <1>3, <1>4

LEMMA StoredGrows ==
  ASSUME NEW s, NEW t, NEW n \in Nat, \A j \in 1 .. n : t[j] = s[j]
  PROVE  /\ Stored(t, n) = Stored(s, n)
         /\ Stored(t, n + 1) = IF Writes(t, n + 1) THEN Stored(s, n) \cup {t[n + 1]} ELSE Stored(s, n)
<1>1. \A j \in 1 .. n : (Writes(t, j) <=> Writes(s, j)) /\ t[j] = s[j]
  BY WorldFacts, SamePrefix
<1>2. Stored(t, n) = Stored(s, n)
  <2>1. ASSUME NEW e \in Stored(t, n)
        PROVE  e \in Stored(s, n)
    BY <1>1 DEF Stored
  <2>2. ASSUME NEW e \in Stored(s, n)
        PROVE  e \in Stored(t, n)
    BY <1>1 DEF Stored
  <2> QED
    BY <2>1, <2>2
<1>3. Stored(t, n + 1) = IF Writes(t, n + 1) THEN Stored(t, n) \cup {t[n + 1]} ELSE Stored(t, n)
  <2>1. 1 .. n + 1 = (1 .. n) \cup {n + 1} /\ n + 1 \notin 1 .. n
    OBVIOUS
  <2> QED
    BY <2>1 DEF Stored
<1> QED
  BY <1>2, <1>3

LEMMA SizeGrows ==
  ASSUME NEW r \in Ranks, NEW s, NEW t, NEW d, Extends(s, t, d), History(r, s),
         IsFresh(r, s, d) \/ IsFound(r, s, d)
  PROVE  /\ IsFiniteSet(NewUpTo(s, Len(s)))
         /\ CacheSize(s, Len(s)) \in Nat
         /\ CacheSize(t, Len(s) + 1) = CacheSize(s, Len(s)) +
              (IF Writes(t, Len(s) + 1) /\ d \notin Stored(s, Len(s)) THEN 1 ELSE 0)
<1> DEFINE n == Len(s)
           k == n + 1
<1>0. /\ n \in Nat /\ Len(t) = k /\ k - 1 = n
      /\ \A j \in 1 .. n : t[j] = s[j]
      /\ t[k] = d
  BY ExtendsFacts
<1>1. \A j \in 1 .. n : Decided(r, s, j)
  BY DEF History
<1>2. /\ IsFound(r, s, d) /\ d # NoDomain => \E j \in 1 .. n : s[j] = d
      /\ IsFresh(r, s, d) => New(t, k)
  BY FoundIsOld, FreshIsNew
<1>3. \A j \in 1 .. n : Writes(s, j) /\ s[j] = NoDomain <=> InitWrites(j) /\ FailsWorld(j)
  BY <1>1, FailedEntries
<1>4. Writes(t, k) /\ t[k] = NoDomain <=> InitWrites(k) /\ FailsWorld(k)
  <2>1. (\A j \in 1 .. Len(t) : Decided(r, t, j)) /\ k \in 1 .. Len(t)
    BY <1>0, DecidedGrows
  <2> HIDE DEF k
  <2> QED
    BY <2>1, FailedEntries
<1>5. \A j \in 1 .. n : s[j] # NoDomain => \E i \in 1 .. j : New(s, i) /\ s[i] = s[j]
  BY DEF History, FirstIsNew
<1> HIDE DEF n
<1>6. IsFiniteSet(NewUpTo(s, n)) /\ Cardinality(NewUpTo(s, n)) \in Nat
  <2>1. IsFiniteSet(1 .. n) /\ NewUpTo(s, n) \subseteq 1 .. n
    BY <1>0, FS_Interval DEF NewUpTo
  <2> QED
    BY <2>1, FS_Subset, FS_CardinalityType
<1>7. NewUpTo(t, k) = IF New(t, k) THEN NewUpTo(s, n) \cup {k} ELSE NewUpTo(s, n)
  <2>1. \A j \in 1 .. n : New(t, j) <=> New(s, j)
    BY <1>0, WorldFacts, SamePrefix
  <2>2. 1 .. k = (1 .. n) \cup {k} /\ k \notin 1 .. n
    BY <1>0
  <2> QED
    BY <2>1, <2>2 DEF NewUpTo
<1>8. k \notin NewUpTo(s, n)
  BY <1>0 DEF NewUpTo
<1>9. FailedAt(k) <=> FailedAt(n) \/ (InitWrites(k) /\ FailsWorld(k))
  <2>1. 1 .. k = (1 .. n) \cup {k}
    BY <1>0
  <2> QED
    BY <2>1 DEF FailedAt
<1>10. NoDomain \in Stored(s, n) <=> FailedAt(n)
  BY <1>3 DEF Stored, FailedAt
<1>11. Cardinality(NewUpTo(s, n) \cup {k}) = Cardinality(NewUpTo(s, n)) + 1
  BY <1>6, <1>8, FS_AddElement
<1>12. CASE New(t, k)
  <2>1. d # NoDomain /\ \A j \in 1 .. n : s[j] # d
    BY <1>0, <1>12 DEF New
  <2>2. d \notin Stored(s, n) /\ Writes(t, k)
    BY <1>12, <2>1 DEF Stored, Writes
  <2>3. FailedAt(k) <=> FailedAt(n)
    BY <1>0, <1>4, <1>9, <2>1
  <2> HIDE DEF k
  <2>4. CacheSize(t, k) = CacheSize(s, n) + 1
    BY <1>6, <1>7, <1>11, <1>12, <2>3 DEF CacheSize
  <2> QED
    BY <1>6, <2>2, <2>4 DEF CacheSize, k, n
<1>13. CASE ~New(t, k)
  <2>1. CASE d = NoDomain
    <3>1. Writes(t, k) <=> InitWrites(k) /\ FailsWorld(k)
      BY <1>0, <1>4, <1>13, <2>1
    <3> HIDE DEF k
    <3>2. CacheSize(t, k) = CacheSize(s, n) + (IF Writes(t, k) /\ d \notin Stored(s, n) THEN 1 ELSE 0)
      BY <1>6, <1>7, <1>9, <1>10, <1>13, <2>1, <3>1 DEF CacheSize
    <3> QED
      BY <1>6, <3>2 DEF CacheSize, k, n
  <2>2. CASE d # NoDomain
    <3>1. PICK j \in 1 .. n : s[j] = d
      BY <1>2, <1>13, <2>2
    <3>2. PICK i \in 1 .. j : New(s, i) /\ s[i] = s[j]
      BY <1>5, <2>2, <3>1
    <3>3. d \in Stored(s, n)
      BY <1>0, <3>1, <3>2 DEF Stored, Writes
    <3>4. FailedAt(k) <=> FailedAt(n)
      <4>1. ~(InitWrites(k) /\ FailsWorld(k))
        BY <1>0, <1>4, <2>2
      <4> QED
        BY <1>9, <4>1
    <3> HIDE DEF k
    <3>5. CacheSize(t, k) = CacheSize(s, n)
      BY <1>7, <1>13, <3>4 DEF CacheSize
    <3> QED
      BY <1>6, <3>3, <3>5 DEF CacheSize, k, n
  <2> QED
    BY <2>1, <2>2
<1> QED
  BY <1>12, <1>13

LEMMA LastGrows ==
  ASSUME NEW s, NEW t, NEW n \in Nat, \A j \in 1 .. n : t[j] = s[j]
  PROVE  /\ \A j \in 1 .. n : Last(t, n + 1, j) <=> Last(s, n, j) /\ (Writes(t, n + 1) => t[n + 1] # s[j])
         /\ Last(t, n + 1, n + 1) <=> Writes(t, n + 1)
<1>1. \A j \in 1 .. n : (Writes(t, j) <=> Writes(s, j)) /\ t[j] = s[j]
  BY WorldFacts, SamePrefix
<1>2. ASSUME NEW j \in 1 .. n
      PROVE  Last(t, n + 1, j) <=> Last(s, n, j) /\ (Writes(t, n + 1) => t[n + 1] # s[j])
  <2>1. j + 1 .. n + 1 = (j + 1 .. n) \cup {n + 1} /\ j + 1 .. n \subseteq 1 .. n
    OBVIOUS
  <2> QED
    BY <1>1, <2>1 DEF Last
<1>3. n + 1 + 1 .. n + 1 = {}
  OBVIOUS
<1>4. Last(t, n + 1, n + 1) <=> Writes(t, n + 1)
  BY <1>3 DEF Last
<1> QED
  BY <1>2, <1>4

\* The cache c with the entry i for the domain d.
StoreIn(c, d, i) == [e \in DOMAIN c \cup {d} |-> IF e = d THEN i ELSE c[e]]

\* The cache after a request, whether it stores its domain or not.
LEMMA CacheGrows ==
  ASSUME NEW r \in Ranks, NEW s, NEW t, NEW d, Extends(s, t, d), History(r, s),
         IsFresh(r, s, d) \/ IsFound(r, s, d), NEW c, CacheIs(r, s, c)
  PROVE  /\ Writes(t, Len(s) + 1) => CacheIs(r, t, StoreIn(c, d, Entry(r, Len(s) + 1)))
         /\ ~Writes(t, Len(s) + 1) => CacheIs(r, t, c)
<1> DEFINE n == Len(s)
           k == n + 1
<1>0. /\ n \in Nat /\ Len(t) = k /\ t[k] = d
      /\ \A j \in 1 .. n : t[j] = s[j]
  BY ExtendsFacts
<1>1. /\ DOMAIN c = Stored(s, n)
      /\ \A e \in DOMAIN c : \E j \in 1 .. n : Last(s, n, j) /\ s[j] = e /\ c[e] = Entry(r, j)
      /\ \A j \in 1 .. n : Last(s, n, j) => c[s[j]] = Entry(r, j)
      /\ IsFiniteSet(DOMAIN c) /\ Cardinality(DOMAIN c) = CacheSize(s, n)
  BY DEF CacheIs
<1>2. /\ CacheSize(s, n) \in Nat
      /\ CacheSize(t, k) = CacheSize(s, n) + (IF Writes(t, k) /\ d \notin Stored(s, n) THEN 1 ELSE 0)
  BY SizeGrows
<1> HIDE DEF n
<1>3. /\ \A j \in 1 .. n : Last(t, k, j) <=> Last(s, n, j) /\ (Writes(t, k) => t[k] # s[j])
      /\ Last(t, k, k) <=> Writes(t, k)
  <2>1. n \in Nat /\ \A j \in 1 .. n : t[j] = s[j]
    BY <1>0
  <2>2. \A j \in 1 .. n : Last(t, n + 1, j) <=> Last(s, n, j) /\ (Writes(t, n + 1) => t[n + 1] # s[j])
    BY <2>1, LastGrows
  <2>3. Last(t, n + 1, n + 1) <=> Writes(t, n + 1)
    BY <2>1, LastGrows
  <2> QED
    BY <2>2, <2>3
<1>4. Stored(t, k) = IF Writes(t, k) THEN Stored(s, n) \cup {d} ELSE Stored(s, n)
  BY <1>0, StoredGrows
<1>5. 1 .. k = (1 .. n) \cup {k}
  BY <1>0
<1>6. \A j \in 1 .. n : Last(s, n, j) => s[j] \in DOMAIN c
  BY <1>1 DEF Last, Stored
<1> HIDE DEF k
<1>7. ASSUME Writes(t, k)
      PROVE  CacheIs(r, t, StoreIn(c, d, Entry(r, k)))
  <2> DEFINE c2 == StoreIn(c, d, Entry(r, k))
  <2>1. /\ DOMAIN c2 = DOMAIN c \cup {d}
        /\ c2[d] = Entry(r, k)
        /\ \A e \in DOMAIN c : e # d => c2[e] = c[e]
    BY DEF StoreIn
  <2> HIDE DEF c2
  <2>2. DOMAIN c2 = Stored(t, k)
    BY <1>1, <1>4, <1>7, <2>1
  <2>3. ASSUME NEW j \in 1 .. k, Last(t, k, j)
        PROVE  c2[t[j]] = Entry(r, j)
    <3>1. CASE j = k
      BY <1>0, <2>1, <3>1
    <3>2. CASE j \in 1 .. n
      <4>1. Last(s, n, j) /\ s[j] # d /\ t[j] = s[j]
        BY <1>0, <1>3, <1>7, <2>3, <3>2
      <4> QED
        BY <1>1, <1>6, <2>1, <3>2, <4>1
    <3> QED
      BY <1>5, <3>1, <3>2
  <2>4. ASSUME NEW e \in DOMAIN c2
        PROVE  \E j \in 1 .. k : Last(t, k, j) /\ t[j] = e /\ c2[e] = Entry(r, j)
    <3>1. CASE e = d
      BY <1>0, <1>3, <1>5, <1>7, <2>1, <3>1
    <3>2. CASE e # d
      <4>1. PICK j \in 1 .. n : Last(s, n, j) /\ s[j] = e
        BY <1>1, <2>1, <3>2
      <4>2. Last(t, k, j) /\ t[j] = e
        BY <1>0, <1>3, <3>2, <4>1
      <4> QED
        BY <1>5, <2>3, <4>1, <4>2
    <3> QED
      BY <3>1, <3>2
  <2>5. IsFiniteSet(DOMAIN c2) /\ Cardinality(DOMAIN c2) = CacheSize(t, k)
    <3>1. /\ IsFiniteSet(DOMAIN c \cup {d})
          /\ Cardinality(DOMAIN c \cup {d}) = IF d \in DOMAIN c THEN Cardinality(DOMAIN c)
                                              ELSE Cardinality(DOMAIN c) + 1
      BY <1>1, FS_AddElement
    <3> QED
      BY <1>1, <1>2, <1>7, <2>1, <3>1
  <2>6. CacheIs(r, t, c2)
    BY <1>0, <2>2, <2>3, <2>4, <2>5 DEF CacheIs
  <2> QED
    BY <2>6 DEF c2
<1>8. ASSUME ~Writes(t, k)
      PROVE  CacheIs(r, t, c)
  <2>1. DOMAIN c = Stored(t, k)
    BY <1>1, <1>4, <1>8
  <2>2. ASSUME NEW j \in 1 .. k, Last(t, k, j)
        PROVE  j \in 1 .. n /\ Last(s, n, j) /\ t[j] = s[j]
    BY <1>0, <1>3, <1>5, <1>8, <2>2
  <2>3. \A j \in 1 .. k : Last(t, k, j) => c[t[j]] = Entry(r, j)
    BY <1>1, <2>2
  <2>4. \A e \in DOMAIN c : \E j \in 1 .. k : Last(t, k, j) /\ t[j] = e /\ c[e] = Entry(r, j)
    BY <1>0, <1>1, <1>3, <1>5, <1>8
  <2>5. IsFiniteSet(DOMAIN c) /\ Cardinality(DOMAIN c) = CacheSize(t, k)
    BY <1>1, <1>2, <1>8
  <2> QED
    BY <1>0, <2>1, <2>3, <2>4, <2>5 DEF CacheIs
<1> QED
  BY <1>7, <1>8 DEF k, n

LEMMA CounterGrows ==
  ASSUME NEW r \in Ranks, NEW s, NEW t, NEW d, Extends(s, t, d), NEW c \in Nat,
         CounterIs(r, s, Len(s), c)
  PROVE  /\ ~NewSelf(t, Len(s) + 1) => CounterIs(r, t, Len(s) + 1, c)
         /\ NewSelf(t, Len(s) + 1) /\ d.n = LowerBound + c + GidAt(r, Len(s) + 1)
              => CounterIs(r, t, Len(s) + 1, c + NamesAt(Len(s) + 1))
<1> DEFINE n == Len(s)
           k == n + 1
<1>0. /\ n \in Nat /\ t[k] = d /\ k \in 1 .. Len(program.requests) /\ program \in Programs
      /\ \A j \in 1 .. n : t[j] = s[j] /\ s[j] \in Domains
      /\ 1 .. k = (1 .. n) \cup {k}
      /\ Len(program.requests) \in Nat
  BY ExtendsFacts DEF Extends
<1>1. \A j \in 1 .. n : /\ NewSelf(t, j) <=> NewSelf(s, j)
                        /\ After(r, t, j) = After(r, s, j)
  <2>1. n \in Nat /\ \A j \in 1 .. n : t[j] = s[j]
    BY <1>0
  <2> HIDE DEF n
  <2> QED
    BY <2>1, SamePrefix
<1>2. /\ \A j \in 1 .. n : NewSelf(s, j) => After(r, s, j) <= c
      /\ \/ c = 0 /\ \A j \in 1 .. n : ~NewSelf(s, j)
         \/ \E j \in 1 .. n : NewSelf(s, j) /\ After(r, s, j) = c
  BY DEF CounterIs
<1>3. GidAt(r, k) \in Nat /\ NamesAt(k) \in Nat /\ LowerBound \in Nat
  BY <1>0, GidFacts, BoundsAssumption
<1>4. \A j \in 1 .. n : After(r, s, j) \in Int
  <2> SUFFICES ASSUME NEW j \in 1 .. n
               PROVE  After(r, s, j) \in Int
    OBVIOUS
  <2>1. j \in 1 .. Len(program.requests)
    BY <1>0
  <2>2. GidAt(r, j) \in Nat /\ NamesAt(j) \in Nat /\ s[j].n \in Nat
    BY <1>0, <2>1, GidFacts DEF Domains
  <2> QED
    BY <1>3, <2>2 DEF After, Base
<1>5. t[k].n = LowerBound + c + GidAt(r, k) => After(r, t, k) = c + NamesAt(k)
  BY <1>3 DEF After, Base
<1> HIDE DEF n, k
<1>6. ASSUME ~NewSelf(t, k)
      PROVE  CounterIs(r, t, k, c)
  <2>1. \A j \in 1 .. k : NewSelf(t, j) => After(r, t, j) <= c
    BY <1>0, <1>1, <1>2, <1>6
  <2>2. CASE c = 0 /\ \A j \in 1 .. n : ~NewSelf(s, j)
    <3>1. c = 0 /\ \A j \in 1 .. k : ~NewSelf(t, j)
      BY <1>0, <1>1, <1>6, <2>2
    <3> QED
      BY <2>1, <3>1 DEF CounterIs
  <2>3. CASE \E j \in 1 .. n : NewSelf(s, j) /\ After(r, s, j) = c
    <3>1. \E j \in 1 .. k : NewSelf(t, j) /\ After(r, t, j) = c
      BY <1>0, <1>1, <2>3
    <3> QED
      BY <2>1, <3>1 DEF CounterIs
  <2> QED
    BY <1>2, <2>2, <2>3
<1>7. ASSUME NewSelf(t, k), d.n = LowerBound + c + GidAt(r, k)
      PROVE  CounterIs(r, t, k, c + NamesAt(k))
  <2>1. After(r, t, k) = c + NamesAt(k)
    BY <1>0, <1>5, <1>7
  <2>2. \A j \in 1 .. n : NewSelf(t, j) => After(r, t, j) <= c + NamesAt(k)
    BY <1>1, <1>2, <1>3, <1>4
  <2>3. c + NamesAt(k) <= c + NamesAt(k)
    BY <1>3
  <2> QED
    BY <1>0, <1>7, <2>1, <2>2, <2>3 DEF CounterIs
<1> QED
  BY <1>6, <1>7 DEF k, n

LEMMA GlobalGrows ==
  ASSUME NEW n \in Nat
  PROVE  GlobalAt(n + 1) <=> GlobalAt(n) \/ AsksWorld(n + 1)
<1>1. 1 .. n + 1 = (1 .. n) \cup {n + 1}
  OBVIOUS
<1> QED
  BY <1>1 DEF GlobalAt

-----------------------------------------------------------------------------
(* What a request does, in terms of the history.                           *)

Ready(r) == Types0 /\ Agrees(r) /\ r \notin stopped /\ made[r] < Len(program.requests)

\* The number of the request that rank r makes.
At(r) == Len(domain[r]) + 1

\* The request ends with the domain d: it comes up with it, or has found it, and stores its
\* entry if it is new or the request is an Init.
StoresEntry(r, d) == commInfo' = [commInfo EXCEPT ![r] = StoreIn(@, d, Entry(r, At(r)))]

FreshSelf(r, d) ==
    /\ d.kind = "self" /\ d.n = LowerBound + counter[r] + GidAt(r, At(r))
    /\ counter' = [counter EXCEPT ![r] = @ + NamesAt(At(r))]

Takes(r, d) ==
    /\ d \in Domains
    /\ domain' = [domain EXCEPT ![r] = Append(@, d)]
    /\ stopped' = stopped
    /\ \/ /\ IsFresh(r, domain[r], d) /\ StoresEntry(r, d)
          /\ FreshSelf(r, d) \/ (d.kind # "self" /\ counter' = counter)
       \/ IsFound(r, domain[r], d) /\ InitWrites(At(r)) /\ StoresEntry(r, d) /\ counter' = counter
       \/ IsFound(r, domain[r], d) /\ ~InitWrites(At(r)) /\ commInfo' = commInfo /\ counter' = counter

Stops(r) ==
    /\ stopped' = stopped \cup {r}
    /\ counter' = counter /\ commInfo' = commInfo /\ domain' = domain

Outcome(r) == Stops(r) \/ \E d : Takes(r, d)

LEMMA ReadyFacts ==
  ASSUME NEW r \in Ranks, Ready(r)
  PROVE  /\ program \in Programs /\ Len(program.requests) \in Nat
         /\ Len(domain[r]) = made[r] /\ Len(domain[r]) \in Nat /\ At(r) = made[r] + 1
         /\ At(r) \in 1 .. Len(program.requests) /\ At(r) - 1 = Len(domain[r])
         /\ domain[r] \in Seq(Domains) /\ counter[r] \in Nat /\ global[r] \in BOOLEAN
         /\ DOMAIN commInfo = Ranks
         /\ History(r, domain[r]) /\ CacheIs(r, domain[r], commInfo[r])
         /\ CounterIs(r, domain[r], Len(domain[r]), counter[r])
         /\ global[r] <=> GlobalAt(Len(domain[r]))
         /\ \A d \in Domains : Extends(domain[r], Append(domain[r], d), d)
<1>1. Types0 /\ Agrees(r) /\ r \notin stopped /\ made[r] < Len(program.requests)
  BY DEF Ready
<1>2. /\ program \in Programs /\ Len(program.requests) \in Nat
      /\ made[r] \in Nat /\ domain[r] \in Seq(Domains) /\ counter[r] \in Nat /\ global[r] \in BOOLEAN
      /\ DOMAIN commInfo = Ranks
      /\ Len(domain[r]) = made[r] - (IF r \in stopped THEN 1 ELSE 0)
  BY <1>1, ProgramsAssumption DEF Types0
<1>3. Len(domain[r]) = made[r] /\ Len(domain[r]) \in Nat
  BY <1>1, <1>2
<1>4. At(r) = made[r] + 1 /\ At(r) \in 1 .. Len(program.requests) /\ At(r) - 1 = Len(domain[r])
  BY <1>1, <1>2, <1>3 DEF At
<1>5. /\ History(r, domain[r]) /\ CacheIs(r, domain[r], commInfo[r])
      /\ CounterIs(r, domain[r], Len(domain[r]), counter[r])
      /\ global[r] <=> GlobalAt(Len(domain[r]))
  BY <1>1, <1>2 DEF Agrees
<1>6. \A d \in Domains : Extends(domain[r], Append(domain[r], d), d)
  BY <1>1, <1>2, <1>3 DEF Extends
<1> QED
  BY <1>2, <1>3, <1>4, <1>5, <1>6

LEMMA CacheLookup ==
  ASSUME NEW r \in Ranks, Ready(r), NEW i, NEW w, [i EXCEPT !.reuse = TRUE] = w
  PROVE  GetCommDomainFromCache(r, i) = Choice(HitsAt(r, domain[r], Len(domain[r]), w))
<1> DEFINE s == domain[r]
           n == Len(s)
           c == commInfo[r]
<1>1. /\ DOMAIN c = Stored(s, n)
      /\ \A e \in DOMAIN c : \E j \in 1 .. n : Last(s, n, j) /\ s[j] = e /\ c[e] = Entry(r, j)
      /\ \A j \in 1 .. n : Last(s, n, j) => c[s[j]] = Entry(r, j)
  BY ReadyFacts DEF CacheIs
<1>2. Hits(r, i) = {d \in DOMAIN c : c[d] = w}
  BY DEF Hits
<1>3. \A j \in 1 .. n : Last(s, n, j) => s[j] \in DOMAIN c
  BY <1>1 DEF Last, Stored
<1> HIDE DEF n, s, c
<1>4. {d \in DOMAIN c : c[d] = w} = HitsAt(r, s, n, w)
  <2>1. ASSUME NEW e \in DOMAIN c, c[e] = w
        PROVE  e \in HitsAt(r, s, n, w)
    BY <1>1, <2>1 DEF HitsAt
  <2>2. ASSUME NEW e \in HitsAt(r, s, n, w)
        PROVE  e \in DOMAIN c /\ c[e] = w
    BY <1>1, <1>3 DEF HitsAt
  <2> QED
    BY <2>1, <2>2
<1>5. Hits(r, i) = HitsAt(r, s, n, w)
  BY <1>2, <1>4
<1> QED
  BY <1>5 DEF GetCommDomainFromCache, Choice, n, s

LEMMA FoundIsDomain ==
  ASSUME NEW r \in Ranks, Ready(r)
  PROVE  FoundAt(r, domain[r], At(r)) \in Domains
<1>1. NoDomain \in Domains
  BY DEF NoDomain, Domains
<1>2. Len(domain[r]) \in Nat /\ domain[r] \in Seq(Domains)
  BY ReadyFacts
<1>3. FoundAt(r, domain[r], At(r)) # NoDomain =>
        \E j \in 1 .. Len(domain[r]) : domain[r][j] = FoundAt(r, domain[r], At(r))
  BY <1>2, FoundFacts DEF At, HitIndices
<1> QED
  BY <1>1, <1>2, <1>3

LEMMA SelfOutcome ==
  ASSUME NEW r \in Ranks, Ready(r), NeedsDomain(At(r)), FoundAt(r, domain[r], At(r)) = NoDomain,
         KindAt(r, At(r)) = "self", NEW g, g = GidAt(r, At(r)),
         GetSelfAssignedCommDomain(r, Entry(r, At(r)), g)
  PROVE  Outcome(r)
<1> DEFINE n == LowerBound + counter[r] + g
           k == At(r)
<1>0. /\ program \in Programs /\ k \in 1 .. Len(program.requests) /\ counter[r] \in Nat
      /\ CounterIs(r, domain[r], Len(domain[r]), counter[r])
  BY ReadyFacts
<1>1. g \in Nat /\ LowerBound \in Nat
  BY <1>0, GidFacts, BoundsAssumption
<1>2. Names(Len(Entry(r, k).rankIds)) = NamesAt(k)
  <2>1. Entry(r, k).rankIds = IdsAt(r, k)
    BY <1>0, EntryFacts
  <2>2. ~IsInit(k) => Req(k).type \in Types
    BY <1>0, RequestType DEF GetRequests
  <2>3. Len(IdsAt(r, k)) = IF IsInit(k) THEN WorldSize ELSE SizeOf(Req(k).type)
    BY <2>2, OneWorld, SizeFacts DEF IdsAt
  <2> QED
    BY <2>1, <2>3 DEF NamesAt
<1>3. CASE ~BelowUpperBound(n)
  BY <1>3 DEF GetSelfAssignedCommDomain, CommDomainInt, Outcome, Stops
<1>4. CASE BelowUpperBound(n)
  <2> DEFINE d == Self(n)
  <2>1. /\ domain' = [domain EXCEPT ![r] = Append(@, d)] /\ stopped' = stopped
        /\ Store(r, d, Entry(r, k))
        /\ counter' = [counter EXCEPT ![r] = @ + NamesAt(k)]
    BY <1>2, <1>4 DEF GetSelfAssignedCommDomain, CommDomainInt, Answer
  <2>2. StoresEntry(r, d)
    BY <2>1 DEF Store, StoresEntry, StoreIn
  <2>3. d \in Domains /\ d.kind = "self" /\ d.n = n
    BY <1>0, <1>1 DEF Self, Domains
  <2> HIDE DEF d
  <2>4. d.n - LowerBound - GidAt(r, k) = counter[r]
    BY <1>0, <1>1, <2>3
  <2>5. IsFresh(r, domain[r], d)
    BY <1>0, <1>4, <2>3, <2>4 DEF IsFresh, At, BelowUpperBound
  <2>6. FreshSelf(r, d)
    BY <2>1, <2>3 DEF FreshSelf
  <2>7. Takes(r, d)
    BY <2>1, <2>2, <2>3, <2>5, <2>6 DEF Takes
  <2> QED
    BY <2>7 DEF Outcome
<1> QED
  BY <1>3, <1>4

LEMMA ReusedOutcome ==
  ASSUME NEW r \in Ranks, Ready(r), ~InitWrites(At(r)), NEW d, Reused(r, d),
         d = FoundAt(r, domain[r], At(r)), NeedsDomain(At(r)) => d # NoDomain
  PROVE  Outcome(r)
<1>1. IsFound(r, domain[r], d) /\ d \in Domains
  BY FoundIsDomain DEF IsFound, At
<1>2. Takes(r, d)
  BY <1>1 DEF Takes, Reused
<1> QED
  BY <1>2 DEF Outcome

LEMMA GetOutcome ==
  ASSUME NEW r \in Ranks, Ready(r), ~IsInit(At(r)), GetCommDomain(r, Req(At(r)))
  PROVE  Outcome(r) /\ global' = global /\ (GlobalAt(At(r)) <=> GlobalAt(Len(domain[r])))
<1> DEFINE k == At(r)
           q == Req(k)
           i == GroupInfo(r, q)
           hit == IF q.reuse THEN GetCommDomainFromCache(r, i) ELSE NoDomain
<1>0. /\ program \in Programs /\ k \in 1 .. Len(program.requests) /\ k - 1 = Len(domain[r])
      /\ Len(domain[r]) \in Nat /\ k = Len(domain[r]) + 1
      /\ CacheIs(r, domain[r], commInfo[r]) /\ (global[r] <=> GlobalAt(Len(domain[r])))
  BY ReadyFacts DEF At
<1>1. ~IsInit(k) /\ GetCommDomain(r, q)
  OBVIOUS
<1>2. q \in GetRequests /\ q.type \in Types
  BY <1>0, <1>1, RequestType DEF GetRequests
<1>3. Entry(r, k) = i /\ [i EXCEPT !.reuse = TRUE] = Wanted(r, k)
  BY <1>1 DEF Entry, Wanted
<1>4. NeedsDomain(k) <=> SizeOf(q.type) > 1
  BY <1>1 DEF NeedsDomain
<1>5. ~InitWrites(k) /\ (LooksUp(k) <=> q.reuse) /\ GidAt(r, k) = GroupId[q.type][r]
  BY <1>1 DEF InitWrites, LooksUp, GidAt
<1>6. NeedsDomain(k) => hit = FoundAt(r, domain[r], k)
  <2>1. GetCommDomainFromCache(r, i) = Choice(HitsAt(r, domain[r], Len(domain[r]), Wanted(r, k)))
    BY <1>3, CacheLookup
  <2> QED
    BY <1>0, <1>5, <2>1 DEF FoundAt
<1>7. ~NeedsDomain(k) => FoundAt(r, domain[r], k) = NoDomain
  BY DEF FoundAt
<1>8. /\ global' = global
      /\ \/ SizeOf(q.type) <= 1 /\ Reused(r, NoDomain)
         \/ SizeOf(q.type) > 1 /\ hit # NoDomain /\ Reused(r, hit)
         \/ /\ SizeOf(q.type) > 1 /\ hit = NoDomain
            /\ IF i.backend = "hccl"
               THEN GetHcclSubCommDomain(r, i, GroupId[q.type][r])
               ELSE GetSelfAssignedCommDomain(r, i, GroupId[q.type][r])
  BY <1>1 DEF GetCommDomain
<1>9. GlobalAt(k) <=> GlobalAt(Len(domain[r]))
  BY <1>0, <1>1, GlobalGrows DEF AsksWorld
<1>10. SizeOf(q.type) \in Nat
  BY <1>2, WorldFacts, SizeFacts
<1> HIDE DEF hit, i, q, k
<1>11. CASE SizeOf(q.type) <= 1 /\ Reused(r, NoDomain)
  <2>1. ~NeedsDomain(k)
    BY <1>4, <1>10, <1>11
  <2> QED
    BY <1>5, <1>7, <1>8, <1>9, <1>11, <2>1, ReusedOutcome DEF k
<1>12. CASE SizeOf(q.type) > 1 /\ hit # NoDomain /\ Reused(r, hit)
  BY <1>4, <1>5, <1>6, <1>8, <1>9, <1>12, ReusedOutcome DEF k
<1>13. CASE /\ SizeOf(q.type) > 1 /\ hit = NoDomain
            /\ IF i.backend = "hccl"
               THEN GetHcclSubCommDomain(r, i, GroupId[q.type][r])
               ELSE GetSelfAssignedCommDomain(r, i, GroupId[q.type][r])
  <2>1. NeedsDomain(k) /\ FoundAt(r, domain[r], k) = NoDomain
    BY <1>4, <1>6, <1>13
  <2>2. KindAt(r, k) = IF i.backend = "hccl" /\ global[r] THEN "sub" ELSE "self"
    BY <1>0, <1>1, <1>3 DEF KindAt
  <2>3. CASE i.backend = "hccl" /\ global[r]
    <3> DEFINE d == Sub(CacheId(r))
    <3>1. Answer(r, d, i) /\ counter' = counter
      BY <1>13, <2>3 DEF GetHcclSubCommDomain
    <3>2. CacheId(r) = CacheSize(domain[r], Len(domain[r])) /\ CacheId(r) \in Nat
      <4>1. /\ IsFiniteSet(DOMAIN commInfo[r])
            /\ Cardinality(DOMAIN commInfo[r]) = CacheSize(domain[r], Len(domain[r]))
        BY <1>0 DEF CacheIs
      <4> QED
        BY <4>1, FS_CardinalityType DEF CacheId
    <3>3. d.kind = "sub" /\ d.n = CacheId(r) /\ d \in Domains
      BY <3>2 DEF Sub, Domains
    <3> HIDE DEF d
    <3>4. IsFresh(r, domain[r], d)
      BY <2>1, <2>2, <2>3, <3>2, <3>3 DEF IsFresh, At, k
    <3>5. StoresEntry(r, d)
      BY <1>3, <3>1 DEF Answer, Store, StoresEntry, StoreIn, k
    <3>6. Takes(r, d)
      BY <3>1, <3>3, <3>4, <3>5 DEF Takes, Answer
    <3> QED
      BY <1>8, <1>9, <3>6 DEF Outcome, k
  <2>4. CASE ~(i.backend = "hccl" /\ global[r])
    <3>1. GetSelfAssignedCommDomain(r, Entry(r, k), GidAt(r, k))
      BY <1>3, <1>5, <1>13, <2>4 DEF GetHcclSubCommDomain
    <3> QED
      BY <1>8, <1>9, <2>1, <2>2, <2>4, <3>1, SelfOutcome DEF k
  <2> QED
    BY <2>3, <2>4
<1> QED
  BY <1>8, <1>11, <1>12, <1>13

LEMMA InitOutcome ==
  ASSUME NEW r \in Ranks, Ready(r), IsInit(At(r)), InitManager(r, Req(At(r)))
  PROVE  /\ Outcome(r) /\ global' \in [Ranks -> BOOLEAN]
         /\ \A p \in Ranks : p # r => global'[p] = global[p]
         /\ global'[r] <=> GlobalAt(At(r))
         /\ Stops(r) => (GlobalAt(At(r)) <=> GlobalAt(Len(domain[r])))
<1> DEFINE k == At(r)
           q == Req(k)
           i == InitInfo(q)
           hit == GetCommDomainFromCache(r, [i EXCEPT !.buffer = InitBuffer])
<1>0. /\ program \in Programs /\ k \in 1 .. Len(program.requests) /\ k - 1 = Len(domain[r])
      /\ Len(domain[r]) \in Nat /\ k = Len(domain[r]) + 1
      /\ (global[r] <=> GlobalAt(Len(domain[r]))) /\ global[r] \in BOOLEAN
      /\ global \in [Ranks -> BOOLEAN]
  BY ReadyFacts DEF At, Ready, Types0
<1>1. IsInit(k) /\ InitManager(r, q)
  OBVIOUS
<1>2. q \in InitRequests /\ q.global \in {"none", "created", "failed"}
  BY <1>0, <1>1, RequestType DEF InitRequests
<1>3. Entry(r, k) = i /\ Wanted(r, k) = [i EXCEPT !.buffer = InitBuffer]
  BY <1>1 DEF Entry, Wanted
<1>4. /\ AsksWorld(k) <=> q.global = "created"
      /\ FailsWorld(k) <=> q.global = "failed"
      /\ LooksUp(k) <=> q.global = "none"
      /\ InitWrites(k) <=> ~global[r]
      /\ NeedsDomain(k) <=> ~global[r] /\ q.global # "failed"
      /\ KindAt(r, k) = IF q.global = "created" THEN "world" ELSE "self"
      /\ GidAt(r, k) = 0
  BY <1>0, <1>1 DEF AsksWorld, FailsWorld, LooksUp, InitWrites, NeedsDomain, KindAt, GidAt
<1>5. hit = Choice(HitsAt(r, domain[r], Len(domain[r]), Wanted(r, k)))
  <2>1. Wanted(r, k) = Info(IdsAt(r, k), BackendAt(k), BufferSoughtAt(k), Req(k).stream, Yes)
    BY <1>0, EntryShape
  <2>2. [Wanted(r, k) EXCEPT !.reuse = Yes] = Wanted(r, k)
    BY <2>1, InfoReuse
  <2>3. [Wanted(r, k) EXCEPT !.reuse = TRUE] = Wanted(r, k)
    BY <2>2 DEF Yes
  <2> HIDE DEF k
  <2> QED
    BY <1>3, <2>3, CacheLookup
<1>6. FoundAt(r, domain[r], k) = IF NeedsDomain(k) /\ LooksUp(k) THEN hit ELSE NoDomain
  BY <1>0, <1>5 DEF FoundAt
<1>7. GlobalAt(k) <=> global[r] \/ q.global = "created"
  BY <1>0, <1>4, GlobalGrows
<1>8. NoDomain \in Domains /\ World \in Domains /\ World.kind = "world"
  BY DEF NoDomain, World, Domains
<1>9. \A d : Store(r, d, i) => StoresEntry(r, d)
  BY <1>3 DEF Store, StoresEntry, StoreIn
<1>10. CASE global[r]
  <2>1. Reused(r, NoDomain) /\ global' = global
    BY <1>1, <1>10 DEF InitManager
  <2>2. ~NeedsDomain(k) /\ ~InitWrites(k) /\ FoundAt(r, domain[r], k) = NoDomain
    BY <1>4, <1>6, <1>10
  <2>3. Outcome(r)
    BY <2>1, <2>2, ReusedOutcome
  <2> HIDE DEF k, q
  <2> QED
    BY <1>0, <1>7, <1>10, <2>1, <2>3 DEF k
<1>11. CASE ~global[r]
  <2>1. /\ global' = [global EXCEPT ![r] = q.global = "created"]
        /\ CASE q.global = "created" -> Answer(r, World, i) /\ UNCHANGED counter
             [] q.global = "failed" -> Answer(r, NoDomain, i) /\ UNCHANGED counter
             [] q.global = "none" /\ hit = NoDomain -> GetSelfAssignedCommDomain(r, i, 0)
             [] OTHER -> Answer(r, hit, i) /\ UNCHANGED counter
    BY <1>1, <1>11 DEF InitManager
  <2>2. /\ global' \in [Ranks -> BOOLEAN] /\ \A p \in Ranks : p # r => global'[p] = global[p]
        /\ global'[r] = (q.global = "created")
    BY <1>0, <2>1
  <2> HIDE DEF hit, i, q, k
  <2>3. CASE q.global = "created"
    <3>1. Answer(r, World, i) /\ counter' = counter
      BY <2>1, <2>3
    <3>2. IsFresh(r, domain[r], World)
      BY <1>4, <1>6, <1>8, <1>11, <2>3 DEF IsFresh, At, k
    <3>3. Takes(r, World)
      BY <1>8, <1>9, <3>1, <3>2 DEF Takes, Answer
    <3>4. ~Stops(r)
      BY <1>11, <3>1, <3>3 DEF Stops, Takes, Answer, Ready
    <3> QED
      BY <1>7, <1>11, <2>2, <2>3, <3>3, <3>4 DEF Outcome, k
  <2>4. CASE q.global = "failed"
    <3>1. Answer(r, NoDomain, i) /\ counter' = counter
      BY <2>1, <2>4
    <3>2. IsFound(r, domain[r], NoDomain)
      BY <1>4, <1>6, <2>4 DEF IsFound, At, k
    <3>3. Takes(r, NoDomain)
      BY <1>4, <1>8, <1>9, <1>11, <3>1, <3>2 DEF Takes, Answer, k
    <3> QED
      BY <1>0, <1>7, <1>11, <2>2, <2>4, <3>3 DEF Outcome, k
  <2>5. CASE q.global = "none" /\ hit = NoDomain
    <3>1. GetSelfAssignedCommDomain(r, Entry(r, k), 0)
      BY <1>3, <2>1, <2>5
    <3>2. NeedsDomain(k) /\ FoundAt(r, domain[r], k) = NoDomain /\ KindAt(r, k) = "self"
      BY <1>4, <1>6, <1>11, <2>5
    <3>3. Outcome(r)
      BY <1>4, <3>1, <3>2, SelfOutcome DEF k
    <3> QED
      BY <1>0, <1>7, <1>11, <2>2, <2>5, <3>3 DEF k
  <2>6. CASE q.global = "none" /\ hit # NoDomain
    <3>1. Answer(r, hit, i) /\ counter' = counter
      BY <2>1, <2>6
    <3>2. NeedsDomain(k) /\ FoundAt(r, domain[r], k) = hit /\ InitWrites(k)
      BY <1>4, <1>6, <1>11, <2>6
    <3>3. IsFound(r, domain[r], hit) /\ hit \in Domains
      BY <2>6, <3>2, FoundIsDomain DEF IsFound, At, k
    <3>4. Takes(r, hit)
      BY <1>9, <3>1, <3>2, <3>3 DEF Takes, Answer, k
    <3> QED
      BY <1>0, <1>7, <1>11, <2>2, <2>6, <3>4 DEF Outcome, k
  <2> QED
    BY <1>2, <2>3, <2>4, <2>5, <2>6
<1> QED
  BY <1>0, <1>10, <1>11

-----------------------------------------------------------------------------
(* The program stays the same, and so does what is read off a history.     *)

LEMMA SameRequests ==
  ASSUME program' = program
  PROVE  \A r, k :
            /\ Entry(r, k)' = Entry(r, k) /\ Wanted(r, k)' = Wanted(r, k)
            /\ NeedsDomain(k)' <=> NeedsDomain(k)
            /\ LooksUp(k)' <=> LooksUp(k)
            /\ InitWrites(k)' <=> InitWrites(k)
            /\ FailsWorld(k)' <=> FailsWorld(k)
            /\ GlobalAt(k)' <=> GlobalAt(k)
            /\ KindAt(r, k)' = KindAt(r, k)
            /\ GidAt(r, k)' = GidAt(r, k) /\ NamesAt(k)' = NamesAt(k)
<1> SUFFICES ASSUME NEW r, NEW k
             PROVE  /\ Entry(r, k)' = Entry(r, k) /\ Wanted(r, k)' = Wanted(r, k)
                    /\ NeedsDomain(k)' <=> NeedsDomain(k)
                    /\ LooksUp(k)' <=> LooksUp(k)
                    /\ InitWrites(k)' <=> InitWrites(k)
                    /\ FailsWorld(k)' <=> FailsWorld(k)
                    /\ GlobalAt(k)' <=> GlobalAt(k)
                    /\ KindAt(r, k)' = KindAt(r, k)
                    /\ GidAt(r, k)' = GidAt(r, k) /\ NamesAt(k)' = NamesAt(k)
  OBVIOUS
<1>1. \A j : Req(j)' = Req(j) /\ (IsInit(j)' <=> IsInit(j))
  BY DEF Req, IsInit
<1>2. \A j : (AsksWorld(j)' <=> AsksWorld(j)) /\ (FailsWorld(j)' <=> FailsWorld(j))
  BY <1>1 DEF AsksWorld, FailsWorld
<1>3. \A j : GlobalAt(j)' <=> GlobalAt(j)
  BY <1>2 DEF GlobalAt
<1>4. \A q : InitInfo(q)' = InitInfo(q) /\ GroupInfo(r, q)' = GroupInfo(r, q)
  BY DEF InitInfo, GroupInfo, InitCommBackend
<1>5. InitInfo(Req(k))' = InitInfo(Req(k)) /\ GroupInfo(r, Req(k))' = GroupInfo(r, Req(k))
  BY <1>1, <1>4
<1>6. Entry(r, k)' = Entry(r, k)
  BY <1>1, <1>5 DEF Entry
<1>7. Wanted(r, k)' = Wanted(r, k)
  BY <1>1, <1>5 DEF Wanted
<1>8. (NeedsDomain(k)' <=> NeedsDomain(k)) /\ (LooksUp(k)' <=> LooksUp(k)) /\ (InitWrites(k)' <=> InitWrites(k))
  BY <1>1, <1>3 DEF NeedsDomain, LooksUp, InitWrites
<1>9. KindAt(r, k)' = KindAt(r, k)
  BY <1>1, <1>2, <1>3, <1>6 DEF KindAt
<1>10. GidAt(r, k)' = GidAt(r, k) /\ NamesAt(k)' = NamesAt(k)
  BY <1>1 DEF GidAt, NamesAt
<1> QED
  BY <1>2, <1>3, <1>6, <1>7, <1>8, <1>9, <1>10

LEMMA SameHistory ==
  ASSUME program' = program
  PROVE  \A r, s, k, c :
            /\ History(r, s)' <=> History(r, s)
            /\ CacheIs(r, s, c)' <=> CacheIs(r, s, c)
            /\ CounterIs(r, s, k, c)' <=> CounterIs(r, s, k, c)
<1> SUFFICES ASSUME NEW r, NEW s
             PROVE  /\ History(r, s)' <=> History(r, s)
                    /\ \A c : CacheIs(r, s, c)' <=> CacheIs(r, s, c)
                    /\ \A k, c : CounterIs(r, s, k, c)' <=> CounterIs(r, s, k, c)
  OBVIOUS
<1>1. \A k : /\ Entry(r, k)' = Entry(r, k) /\ Wanted(r, k)' = Wanted(r, k)
             /\ NeedsDomain(k)' <=> NeedsDomain(k)
             /\ LooksUp(k)' <=> LooksUp(k)
             /\ InitWrites(k)' <=> InitWrites(k)
             /\ FailsWorld(k)' <=> FailsWorld(k)
             /\ KindAt(r, k)' = KindAt(r, k)
             /\ GidAt(r, k)' = GidAt(r, k) /\ NamesAt(k)' = NamesAt(k)
  BY SameRequests
<1>2. \A k : /\ Writes(s, k)' <=> Writes(s, k)
             /\ Base(r, s, k)' = Base(r, s, k) /\ After(r, s, k)' = After(r, s, k)
             /\ FailedAt(k)' <=> FailedAt(k)
  BY <1>1 DEF Writes, Base, After, FailedAt
<1>3. \A k, j : Last(s, k, j)' <=> Last(s, k, j)
  BY <1>2 DEF Last
<1>4. \A k, i : HitsAt(r, s, k, i)' = HitsAt(r, s, k, i)
  BY <1>1, <1>3 DEF HitsAt
<1>5. \A k : FoundAt(r, s, k)' = FoundAt(r, s, k)
  BY <1>1, <1>4 DEF FoundAt
<1>6. \A k, c : CounterIs(r, s, k, c)' <=> CounterIs(r, s, k, c)
  BY <1>2 DEF CounterIs, NewSelf
<1>7. \A k : CacheSize(s, k)' = CacheSize(s, k)
  BY <1>2 DEF CacheSize
<1>8. \A k : Decided(r, s, k)' <=> Decided(r, s, k)
  BY <1>1, <1>2, <1>5, <1>6, <1>7 DEF Decided
<1>9. SharedUse(r, s)' <=> SharedUse(r, s)
  BY <1>1 DEF SharedUse
<1>10. History(r, s)' <=> History(r, s)
  BY <1>8, <1>9 DEF History
<1>11. \A k : Stored(s, k)' = Stored(s, k)
  BY <1>2 DEF Stored
<1>12. \A c : CacheIs(r, s, c)' <=> CacheIs(r, s, c)
  BY <1>1, <1>3, <1>7, <1>11 DEF CacheIs
<1> QED
  BY <1>6, <1>10, <1>12

LEMMA SameMatches ==
  ASSUME program' = program
  PROVE  \A q, r, s, t, k : Matches(q, r, s, t, k)' <=> Matches(q, r, s, t, k)
<1>1. \A r, k : Entry(r, k)' = Entry(r, k) /\ GidAt(r, k)' = GidAt(r, k)
  BY SameRequests
<1>2. \A r, s, k : Base(r, s, k)' = Base(r, s, k)
  BY <1>1 DEF Base
<1> QED
  BY <1>1, <1>2 DEF Matches

-----------------------------------------------------------------------------
(* A request keeps what is known of its rank.                              *)

LEMMA TakesKeepsHistory ==
  ASSUME NEW r \in Ranks, Ready(r), NEW d, Takes(r, d)
  PROVE  LET t == Append(domain[r], d) IN
         /\ domain'[r] = t /\ Len(t) = At(r) /\ t \in Seq(Domains)
         /\ History(r, t) /\ CacheIs(r, t, commInfo'[r]) /\ CounterIs(r, t, At(r), counter'[r])
<1> SUFFICES ASSUME NEW t, t = Append(domain[r], d)
             PROVE  /\ domain'[r] = t /\ Len(t) = At(r) /\ t \in Seq(Domains)
                    /\ History(r, t) /\ CacheIs(r, t, commInfo'[r]) /\ CounterIs(r, t, At(r), counter'[r])
  OBVIOUS
<1> DEFINE s == domain[r]
           n == Len(s)
           k == At(r)
           c == commInfo[r]
<1>0. /\ n \in Nat /\ k = n + 1 /\ counter[r] \in Nat
      /\ History(r, s) /\ CacheIs(r, s, c)
      /\ CounterIs(r, s, n, counter[r])
      /\ DOMAIN commInfo = Ranks
  BY ReadyFacts DEF At
<1>1. Extends(s, t, d) /\ d \in Domains
  BY ReadyFacts DEF Takes
<1>2. Len(t) = k /\ t[k] = d /\ t \in Seq(Domains) /\ \A j \in 1 .. n : t[j] = s[j]
  <2>1. /\ Len(t) = Len(s) + 1 /\ t[Len(s) + 1] = d /\ t \in Seq(Domains)
        /\ \A j \in 1 .. Len(s) : t[j] = s[j]
    <3>1. Extends(s, t, d)
      BY <1>1
    <3> HIDE DEF s
    <3> QED
      BY <3>1, ExtendsFacts
  <2> HIDE DEF s, k
  <2> QED
    BY <1>0, <2>1
<1>3. domain'[r] = t
  BY DEF Takes, Ready, Types0
<1>4. IsFresh(r, s, d) \/ IsFound(r, s, d)
  BY DEF Takes
<1>5. History(r, t)
  BY <1>0, <1>1, <1>4, HistoryGrows
<1>6. /\ Writes(t, k) => CacheIs(r, t, StoreIn(c, d, Entry(r, k)))
      /\ ~Writes(t, k) => CacheIs(r, t, c)
  <2>1. /\ Writes(t, n + 1) => CacheIs(r, t, StoreIn(c, d, Entry(r, n + 1)))
        /\ ~Writes(t, n + 1) => CacheIs(r, t, c)
    BY <1>0, <1>1, <1>4, CacheGrows
  <2> HIDE DEF k, n
  <2> QED
    BY <1>0, <2>1
<1>7. /\ ~NewSelf(t, k) => CounterIs(r, t, k, counter[r])
      /\ NewSelf(t, k) /\ d.n = LowerBound + counter[r] + GidAt(r, k)
           => CounterIs(r, t, k, counter[r] + NamesAt(k))
  <2>1. /\ ~NewSelf(t, n + 1) => CounterIs(r, t, n + 1, counter[r])
        /\ NewSelf(t, n + 1) /\ d.n = LowerBound + counter[r] + GidAt(r, n + 1)
             => CounterIs(r, t, n + 1, counter[r] + NamesAt(n + 1))
    BY <1>0, <1>1, CounterGrows
  <2> HIDE DEF k, n
  <2> QED
    BY <1>0, <2>1
<1>8. StoresEntry(r, d) => commInfo'[r] = StoreIn(c, d, Entry(r, k))
  BY <1>0 DEF StoresEntry
<1>9. /\ IsFresh(r, s, d) => New(t, k)
      /\ IsFound(r, s, d) => ~New(t, k)
  BY <1>0, <1>1, FreshIsNew, FoundIsNotNew
<1>10. DOMAIN counter = Ranks
  BY DEF Ready, Types0
<1>11. CacheIs(r, t, commInfo'[r]) /\ CounterIs(r, t, k, counter'[r])
  <2>1. CASE IsFresh(r, s, d) /\ StoresEntry(r, d) /\ FreshSelf(r, d)
    <3>1. Writes(t, k) /\ NewSelf(t, k)
      BY <1>2, <1>9, <2>1 DEF Writes, NewSelf, FreshSelf
    <3>2. counter'[r] = counter[r] + NamesAt(k) /\ d.n = LowerBound + counter[r] + GidAt(r, k)
      BY <1>10, <2>1 DEF FreshSelf
    <3> HIDE DEF c, k, n, s
    <3> QED
      BY <1>6, <1>7, <1>8, <2>1, <3>1, <3>2
  <2>2. CASE IsFresh(r, s, d) /\ StoresEntry(r, d) /\ d.kind # "self" /\ counter' = counter
    <3>1. Writes(t, k) /\ ~NewSelf(t, k)
      BY <1>2, <1>9, <2>2 DEF Writes, NewSelf
    <3> HIDE DEF c, k, n, s
    <3> QED
      BY <1>6, <1>7, <1>8, <2>2, <3>1
  <2>3. CASE IsFound(r, s, d) /\ InitWrites(k) /\ StoresEntry(r, d) /\ counter' = counter
    <3>1. Writes(t, k) /\ ~NewSelf(t, k)
      BY <1>9, <2>3 DEF Writes, NewSelf
    <3> HIDE DEF c, k, n, s
    <3> QED
      BY <1>6, <1>7, <1>8, <2>3, <3>1
  <2>4. CASE IsFound(r, s, d) /\ ~InitWrites(k) /\ commInfo' = commInfo /\ counter' = counter
    <3>1. ~Writes(t, k) /\ ~NewSelf(t, k)
      BY <1>9, <2>4 DEF Writes, NewSelf
    <3>2. commInfo'[r] = c
      BY <2>4
    <3> HIDE DEF c, k, n, s
    <3> QED
      BY <1>6, <1>7, <2>4, <3>1, <3>2
  <2> QED
    BY <2>1, <2>2, <2>3, <2>4 DEF Takes
<1> QED
  BY <1>2, <1>3, <1>5, <1>11

LEMMA AgreesNext ==
  ASSUME program' = program, NEW r, History(r, domain'[r]), CacheIs(r, domain'[r], commInfo'[r]),
         CounterIs(r, domain'[r], Len(domain'[r]), counter'[r]),
         global'[r] = GlobalAt(Len(domain'[r]))
  PROVE  Agrees(r)'
<1>1. \A s, k, c : /\ History(r, s)' <=> History(r, s)
                   /\ CacheIs(r, s, c)' <=> CacheIs(r, s, c)
                   /\ CounterIs(r, s, k, c)' <=> CounterIs(r, s, k, c)
                   /\ GlobalAt(k)' <=> GlobalAt(k)
  BY SameHistory, SameRequests
<1>2. /\ History(r, domain[r])'
      /\ CacheIs(r, domain[r], commInfo[r])'
      /\ CounterIs(r, domain[r], Len(domain[r]), counter[r])'
      /\ GlobalAt(Len(domain[r]))' <=> GlobalAt(Len(domain'[r]))
  BY <1>1
<1>3. (global[r] = GlobalAt(Len(domain[r])))'
  <2>1. GlobalAt(Len(domain'[r])) \in BOOLEAN /\ GlobalAt(Len(domain[r]))' \in BOOLEAN
    BY DEF GlobalAt
  <2> QED
    BY <1>2, <2>1
<1> QED
  BY <1>2, <1>3 DEF Agrees

LEMMA RequestFacts ==
  ASSUME IInv, NEW r \in Ranks, Request(r)
  PROVE  /\ Ready(r) /\ Outcome(r) /\ program' = program
         /\ made' = [made EXCEPT ![r] = @ + 1]
         /\ global' \in [Ranks -> BOOLEAN] /\ \A p \in Ranks : p # r => global'[p] = global[p]
         /\ global'[r] <=> GlobalAt(At(r))
         /\ Stops(r) => (GlobalAt(At(r)) <=> GlobalAt(Len(domain[r])))
<1>1. Ready(r) /\ program' = program /\ made' = [made EXCEPT ![r] = @ + 1]
  BY DEF Request, IInv, Ready
<1>2. /\ global \in [Ranks -> BOOLEAN] /\ At(r) = made[r] + 1
      /\ (global[r] <=> GlobalAt(Len(domain[r]))) /\ global[r] \in BOOLEAN
  BY <1>1, ReadyFacts DEF Ready, Types0
<1>3. IF IsInit(At(r)) THEN InitManager(r, Req(At(r))) ELSE GetCommDomain(r, Req(At(r)))
  BY <1>2 DEF Request, Req, IsInit
<1>4. CASE IsInit(At(r))
  BY <1>1, <1>3, <1>4, InitOutcome
<1>5. CASE ~IsInit(At(r))
  BY <1>1, <1>2, <1>3, <1>5, GetOutcome
<1> QED
  BY <1>4, <1>5

LEMMA MatchesItself ==
  ASSUME NEW r, NEW s, NEW k
  PROVE  Matches(r, r, s, s, k)
BY DEF Matches

LEMMA LockstepGrows ==
  ASSUME program \in Programs, NEW p \in Ranks, NEW r \in Ranks, NEW u, NEW s, NEW t, NEW d,
         Extends(s, t, d), History(p, u), History(r, s), History(r, t),
         u \in Seq(Domains), Len(u) <= Len(program.requests),
         \A k \in (1 .. Len(u)) \cap (1 .. Len(s)) : Matches(p, r, u, s, k)
  PROVE  \A k \in (1 .. Len(u)) \cap (1 .. Len(t)) : Matches(p, r, u, t, k) /\ Matches(r, p, t, u, k)
<1> DEFINE n == Len(s)
           m == Len(u)
<1>0. /\ n \in Nat /\ m \in Nat /\ Len(program.requests) \in Nat /\ Len(t) = n + 1
      /\ \A j \in 1 .. n : t[j] = s[j]
      /\ n \in 0 .. Len(program.requests) - 1
      /\ t \in Seq(Domains)
  BY ExtendsFacts
<1>1. \A k \in (1 .. m) \cap (1 .. n) : Matches(p, r, u, s, k)
  OBVIOUS
<1>2. /\ \A k \in 1 .. m : Decided(p, u, k)
      /\ \A k \in 1 .. n + 1 : Decided(r, t, k)
  BY <1>0 DEF History
<1>3. m >= n + 1 => OneGroup(p, u, n) /\ OneGroup(r, t, n)
  <2>1. n <= Len(t) /\ Len(t) <= Len(program.requests) /\ Len(t) \in Nat
    BY <1>0
  <2> HIDE DEF n
  <2>2. OneGroup(r, t, n)
    BY <1>0, <2>1, HistorysGroups
  <2>3. n <= Len(u) => OneGroup(p, u, n)
    BY <1>0, HistorysGroups
  <2> QED
    BY <1>0, <2>2, <2>3
<1>4. \A j \in 1 .. m : u[j] \in Domains
  OBVIOUS
<1>5. \A j \in 1 .. n + 1 : t[j] \in Domains
  BY <1>0
<1> HIDE DEF n, m
<1>6. ASSUME NEW k \in (1 .. m) \cap (1 .. n)
      PROVE  Matches(p, r, u, t, k)
  <2>1. Matches(p, r, u, s, k)
    BY <1>1
  <2>2. (New(s, k) <=> New(t, k)) /\ Base(r, s, k) = Base(r, t, k) /\ s[k] = t[k]
    <3>1. n \in Nat /\ k \in 1 .. n /\ \A j \in 1 .. n : s[j] = t[j]
      BY <1>0
    <3> QED
      BY <3>1, SamePrefix
  <2> QED
    BY <2>1, <2>2 DEF Matches
<1>7. ASSUME m >= n + 1
      PROVE  Matches(p, r, u, t, n + 1)
  <2>1. Matching(p, r, u, t, n)
    BY <1>0, <1>6, <1>7 DEF Matching
  <2>2. /\ u[n + 1] \in Domains /\ t[n + 1] \in Domains
        /\ Decided(p, u, n + 1) /\ Decided(r, t, n + 1)
    BY <1>0, <1>2, <1>4, <1>5, <1>7
  <2> QED
    BY <1>0, <1>3, <1>7, <2>1, <2>2, StepMatches
<1>8. \A k \in (1 .. m) \cap (1 .. n + 1) : Matches(p, r, u, t, k)
  BY <1>0, <1>6, <1>7
<1>9. ASSUME NEW k, Matches(p, r, u, t, k)
      PROVE  Matches(r, p, t, u, k)
  BY <1>9 DEF Matches
<1> QED
  BY <1>0, <1>8, <1>9 DEF m

-----------------------------------------------------------------------------
(* The invariant.                                                          *)

\* The part of the invariant that is about the domains of two ranks, next state.
LEMMA LockstepNext ==
  ASSUME program' = program,
         \A p, q \in Ranks : \A k \in (1 .. Len(domain'[p])) \cap (1 .. Len(domain'[q])) :
             Matches(p, q, domain'[p], domain'[q], k)
  PROVE  Lockstep'
<1>1. \A q, r, s, t, k : Matches(q, r, s, t, k)' <=> Matches(q, r, s, t, k)
  BY SameMatches
<1>2. \A p, q \in Ranks : \A k \in (1 .. Len(domain'[p])) \cap (1 .. Len(domain'[q])) :
          Matches(p, q, domain[p], domain[q], k)'
  BY <1>1
<1> QED
  BY <1>2 DEF Lockstep, Ranks

LEMMA InitHolds == Init => IInv
<1> SUFFICES ASSUME Init
             PROVE  IInv
  OBVIOUS
<1>1. \A r \in Ranks : domain[r] = <<>> /\ commInfo[r] = <<>> /\ counter[r] = 0 /\ global[r] = FALSE
  BY DEF Init
<1>2. Types0
  <2>1. Len(program.requests) \in Nat
    BY ProgramsAssumption DEF Init
  <2> QED
    BY <2>1 DEF Init, Types0
<1>3. 1 .. 0 = {} /\ Len(<<>>) = 0
  OBVIOUS
<1>4. ASSUME NEW r \in Ranks
      PROVE  Agrees(r)
  <2>1. History(r, <<>>)
    BY <1>3 DEF History, FirstIsNew, SharedUse
  <2>2. CacheIs(r, <<>>, <<>>)
    <3>1. \A s : Stored(s, 0) = {} /\ NewUpTo(s, 0) = {}
      BY <1>3 DEF Stored, NewUpTo
    <3>2. ~FailedAt(0)
      BY <1>3 DEF FailedAt
    <3>3. CacheSize(<<>>, 0) = 0
      <4>1. NewUpTo(<<>>, 0) = {}
        BY <3>1
      <4>2. Cardinality(NewUpTo(<<>>, 0)) = 0
        BY <4>1, FS_EmptySet
      <4> QED
        BY <3>2, <4>2 DEF CacheSize
    <3>4. DOMAIN <<>> = {}
      OBVIOUS
    <3> QED
      BY <1>3, <3>1, <3>3, <3>4, FS_EmptySet DEF CacheIs
  <2>3. CounterIs(r, <<>>, 0, 0)
    BY <1>3 DEF CounterIs
  <2>4. GlobalAt(0) = FALSE
    BY <1>3 DEF GlobalAt
  <2> QED
    BY <1>1, <1>3, <2>1, <2>2, <2>3, <2>4 DEF Agrees
<1>5. Lockstep
  BY <1>1, <1>3 DEF Lockstep
<1> QED
  BY <1>2, <1>4, <1>5 DEF IInv

LEMMA RequestKeeps ==
  ASSUME IInv, NEW r \in Ranks, Request(r)
  PROVE  IInv'
<1>1. /\ Ready(r) /\ Outcome(r) /\ program' = program
      /\ made' = [made EXCEPT ![r] = @ + 1]
      /\ global' \in [Ranks -> BOOLEAN] /\ \A p \in Ranks : p # r => global'[p] = global[p]
      /\ global'[r] <=> GlobalAt(At(r))
      /\ Stops(r) => (GlobalAt(At(r)) <=> GlobalAt(Len(domain[r])))
  BY RequestFacts
<1>2. Types0 /\ (\A p \in Ranks : Agrees(p)) /\ Lockstep
  BY DEF IInv
<1>3. /\ program \in Programs /\ Len(program.requests) \in Nat
      /\ Len(domain[r]) = made[r] /\ At(r) = made[r] + 1
      /\ At(r) \in 1 .. Len(program.requests)
      /\ domain[r] \in Seq(Domains) /\ counter[r] \in Nat /\ r \notin stopped
      /\ History(r, domain[r]) /\ CacheIs(r, domain[r], commInfo[r])
      /\ CounterIs(r, domain[r], Len(domain[r]), counter[r])
  BY <1>1, ReadyFacts DEF Ready
<1>4. /\ made \in [Ranks -> Nat] /\ counter \in [Ranks -> Nat] /\ global \in [Ranks -> BOOLEAN]
      /\ domain \in [Ranks -> Seq(Domains)]
      /\ stopped \subseteq Ranks /\ DOMAIN commInfo = Ranks
      /\ \A p \in Ranks : /\ made[p] <= Len(program.requests)
                          /\ Len(domain[p]) = made[p] - (IF p \in stopped THEN 1 ELSE 0)
  BY <1>2 DEF Types0
<1>5. /\ made' \in [Ranks -> Nat] /\ program' \in Programs
      /\ made'[r] = made[r] + 1 /\ made'[r] <= Len(program'.requests)
      /\ \A p \in Ranks : p # r => made'[p] = made[p]
  BY <1>1, <1>3, <1>4
<1>6. \A p \in Ranks : made'[p] <= Len(program'.requests)
  BY <1>1, <1>4, <1>5
<1>7. ASSUME NEW p \in Ranks, domain'[p] = domain[p], commInfo'[p] = commInfo[p], counter'[p] = counter[p],
             global'[p] = global[p]
      PROVE  Agrees(p)'
  <2>1. /\ History(p, domain[p]) /\ CacheIs(p, domain[p], commInfo[p])
        /\ CounterIs(p, domain[p], Len(domain[p]), counter[p])
        /\ global[p] = GlobalAt(Len(domain[p]))
    BY <1>2 DEF Agrees
  <2> QED
    BY <1>1, <1>7, <2>1, AgreesNext
<1>8. CASE Stops(r)
  <2>1. /\ stopped' = stopped \cup {r} /\ domain' = domain /\ commInfo' = commInfo /\ counter' = counter
    BY <1>8 DEF Stops
  <2>2. global'[r] = global[r]
    BY <1>1, <1>3, <1>4, <1>8, ReadyFacts
  <2>3. \A p \in Ranks : global'[p] = global[p]
    BY <1>1, <2>2
  <2>4. Types0'
    <3>1. \A p \in Ranks : Len(domain'[p]) = made'[p] - (IF p \in stopped' THEN 1 ELSE 0)
      BY <1>3, <1>4, <1>5, <2>1
    <3> QED
      BY <1>1, <1>4, <1>5, <1>6, <2>1, <3>1 DEF Types0, Ranks
  <2>5. \A p \in Ranks : Agrees(p)'
    BY <1>7, <2>1, <2>3
  <2>6. Lockstep'
    BY <1>1, <1>2, <2>1, LockstepNext DEF Lockstep
  <2> QED
    BY <2>4, <2>5, <2>6 DEF IInv, Ranks
<1>9. ASSUME NEW d, Takes(r, d)
      PROVE  IInv'
  <2> DEFINE s == domain[r]
             t == Append(s, d)
  <2>1. /\ domain'[r] = t /\ Len(t) = At(r) /\ t \in Seq(Domains)
        /\ History(r, t) /\ CacheIs(r, t, commInfo'[r]) /\ CounterIs(r, t, At(r), counter'[r])
    BY <1>1, <1>9, TakesKeepsHistory
  <2>2. Extends(s, t, d)
    BY <1>1, <1>9, ReadyFacts DEF Takes
  <2>3. /\ domain' = [domain EXCEPT ![r] = t] /\ stopped' = stopped
    BY <1>9 DEF Takes
  <2>4. counter' = counter \/ counter' = [counter EXCEPT ![r] = @ + NamesAt(At(r))]
    BY <1>9 DEF Takes, FreshSelf
  <2>5. commInfo' = commInfo \/ commInfo' = [commInfo EXCEPT ![r] = StoreIn(@, d, Entry(r, At(r)))]
    BY <1>9 DEF Takes, StoresEntry
  <2> HIDE DEF s, t
  <2>6. \A p \in Ranks : p # r => domain'[p] = domain[p] /\ commInfo'[p] = commInfo[p] /\ counter'[p] = counter[p]
    BY <1>4, <2>3, <2>4, <2>5
  <2>7. Types0'
    <3>1. domain' \in [Ranks -> Seq(Domains)]
      BY <1>4, <2>1, <2>3
    <3>2. NamesAt(At(r)) \in Nat
      BY <1>3, GidFacts
    <3>3. counter' \in [Ranks -> Nat]
      BY <1>3, <1>4, <2>4, <3>2
    <3>4. DOMAIN commInfo' = Ranks
      BY <1>4, <2>5
    <3>5. \A p \in Ranks : Len(domain'[p]) = made'[p] - (IF p \in stopped' THEN 1 ELSE 0)
      BY <1>3, <1>4, <1>5, <2>1, <2>3, <2>6
    <3> QED
      BY <1>1, <1>4, <1>5, <1>6, <2>3, <3>1, <3>3, <3>4, <3>5 DEF Types0, Ranks
  <2>8. ASSUME NEW p \in Ranks
        PROVE  Agrees(p)'
    <3>1. CASE p # r
      BY <1>1, <1>7, <2>6, <3>1
    <3>2. CASE p = r
      <4>1. global'[r] = GlobalAt(Len(domain'[r]))
        <5>1. GlobalAt(At(r)) \in BOOLEAN /\ global'[r] \in BOOLEAN
          BY <1>1 DEF GlobalAt
        <5> QED
          BY <1>1, <2>1, <5>1
      <4> QED
        BY <1>1, <2>1, <3>2, <4>1, AgreesNext
    <3> QED
      BY <3>1, <3>2
  <2>9. ASSUME NEW p \in Ranks, p # r
        PROVE  \A k \in (1 .. Len(domain[p])) \cap (1 .. Len(t)) :
                   Matches(p, r, domain[p], t, k) /\ Matches(r, p, t, domain[p], k)
    <3>1. domain[p] \in Seq(Domains) /\ Len(domain[p]) <= Len(program.requests)
      <4>1. /\ domain[p] \in Seq(Domains) /\ made[p] \in Nat /\ made[p] <= Len(program.requests)
            /\ Len(domain[p]) = made[p] \/ Len(domain[p]) = made[p] - 1
        BY <1>4
      <4> QED
        BY <1>3, <4>1
    <3>2. History(p, domain[p])
      BY <1>2 DEF Agrees
    <3>3. \A k \in (1 .. Len(domain[p])) \cap (1 .. Len(s)) : Matches(p, r, domain[p], s, k)
      BY <1>2 DEF Lockstep, s
    <3>4. History(r, s)
      BY <1>3 DEF s
    <3> QED
      BY <1>3, <2>1, <2>2, <3>1, <3>2, <3>3, <3>4, LockstepGrows
  <2>10. Lockstep'
    <3>1. ASSUME NEW p \in Ranks, NEW q \in Ranks, NEW k \in (1 .. Len(domain'[p])) \cap (1 .. Len(domain'[q]))
          PROVE  Matches(p, q, domain'[p], domain'[q], k)
      <4>1. CASE p = q
        BY <4>1, MatchesItself
      <4>2. CASE p # r /\ q = r
        BY <2>1, <2>6, <2>9, <4>2
      <4>3. CASE p = r /\ q # r
        BY <2>1, <2>6, <2>9, <4>3
      <4>4. CASE p # r /\ q # r
        BY <1>2, <2>6, <4>4 DEF Lockstep
      <4> QED
        BY <4>1, <4>2, <4>3, <4>4
    <3> QED
      BY <1>1, <3>1, LockstepNext
  <2> QED
    BY <2>7, <2>8, <2>10 DEF IInv, Ranks
<1> QED
  BY <1>1, <1>8, <1>9 DEF Outcome

LEMMA StutterKeeps ==
  ASSUME IInv, UNCHANGED vars
  PROVE  IInv'
<1>1. /\ program' = program /\ made' = made /\ commInfo' = commInfo /\ counter' = counter
      /\ global' = global /\ domain' = domain /\ stopped' = stopped
  BY DEF vars
<1>2. Types0 /\ (\A p \in Ranks : Agrees(p)) /\ Lockstep
  BY DEF IInv
<1>3. Types0'
  BY <1>1, <1>2 DEF Types0, Ranks
<1>4. ASSUME NEW p \in Ranks
      PROVE  Agrees(p)'
  <2>1. /\ History(p, domain[p]) /\ CacheIs(p, domain[p], commInfo[p])
        /\ CounterIs(p, domain[p], Len(domain[p]), counter[p])
        /\ global[p] = GlobalAt(Len(domain[p]))
    BY <1>2 DEF Agrees
  <2> QED
    BY <1>1, <2>1, AgreesNext
<1>5. Lockstep'
  BY <1>1, <1>2, LockstepNext DEF Lockstep
<1> QED
  BY <1>3, <1>4, <1>5 DEF IInv, Ranks

LEMMA Invariance == Spec => []IInv
<1>1. Init => IInv
  BY InitHolds
<1>2. IInv /\ [Next]_vars => IInv'
  BY RequestKeeps, StutterKeeps DEF Next
<1> QED
  BY <1>1, <1>2, PTL DEF Spec

-----------------------------------------------------------------------------
(* What follows from the invariant.                                        *)

LEMMA RankFacts ==
  ASSUME IInv, NEW r \in Ranks
  PROVE  /\ program \in Programs /\ domain[r] \in Seq(Domains) /\ Len(domain[r]) \in Nat
         /\ DOMAIN domain[r] = 1 .. Len(domain[r])
         /\ Len(program.requests) \in Nat /\ Len(domain[r]) <= Len(program.requests)
         /\ History(r, domain[r])
<1>1. Types0 /\ Agrees(r)
  BY DEF IInv
<1>2. /\ program \in Programs /\ domain[r] \in Seq(Domains) /\ Len(domain[r]) \in Nat
      /\ DOMAIN domain[r] = 1 .. Len(domain[r]) /\ made[r] \in Nat /\ made[r] <= Len(program.requests)
      /\ Len(domain[r]) = made[r] \/ Len(domain[r]) = made[r] - 1
  BY <1>1 DEF Types0
<1>3. Len(program.requests) \in Nat
  BY <1>2, ProgramsAssumption
<1> QED
  BY <1>1, <1>2, <1>3 DEF Agrees

\* A request that got a domain asked for one with its group.
LEMMA GotFacts ==
  ASSUME IInv, NEW r \in Ranks, NEW k, Got(r, k)
  PROVE  /\ k \in 1 .. Len(domain[r]) /\ k \in 1 .. Len(program.requests)
         /\ ~IsInit(k) /\ Req(k) \in GetRequests /\ Req(k).type \in Types
         /\ domain[r][k] # NoDomain /\ domain[r][k] \in Domains
         /\ \A p \in Ranks : Entry(p, k) = GroupInfo(p, Req(k)) /\ IdsAt(p, k) = RankIds[Req(k).type][p]
<1>1. k \in 1 .. Len(domain[r]) /\ domain[r][k] # NoDomain /\ Req(k).op = "Get"
  BY RankFacts DEF Got, Req
<1>2. k \in 1 .. Len(program.requests) /\ program \in Programs /\ domain[r][k] \in Domains
  BY <1>1, RankFacts
<1>3. ~IsInit(k)
  BY <1>1 DEF IsInit
<1>4. Req(k) \in GetRequests /\ Req(k).type \in Types
  BY <1>2, <1>3, RequestType DEF GetRequests
<1> QED
  BY <1>1, <1>2, <1>3, <1>4 DEF Entry, IdsAt

LEMMA TheyMeet == IInv => GroupsMeet
<1> SUFFICES ASSUME IInv, NEW q \in Ranks, NEW r \in Ranks, NEW k \in DOMAIN domain[q] \cap DOMAIN domain[r],
                    Got(q, k), RankIds[program.requests[k].type][q] = RankIds[program.requests[k].type][r]
             PROVE  domain[q][k] = domain[r][k]
  BY DEF GroupsMeet
<1>1. /\ k \in (1 .. Len(domain[q])) \cap (1 .. Len(domain[r])) /\ k \in 1 .. Len(program.requests)
      /\ program \in Programs
  BY RankFacts
<1>2. Matches(q, r, domain[q], domain[r], k)
  BY <1>1 DEF IInv, Lockstep
<1>3. Entry(q, k).rankIds = IdsAt(q, k) /\ Entry(r, k).rankIds = IdsAt(r, k)
  BY <1>1, EntryFacts
<1>4. IdsAt(q, k) = IdsAt(r, k)
  BY GotFacts DEF Req
<1> QED
  BY <1>2, <1>3, <1>4 DEF Matches

LEMMA TypesHold == IInv => TypeOK
<1> SUFFICES ASSUME IInv
             PROVE  TypeOK
  OBVIOUS
<1>1. Types0
  BY DEF IInv
<1>2. ASSUME NEW r \in Ranks, NEW k \in DOMAIN domain[r], domain[r][k].kind = "self"
      PROVE  domain[r][k].n \in LowerBound .. UpperBound - 1
  <2> DEFINE s == domain[r]
  <2>1. /\ k \in 1 .. Len(s) /\ Len(s) \in Nat /\ Len(s) <= Len(program.requests)
        /\ Len(program.requests) \in Nat /\ program \in Programs /\ s \in Seq(Domains)
        /\ FirstIsNew(s) /\ \A j \in 1 .. Len(s) : Decided(r, s, j)
    BY RankFacts DEF History
  <2>2. s[k] # NoDomain
    BY <1>2 DEF NoDomain
  <2> HIDE DEF s
  <2>3. PICK j \in 1 .. k : New(s, j) /\ s[j] = s[k]
    BY <2>1, <2>2 DEF FirstIsNew
  <2>4. j \in 1 .. Len(s) /\ j \in 1 .. Len(program.requests)
    BY <2>1
  <2>5. s[j].kind = "self" /\ Decided(r, s, j) /\ s[j].n \in Nat
    <3>1. s[k].kind = "self"
      BY <1>2 DEF s
    <3>2. s[j] \in Domains /\ Decided(r, s, j)
      BY <2>1, <2>4
    <3> QED
      BY <2>3, <3>1, <3>2 DEF Domains
  <2>6. s[j].n < UpperBound /\ s[j].n - LowerBound - GidAt(r, j) \in Nat
    BY <2>3, <2>5 DEF Decided, Base
  <2>7. GidAt(r, j) \in Nat
    BY <2>1, <2>4, GidFacts
  <2> QED
    BY <2>3, <2>5, <2>6, <2>7, BoundsAssumption DEF s
<1>3. ASSUME NEW r \in Ranks
      PROVE  DOMAIN commInfo[r] \subseteq Domains
  <2>1. DOMAIN commInfo[r] = Stored(domain[r], Len(domain[r]))
    BY DEF IInv, Agrees, CacheIs
  <2>2. \A j \in 1 .. Len(domain[r]) : domain[r][j] \in Domains
    BY RankFacts
  <2> QED
    BY <2>1, <2>2 DEF Stored
<1> QED
  BY <1>1, <1>2, <1>3 DEF TypeOK, Types0

\* The number of a rank's group lies in the interval that its request takes.
LEMMA IntervalsApart ==
  ASSUME NEW n \in Nat, NEW b \in Nat, NEW g \in Nat, NEW h \in Nat, NEW m \in Nat, g < m
  PROVE  ~(n - b - g + m <= n - b - h)
OBVIOUS

\* A self-assigned domain that q came up with in request j and r in request k: by then r
\* had taken the numbers of request j, all ranks' of them, so j is not before k.
LEMMA NotBefore ==
  ASSUME IInv, NEW q \in Ranks, NEW r \in Ranks,
         NEW j \in 1 .. Len(domain[q]), NEW k \in 1 .. Len(domain[r]),
         New(domain[q], j), New(domain[r], k), domain[q][j] = domain[r][k],
         domain[r][k].kind = "self"
  PROVE  ~(j < k)
<1> DEFINE s == domain[q]
           t == domain[r]
<1>1. /\ Len(t) \in Nat /\ Len(t) <= Len(program.requests) /\ Len(program.requests) \in Nat
      /\ program \in Programs /\ t \in Seq(Domains) /\ \A l \in 1 .. Len(t) : Decided(r, t, l)
  BY RankFacts DEF History
<1>2. /\ New(s, j) /\ New(t, k) /\ s[j] = t[k] /\ t[k].kind = "self"
      /\ k \in 1 .. Len(t)
  OBVIOUS
<1>3. j < k => Matches(q, r, s, t, j)
  <2>1. j < k => j \in (1 .. Len(domain[q])) \cap (1 .. Len(domain[r]))
    BY <1>1
  <2> QED
    BY <2>1 DEF IInv, Lockstep
<1>4. j < k => j \in 1 .. Len(t)
  BY <1>1
<1> HIDE DEF s, t
<1> SUFFICES ASSUME j < k
             PROVE  FALSE
  OBVIOUS
<1>5. /\ New(t, j) /\ t[j].kind = "self" /\ Base(q, s, j) = Base(r, t, j)
  BY <1>2, <1>3 DEF Matches
<1>6. After(r, t, j) <= Base(r, t, k)
  <2>1. CounterIs(r, t, k - 1, Base(r, t, k))
    BY <1>1, <1>2 DEF Decided
  <2>2. j \in 1 .. k - 1
    BY <1>1
  <2> QED
    BY <1>5, <2>1, <2>2 DEF CounterIs, NewSelf
<1>7. /\ GidAt(q, j) \in Nat /\ NamesAt(j) \in Nat /\ GidAt(q, j) < NamesAt(j) /\ GidAt(r, k) \in Nat
      /\ GidAt(r, j) \in Nat
  <2>1. j \in 1 .. Len(program.requests) /\ k \in 1 .. Len(program.requests)
    BY <1>1, <1>2, <1>4
  <2> QED
    BY <1>1, <2>1, GidFacts
<1>8. t[k].n \in Nat /\ LowerBound \in Nat
  <2>1. t[k] \in Domains
    BY <1>1, <1>2
  <2> QED
    BY <2>1, BoundsAssumption DEF Domains
<1>9. /\ Base(q, s, j) = t[k].n - LowerBound - GidAt(q, j)
      /\ Base(r, t, k) = t[k].n - LowerBound - GidAt(r, k)
      /\ After(r, t, j) = Base(q, s, j) + NamesAt(j)
  BY <1>2, <1>5 DEF Base, After
<1>10. t[k].n - LowerBound - GidAt(q, j) + NamesAt(j) <= t[k].n - LowerBound - GidAt(r, k)
  <2> DEFINE x == t[k].n - LowerBound - GidAt(q, j) + NamesAt(j)
             y == t[k].n - LowerBound - GidAt(r, k)
  <2>1. After(r, t, j) = x /\ Base(r, t, k) = y
    BY <1>9
  <2> HIDE DEF x, y
  <2>2. x <= y
    BY <1>6, <2>1
  <2> QED
    BY <2>2 DEF x, y
<1> QED
  BY <1>7, <1>8, <1>10, IntervalsApart

LEMMA OneFirst ==
  ASSUME IInv, NEW q \in Ranks, NEW r \in Ranks,
         NEW j \in 1 .. Len(domain[q]), NEW k \in 1 .. Len(domain[r]),
         New(domain[q], j), New(domain[r], k), domain[q][j] = domain[r][k],
         domain[r][k].kind = "self"
  PROVE  j = k /\ IdsAt(q, j) = IdsAt(r, j)
<1>1. ~(j < k) /\ ~(k < j)
  <2>1. ~(j < k)
    BY NotBefore
  <2>2. domain[q][j].kind = "self"
    OBVIOUS
  <2>3. ~(k < j)
    BY <2>2, NotBefore
  <2> QED
    BY <2>1, <2>3
<1>2. j = k
  BY <1>1
<1>3. /\ j \in 1 .. Len(program.requests) /\ program \in Programs
      /\ domain[q][j] \in Domains
  BY RankFacts
<1>4. Base(q, domain[q], j) = Base(r, domain[r], j)
  <2>1. j \in (1 .. Len(domain[q])) \cap (1 .. Len(domain[r]))
    BY <1>2
  <2>2. Matches(q, r, domain[q], domain[r], j)
    BY <2>1 DEF IInv, Lockstep
  <2> QED
    BY <2>2 DEF Matches
<1>5. GidAt(q, j) \in Nat /\ GidAt(r, j) \in Nat
  BY <1>3, GidFacts
<1>6. domain[q][j].n \in Nat /\ LowerBound \in Nat /\ domain[r][j].n = domain[q][j].n
  BY <1>2, <1>3, BoundsAssumption DEF Domains
<1>7. GidAt(q, j) = GidAt(r, j)
  BY <1>4, <1>5, <1>6 DEF Base
<1> QED
  BY <1>2, <1>3, <1>7, SameIds

LEMMA SameDomainSameUse ==
  ASSUME IInv, NEW q \in Ranks, NEW r \in Ranks,
         NEW j \in 1 .. Len(domain[q]), NEW k \in 1 .. Len(domain[r]),
         domain[q][j] = domain[r][k], domain[q][j] # NoDomain,
         q = r \/ domain[q][j].kind = "self"
  PROVE  SameUse(Entry(q, j), Entry(r, k)) /\ (j # k => Entry(q, j).reuse)
<1>1. /\ SharedUse(q, domain[q]) /\ SharedUse(r, domain[r])
      /\ FirstIsNew(domain[q]) /\ FirstIsNew(domain[r])
      /\ Len(domain[q]) \in Nat /\ Len(domain[r]) \in Nat
      /\ Len(domain[q]) <= Len(program.requests) /\ Len(domain[r]) <= Len(program.requests)
      /\ Len(program.requests) \in Nat /\ program \in Programs
  BY RankFacts DEF History
<1>2. CASE q = r
  BY <1>1, <1>2 DEF SharedUse
<1>3. CASE q # r /\ domain[q][j].kind = "self"
  <2>1. PICK i \in 1 .. j : New(domain[q], i) /\ domain[q][i] = domain[q][j]
    BY <1>1 DEF FirstIsNew
  <2>2. PICK l \in 1 .. k : New(domain[r], l) /\ domain[r][l] = domain[r][k]
    BY <1>1 DEF FirstIsNew
  <2>3. i \in 1 .. Len(domain[q]) /\ l \in 1 .. Len(domain[r])
    BY <1>1
  <2>4. i = l /\ IdsAt(q, i) = IdsAt(r, i)
    BY <1>3, <2>1, <2>2, <2>3, OneFirst
  <2>5. /\ i \in 1 .. Len(program.requests) /\ j \in 1 .. Len(program.requests)
        /\ k \in 1 .. Len(program.requests)
    BY <1>1, <2>3
  <2>6. Entry(q, i) = Entry(r, i)
    BY <1>1, <2>4, <2>5, EntryFacts
  <2>7. /\ SameUse(Entry(q, j), Entry(q, i)) /\ (j # i => Entry(q, j).reuse)
        /\ SameUse(Entry(r, i), Entry(r, k)) /\ (i # k => Entry(r, i).reuse)
    BY <1>1, <2>1, <2>2, <2>3, <2>4 DEF SharedUse
  <2>8. IdsAt(q, j) = IdsAt(q, i)
    BY <1>1, <2>5, <2>7, SameUseIsShared
  <2>9. IdsAt(q, j) = IdsAt(r, j)
    <3>1. IdsAt(r, j) = IdsAt(r, i)
      BY <1>1, <2>5, <2>8, SameIds
    <3> QED
      BY <2>4, <2>8, <3>1
  <2>10. Entry(q, j) = Entry(r, j)
    BY <1>1, <2>5, <2>9, EntryFacts
  <2>11. SameUse(Entry(r, j), Entry(r, k))
    BY <1>1, <2>5, <2>6, <2>7, <2>10, SameUseIsShared
  <2> QED
    BY <2>6, <2>7, <2>10, <2>11
<1> QED
  BY <1>2, <1>3

LEMMA NoStrangersDo == IInv => NoStrangersMeet
<1> SUFFICES ASSUME IInv, NEW q \in Ranks, NEW r \in Ranks, NEW j \in DOMAIN domain[q],
                    NEW k \in DOMAIN domain[r], domain[q][j] = domain[r][k],
                    q = r \/ domain[q][j].kind = "self", Got(q, j), Got(r, k)
             PROVE  /\ SameUse(GroupInfo(q, program.requests[j]), GroupInfo(r, program.requests[k]))
                    /\ j # k => program.requests[j].reuse
  BY DEF NoStrangersMeet
<1>1. /\ j \in 1 .. Len(domain[q]) /\ k \in 1 .. Len(domain[r]) /\ domain[q][j] # NoDomain
      /\ j \in 1 .. Len(program.requests) /\ ~IsInit(j)
      /\ Entry(q, j) = GroupInfo(q, Req(j)) /\ Entry(r, k) = GroupInfo(r, Req(k))
  BY GotFacts
<1>2. SameUse(Entry(q, j), Entry(r, k)) /\ (j # k => Entry(q, j).reuse)
  BY <1>1, SameDomainSameUse
<1>3. Entry(q, j).reuse = Req(j).reuse
  <2>1. program \in Programs
    BY RankFacts
  <2>2. Entry(q, j).reuse = ReuseAt(j)
    BY <1>1, <2>1, EntryFacts
  <2> QED
    BY <1>1, <2>2 DEF ReuseAt
<1> QED
  BY <1>1, <1>2, <1>3 DEF Req

-----------------------------------------------------------------------------
(* Reuse.                                                                  *)

\* Requests for groups take no domain away from an entry.
LEMMA KeptEntries ==
  ASSUME NEW s, NEW n \in Nat, NEW j \in 1 .. n + 1, \A l \in j .. n : ~IsInit(l)
  PROVE  /\ \A i \in 1 .. j - 1 : Last(s, n, i) <=> Last(s, j - 1, i)
         /\ \A i \in j .. n : Last(s, n, i) <=> New(s, i)
<1>1. \A l \in j .. n : Writes(s, l) <=> New(s, l)
  BY DEF Writes, InitWrites
<1>2. \A l \in j .. n : New(s, l) => \A i \in 1 .. l - 1 : s[i] # s[l]
  BY DEF New
<1>3. ASSUME NEW i \in 1 .. j - 1
      PROVE  Last(s, n, i) <=> Last(s, j - 1, i)
  <2>1. i + 1 .. n = (i + 1 .. j - 1) \cup (j .. n)
    OBVIOUS
  <2>2. \A l \in j .. n : Writes(s, l) => s[l] # s[i]
    <3>1. \A l \in j .. n : i \in 1 .. l - 1
      OBVIOUS
    <3> QED
      BY <1>1, <1>2, <3>1
  <2> QED
    BY <2>1, <2>2 DEF Last
<1>4. ASSUME NEW i \in j .. n
      PROVE  Last(s, n, i) <=> New(s, i)
  <2>1. \A l \in i + 1 .. n : Writes(s, l) => s[l] # s[i]
    <3>1. \A l \in i + 1 .. n : l \in j .. n /\ i \in 1 .. l - 1
      OBVIOUS
    <3> QED
      BY <1>1, <1>2, <3>1
  <2> QED
    BY <1>1, <2>1 DEF Last
<1> QED
  BY <1>3, <1>4

LEMMA ReusedEntry ==
  ASSUME program \in Programs, NEW r \in Ranks, NEW l \in 1 .. Len(program.requests),
         ~IsInit(l), ReuseAt(l)
  PROVE  Entry(r, l) = Wanted(r, l) /\ LooksUp(l)
<1>1. ReuseAt(l) = Yes
  BY EntryShape DEF Yes
<1>2. BufferAt(l) = BufferSoughtAt(l)
  BY DEF BufferAt, BufferSoughtAt
<1>3. LooksUp(l)
  BY DEF LooksUp, ReuseAt
<1> QED
  BY <1>1, <1>2, <1>3, EntryShape

LEMMA FoundFactsAt ==
  ASSUME NEW r, NEW s, NEW k \in Nat \ {0}, NeedsDomain(k), LooksUp(k)
  PROVE  /\ FoundAt(r, s, k) # NoDomain =>
              \E j \in HitIndices(r, s, k - 1, k) : s[j] = FoundAt(r, s, k)
         /\ FoundAt(r, s, k) = NoDomain <=>
              \/ HitIndices(r, s, k - 1, k) = {}
              \/ \E j \in HitIndices(r, s, k - 1, k) : s[j] = NoDomain
<1> DEFINE n == k - 1
<1>1. n \in Nat /\ n + 1 = k
  OBVIOUS
<1> HIDE DEF n
<1>2. /\ FoundAt(r, s, n + 1) # NoDomain =>
              \E j \in HitIndices(r, s, n, n + 1) : s[j] = FoundAt(r, s, n + 1)
      /\ FoundAt(r, s, n + 1) = NoDomain <=>
              \/ ~NeedsDomain(n + 1) \/ ~LooksUp(n + 1)
              \/ HitIndices(r, s, n, n + 1) = {}
              \/ \E j \in HitIndices(r, s, n, n + 1) : s[j] = NoDomain
  BY <1>1, FoundFacts
<1> QED
  BY <1>1, <1>2 DEF n

LEMMA Refound ==
  ASSUME program \in Programs, NEW r \in Ranks, NEW s, Len(s) \in Nat, Len(program.requests) \in Nat,
         Len(s) <= Len(program.requests), History(r, s),
         NEW j \in 1 .. Len(s), NEW k \in 1 .. Len(s), j < k, s[j] # NoDomain,
         \A l \in j .. k : ~IsInit(l), Req(j) = Req(k), Req(j).reuse,
         \A m \in 1 .. j : FailsWorld(m) => Entry(r, m) # Entry(r, j)
  PROVE  s[k] = s[j]
<1> DEFINE W == Wanted(r, j)
           L == Len(program.requests)
<1>1. /\ \A l \in 1 .. Len(s) : Decided(r, s, l)
      /\ \A l \in 1 .. Len(s) : Writes(s, l) /\ s[l] = NoDomain <=> InitWrites(l) /\ FailsWorld(l)
  BY FailedEntries DEF History
<1>2. /\ j \in 1 .. L /\ k \in 1 .. L /\ ~IsInit(j) /\ ~IsInit(k)
      /\ ReuseAt(j) /\ ReuseAt(k)
  BY DEF ReuseAt
<1>3. /\ Entry(r, j) = W /\ LooksUp(j)
      /\ Wanted(r, k) = W /\ LooksUp(k)
  BY <1>2, ReusedEntry DEF Wanted
<1>4. NeedsDomain(j) /\ NeedsDomain(k)
  <2>1. NeedsDomain(j)
    <3>1. ~NeedsDomain(j) => FoundAt(r, s, j) = NoDomain
      BY DEF FoundAt
    <3> QED
      BY <1>1, <3>1 DEF Decided
  <2> QED
    BY <1>2, <2>1 DEF NeedsDomain
<1>5. /\ FoundAt(r, s, j) = NoDomain <=>
           HitIndices(r, s, j - 1, j) = {} \/ \E m \in HitIndices(r, s, j - 1, j) : s[m] = NoDomain
      /\ FoundAt(r, s, j) # NoDomain =>
           \E m \in HitIndices(r, s, j - 1, j) : s[m] = FoundAt(r, s, j)
  BY <1>3, <1>4, FoundFactsAt
<1>6. \A m \in HitIndices(r, s, j - 1, j) : s[m] # NoDomain
  <2> SUFFICES ASSUME NEW m \in HitIndices(r, s, j - 1, j), s[m] = NoDomain
               PROVE  FALSE
    OBVIOUS
  <2>1. m \in 1 .. j - 1 /\ Last(s, j - 1, m) /\ Entry(r, m) = W
    BY DEF HitIndices
  <2>2. FailsWorld(m)
    <3>1. m \in 1 .. Len(s) /\ Writes(s, m)
      BY <2>1 DEF Last
    <3> QED
      BY <1>1, <3>1
  <2> QED
    BY <1>3, <2>1, <2>2
<1>7. \A n \in j .. k - 1 : /\ \A i \in 1 .. j - 1 : Last(s, n, i) <=> Last(s, j - 1, i)
                            /\ \A i \in j .. n : Last(s, n, i) <=> New(s, i)
  <2> SUFFICES ASSUME NEW n \in j .. k - 1
               PROVE  /\ \A i \in 1 .. j - 1 : Last(s, n, i) <=> Last(s, j - 1, i)
                      /\ \A i \in j .. n : Last(s, n, i) <=> New(s, i)
    OBVIOUS
  <2>1. n \in Nat /\ j \in 1 .. n + 1 /\ \A l \in j .. n : ~IsInit(l)
    OBVIOUS
  <2> QED
    BY <2>1, KeptEntries
<1> DEFINE HitsOf(n) == {i \in 1 .. n : Last(s, n, i) /\ Entry(r, i) = W}
<1>8. HitIndices(r, s, j - 1, j) = HitsOf(j - 1)
  BY DEF HitIndices
<1> HIDE DEF W, HitsOf
\* Request j, if its domain was new, or what it found is found later.
<1>9. ASSUME NEW n \in j .. k - 1
      PROVE  /\ HitsOf(n) # {} /\ \A m \in HitsOf(n) : s[m] # NoDomain
             /\ New(s, j) => j \in HitsOf(n)
  <2>1. ASSUME NEW m \in HitsOf(n)
        PROVE  s[m] # NoDomain
    <3>1. m \in 1 .. n /\ Last(s, n, m) /\ Entry(r, m) = W
      BY DEF HitsOf
    <3>2. CASE m \in j .. n
      BY <1>7, <3>1, <3>2 DEF New
    <3>3. CASE m \in 1 .. j - 1
      BY <1>6, <1>7, <1>8, <3>1, <3>3 DEF HitsOf
    <3> QED
      BY <3>1, <3>2, <3>3
  <2>2. New(s, j) => j \in HitsOf(n)
    BY <1>3, <1>7 DEF HitsOf
  <2>3. ~New(s, j) => HitsOf(n) # {}
    <3> SUFFICES ASSUME ~New(s, j)
                 PROVE  HitsOf(n) # {}
      OBVIOUS
    <3>1. FoundAt(r, s, j) # NoDomain
      BY <1>1 DEF Decided
    <3>2. PICK m \in HitsOf(j - 1) : TRUE
      BY <1>5, <1>8, <3>1
    <3>3. m \in HitsOf(n)
      BY <1>7, <3>2 DEF HitsOf
    <3> QED
      BY <3>3
  <2> QED
    BY <2>1, <2>2, <2>3
\* A later request with this description does not come up with a domain.
<1>10. ASSUME NEW i \in j + 1 .. k - 1, Entry(r, i) = W
       PROVE  ~New(s, i)
  <2>1. i \in 1 .. L /\ i \in 1 .. Len(s) /\ ~IsInit(i) /\ i \in Nat \ {0} /\ i - 1 \in j .. k - 1
    OBVIOUS
  <2>2. ReuseAt(i)
    BY <1>2, <1>10, <2>1, EntryFacts DEF W
  <2>3. Wanted(r, i) = W /\ LooksUp(i)
    BY <1>10, <2>1, <2>2, ReusedEntry
  <2>4. HitIndices(r, s, i - 1, i) = HitsOf(i - 1)
    BY <2>3 DEF HitIndices, HitsOf
  <2>5. FoundAt(r, s, i) # NoDomain \/ ~NeedsDomain(i)
    BY <1>9, <2>1, <2>3, <2>4, FoundFactsAt
  <2> QED
    BY <1>1, <2>1, <2>5 DEF Decided
<1>11. FoundAt(r, s, k) = Choice({s[i] : i \in HitsOf(k - 1)})
  <2>1. HitsAt(r, s, k - 1, Wanted(r, k)) = {s[i] : i \in HitsOf(k - 1)}
    BY <1>3 DEF HitsAt, HitsOf
  <2> QED
    BY <1>3, <1>4, <2>1 DEF FoundAt
<1>12. k - 1 \in j .. k - 1 /\ 1 .. k - 1 = (1 .. j - 1) \cup {j} \cup (j + 1 .. k - 1)
  OBVIOUS
<1>13. FoundAt(r, s, k) = s[j]
  <2>1. CASE New(s, j)
    <3>1. ASSUME NEW i \in 1 .. j - 1
          PROVE  i \notin HitsOf(k - 1)
      <4>1. FoundAt(r, s, j) = NoDomain
        BY <1>1, <2>1 DEF Decided
      <4>2. HitsOf(j - 1) = {}
        BY <1>5, <1>6, <1>8, <4>1
      <4> QED
        BY <1>7, <1>12, <4>2 DEF HitsOf
    <3>2. ASSUME NEW i \in j + 1 .. k - 1
          PROVE  i \notin HitsOf(k - 1)
      BY <1>7, <1>10, <1>12 DEF HitsOf
    <3>3. HitsOf(k - 1) \subseteq 1 .. k - 1
      BY DEF HitsOf
    <3>4. HitsOf(k - 1) = {j}
      BY <1>9, <1>12, <2>1, <3>1, <3>2, <3>3
    <3>5. {s[i] : i \in HitsOf(k - 1)} = {s[j]}
      BY <3>4
    <3> QED
      BY <1>11, <3>5 DEF Choice
  <2>2. CASE ~New(s, j)
    <3>1. HitsOf(k - 1) = HitsOf(j - 1)
      <4>1. j \notin HitsOf(k - 1) /\ \A i \in j + 1 .. k - 1 : i \notin HitsOf(k - 1)
        BY <1>7, <1>10, <1>12, <2>2 DEF HitsOf
      <4>2. \A i \in 1 .. j - 1 : i \in HitsOf(k - 1) <=> i \in HitsOf(j - 1)
        BY <1>7, <1>12 DEF HitsOf
      <4>3. HitsOf(k - 1) \subseteq 1 .. k - 1 /\ HitsOf(j - 1) \subseteq 1 .. j - 1
        BY DEF HitsOf
      <4> QED
        BY <1>12, <4>1, <4>2, <4>3
    <3>2. FoundAt(r, s, j) = Choice({s[i] : i \in HitsOf(j - 1)})
      <4>1. HitsAt(r, s, j - 1, Wanted(r, j)) = {s[i] : i \in HitsOf(j - 1)}
        BY DEF HitsAt, HitsOf, W
      <4> QED
        BY <1>3, <1>4, <4>1 DEF FoundAt
    <3>3. s[j] = FoundAt(r, s, j)
      BY <1>1, <2>2 DEF Decided
    <3> QED
      BY <1>11, <3>1, <3>2, <3>3
  <2> QED
    BY <2>1, <2>2
<1> QED
  BY <1>1, <1>13 DEF Decided

LEMMA TheyAreReused == IInv => GroupsAreReused
<1> SUFFICES ASSUME IInv, NEW r \in Ranks, NEW j \in DOMAIN domain[r], NEW k \in DOMAIN domain[r],
                    j < k, Got(r, j), program.requests[j] = program.requests[k], program.requests[j].reuse,
                    \A l \in j .. k : program.requests[l].op = "Get", ~FailedBefore(r, j)
             PROVE  domain[r][j] = domain[r][k]
  BY DEF GroupsAreReused
<1>1. /\ j \in 1 .. Len(domain[r]) /\ k \in 1 .. Len(domain[r]) /\ domain[r][j] # NoDomain
      /\ Entry(r, j) = GroupInfo(r, Req(j))
  BY RankFacts, GotFacts
<1>2. Req(j) = Req(k) /\ Req(j).reuse /\ \A l \in j .. k : ~IsInit(l)
  BY DEF Req, IsInit
<1>3. ASSUME NEW m \in 1 .. j, FailsWorld(m), Entry(r, m) = Entry(r, j)
      PROVE  FALSE
  <2>1. IsInit(m) /\ Req(m).global = "failed"
    BY <1>3 DEF FailsWorld
  <2>2. InitInfo(Req(m)) = GroupInfo(r, Req(j))
    BY <1>1, <1>3, <2>1 DEF Entry
  <2> QED
    BY <2>1, <2>2 DEF FailedBefore, IsInit, Req
<1> QED
  BY <1>1, <1>2, <1>3, RankFacts, Refound
-----------------------------------------------------------------------------

\* The manager's maps and counters stay what they are meant to be, and the numbers that it
\* assigns itself stay within the range that SetLcclCommDomainRange set.
THEOREM TypeCorrect == Spec => []TypeOK
BY Invariance, TypesHold, PTL

\* The ranks of a group get one name for the same request, however far apart they are in
\* their programs: GetCommDomain and Init need no exchange between the ranks.
THEOREM RanksMeet == Spec => []GroupsMeet
BY Invariance, TheyMeet, PTL

\* Two groups never get the same name, neither on one rank nor on different ones, and no
\* request that asked for a domain of its own shares one (GetSelfAssignedCommDomain's and
\* GetHcclSubCommDomain's numbers never repeat).
THEOREM StrangersStayApart == Spec => []NoStrangersMeet
BY Invariance, NoStrangersDo, PTL

\* The cache is found again: between two calls of Init equal requests of a rank share a domain.
THEOREM GroupsStayShared == Spec => []GroupsAreReused
BY Invariance, TheyAreReused, PTL
=============================================================================
