---------------------- MODULE InternalTensorPoolProofs ----------------------
(***************************************************************************)
(* Model never gives a buffer away while it is needed, whatever the graph  *)
(* and its streams, as long as it is well used: a node reads only what     *)
(* earlier nodes have written, and what a node writes is read, by itself   *)
(* or a later one.  Then the last node of a tensor is a reader, which is   *)
(* what InitTensorMaxNodeMap records, and a tensor that is freed is dead.  *)
(***************************************************************************)
EXTENDS InternalTensorPool, WellFoundedInduction, TLAPS

WrittenFirst(g) == \A n \in Nodes : \A t \in g[n].ins : \E m \in 1 .. n - 1 : t \in g[m].outs
ReadLast(g) == \A m \in Nodes : \A t \in g[m].outs : \E n \in Readers(g, t) : m <= n
WellUsed == WrittenFirst(graph) /\ ReadLast(graph)

Users(t) == {n \in Nodes : t \in graph[n].ins \cup graph[n].outs}
Alive(t, n) == \E m \in Users(t) : n <= m
Running == node \in Nodes
Written(t) == writer[t] # 0
Held == {t \in Tensors : Alive(t, node) /\ (Written(t) \/ t \in Assigned)}

InUseIn(pools, a) ==
  \E s \in Streams : \E i \in DOMAIN pools[s] : pools[s][i].addr = a /\ pools[s][i].used
InUse(a) == InUseIn(internalTensors, a)

EntriesDiffer ==
  \A s, r \in Streams : \A i \in DOMAIN internalTensors[s], j \in DOMAIN internalTensors[r] :
    internalTensors[s][i].addr = internalTensors[r][j].addr => s = r /\ i = j

OutputsWritten == \A n \in 1 .. node - 1 : \A t \in graph[n].outs : Written(t)

HeldApart == \A t, u \in Held : deviceData[t] = deviceData[u] => t = u

HeldInUse == \A t \in Held : InUse(deviceData[t])

(* Written in place are only tensors that hold a buffer of this call.      *)
MadeAreHeld == \A s \in Streams : \A t \in nodeOutTensors[s] : Written(t) \/ t \in Assigned

(* The inputs of the node are where the variant pack has them, which is    *)
(* where they were before the node's outputs got their buffers.            *)
InputsInUse ==
  \A t \in Tensors : (Alive(t, node) /\ Written(t)) =>
    /\ variantIn[t] \in Addresses
    /\ contents[variantIn[t]] = <<t, writer[t]>>
    /\ InUse(variantIn[t])
    /\ \A u \in Assigned \ {t} : deviceData[u] # variantIn[t]
    /\ \A u \in Tensors : (Alive(u, node) /\ Written(u) /\ variantIn[u] = variantIn[t]) => u = t
    /\ t \notin Assigned => variantIn[t] = deviceData[t]

(* A tensor no node writes never gets a buffer.                            *)
UnwrittenHaveNone ==
  \A t \in Tensors : (\A n \in Nodes : t \notin graph[n].outs) => deviceData[t] = Null

(* What a node of this call has read is in a pool.                         *)
ReadFromPool ==
  \A a \in Addresses : readBy[a] # {} => \E s \in Streams : a \in Addrs(internalTensors[s])

(* Who holds a buffer of stream s was written there, and besides nodes of  *)
(* s only readers of its holder have read a buffer.                        *)
HolderIsOf(g, s, reads, t) ==
  /\ \E m \in Nodes : g[m].stream = s /\ t \in g[m].outs
  /\ \A r \in reads : r = s \/ \E n \in Readers(g, t) : g[n].stream = r

ReadWithin(g, pools, held, data, reads) ==
  \A s \in Streams : \A i \in DOMAIN pools[s] :
    /\ ~pools[s][i].used => reads[pools[s][i].addr] \subseteq {s}
    /\ \A t \in held : data[t] = pools[s][i].addr => HolderIsOf(g, s, reads[pools[s][i].addr], t)

ReadHere == ReadWithin(graph, internalTensors, Held, deviceData, readBy)

ToWriteAreOuts == toWrite \subseteq (IF Running THEN graph[node].outs ELSE {})

IInv ==
  /\ TypeOK
  /\ UnwrittenHaveNone
  /\ ToWriteAreOuts
  /\ EntriesDiffer
  /\ Running => /\ OutputsWritten
                /\ HeldApart
                /\ HeldInUse
                /\ MadeAreHeld
                /\ InputsInUse
                /\ ReadFromPool
                /\ LeavesForGood(graph) => ReadHere
-----------------------------------------------------------------------------
(* There is a last user.                                                   *)
LEMMA LargestNode ==
  ASSUME NEW S \in SUBSET Nodes, S # {}
  PROVE  \E n \in S : \A m \in S : m <= n
<1>0. NodeCount \in Nat
  BY NodeCountAssumption
<1> DEFINE T == {k \in Nat : \E n \in S : k = NodeCount - n}
<1>1. T \subseteq Nat /\ T # {}
  <2>1. PICK n \in S : TRUE
    OBVIOUS
  <2>2. NodeCount - n \in T
    BY <1>0, <2>1 DEF Nodes
  <2> QED
    BY <2>2
<1>2. PICK d \in T : \A c \in T : ~(<<c, d>> \in OpToRel(<, Nat))
  BY <1>1, NatLessThanWellFounded, WFMin
<1>3. PICK n \in S : d = NodeCount - n
  BY <1>2
<1>4. ASSUME NEW m \in S
      PROVE  m <= n
  <2>1. m \in Nat /\ n \in Nat /\ NodeCount - m \in Nat /\ NodeCount - n \in Nat
    BY <1>0, <1>3, <1>4 DEF Nodes
  <2>2. NodeCount - m \in T
    BY <2>1, <1>4
  <2>3. ~(<<NodeCount - m, NodeCount - n>> \in OpToRel(<, Nat))
    BY <1>2, <1>3, <2>2
  <2>4. ~(NodeCount - m < NodeCount - n)
    BY <2>1, <2>3 DEF OpToRel
  <2> QED
    BY <1>0, <2>1, <2>4
<1> QED
  BY <1>4

(* Who is used for the last time at a node is read there, and never used   *)
(* after it.                                                               *)
LEMMA LastUse ==
  ASSUME TypeOK, Running, ReadLast(graph), NEW t \in LastUsed, Readers(graph, t) # {}
  PROVE  t \in graph[node].ins /\ ~Alive(t, node + 1)
<1>1. Readers(graph, t) \in SUBSET Nodes
  BY DEF Readers
<1>2. node \in Readers(graph, t) /\ \A m \in Readers(graph, t) : m <= node
  BY <1>1, LargestNode DEF MaxNodeId, LastUsed
<1>3. node \in Nat /\ \A m \in Nodes : m \in Nat
  BY NodeCountAssumption DEF Nodes, TypeOK
<1>4. ASSUME NEW m \in Users(t)
      PROVE  m <= node
  BY <1>1, <1>2, <1>3, <1>4 DEF Users, Readers, ReadLast
<1>5. \A m \in Users(t) : m \in Nat
  BY <1>3 DEF Users
<1> QED
  BY <1>2, <1>3, <1>4, <1>5 DEF Alive, Readers

LEMMA AliveLater ==
  ASSUME TypeOK, Running, NEW t, Alive(t, node + 1)
  PROVE  Alive(t, node)
<1>1. node \in Nat /\ \A m \in Users(t) : m \in Nat
  BY NodeCountAssumption DEF Nodes, TypeOK, Users
<1> QED
  BY <1>1 DEF Alive

LEMMA UsedNow ==
  ASSUME TypeOK, Running, NEW t, t \in graph[node].ins \cup graph[node].outs
  PROVE  Alive(t, node)
<1>1. node \in Nat /\ node \in Users(t)
  BY NodeCountAssumption DEF Nodes, TypeOK, Users, Running
<1> QED
  BY <1>1 DEF Alive

LEMMA GraphType ==
  ASSUME TypeOK, NEW n \in Nodes
  PROVE  graph[n].ins \subseteq Tensors /\ graph[n].outs \subseteq Tensors /\ graph[n].stream \in Streams
BY GraphsAssumption DEF TypeOK, Nodes

-----------------------------------------------------------------------------
(* What the steps do to the pools.                                         *)
LEMMA PoolType ==
  ASSUME TypeOK, NEW s \in Streams
  PROVE  /\ internalTensors[s] \in Seq(Entries)
         /\ DOMAIN internalTensors[s] = 1 .. Len(internalTensors[s]) /\ Len(internalTensors[s]) \in Nat
         /\ \A i \in DOMAIN internalTensors[s] : internalTensors[s][i] \in Entries
<1>1. internalTensors[s] \in Seq(Entries)
  BY DEF TypeOK
<1> QED
  BY <1>1

(* Entries of other streams and the addresses of all stay.                 *)
SameEntries ==
  \A s \in Streams :
    /\ DOMAIN internalTensors'[s] = DOMAIN internalTensors[s]
    /\ \A i \in DOMAIN internalTensors[s] :
         internalTensors'[s][i].addr = internalTensors[s][i].addr

LEMMA AfterOld ==
  ASSUME TypeOK, Running, NEW t \in Tensors, UseOld(t)
  PROVE  \E i \in DOMAIN Pool :
           /\ ~Pool[i].used
           /\ internalTensors' \in [Streams -> Seq(Entries)]
           /\ SameEntries
           /\ \A s \in Streams : \A j \in DOMAIN internalTensors[s] :
                internalTensors'[s][j].used <=>
                  internalTensors[s][j].used \/ (s = Stream /\ j = i)
           /\ deviceData' = [deviceData EXCEPT ![t] = Pool[i].addr]
<1>0. Stream \in Streams /\ Pool \in Seq(Entries) /\ DOMAIN Pool = 1 .. Len(Pool) /\ Len(Pool) \in Nat
  BY GraphType, PoolType DEF Running, Stream, Pool
<1> DEFINE i == CHOOSE i \in Reusable(t) : \A j \in Reusable(t) : i <= j
<1>1. Reusable(t) \subseteq Nat /\ Reusable(t) \subseteq DOMAIN Pool /\ Reusable(t) # {}
  BY <1>0 DEF Reusable, UseOld
<1>2. i \in Reusable(t)
  <2>1. PICK k \in Reusable(t) : \A j \in Reusable(t) : ~(<<j, k>> \in OpToRel(<, Nat))
    BY <1>1, NatLessThanWellFounded, WFMin
  <2>2. ASSUME NEW j \in Reusable(t)
        PROVE  k <= j
    <3>1. j \in Nat /\ k \in Nat
      BY <1>1, <2>2
    <3>2. ~(<<j, k>> \in OpToRel(<, Nat))
      BY <2>1, <2>2
    <3>3. ~(j < k)
      BY <3>1, <3>2 DEF OpToRel
    <3> QED
      BY <3>1, <3>3
  <2>3. \E m \in Reusable(t) : \A j \in Reusable(t) : m <= j
    BY <2>2
  <2> QED
    BY <2>3
<1>3. /\ internalTensors' = [internalTensors EXCEPT ![Stream][i].used = TRUE]
      /\ deviceData' = [deviceData EXCEPT ![t] = Pool[i].addr]
  BY DEF UseOld
<1>4. i \in DOMAIN Pool /\ ~Pool[i].used
  BY <1>1, <1>2 DEF Reusable
<1> HIDE DEF i
<1> DEFINE e == [Pool[i] EXCEPT !.used = TRUE]
           q == [Pool EXCEPT ![i] = e]
<1>5. internalTensors' = [internalTensors EXCEPT ![Stream] = q]
  BY <1>3 DEF Pool
<1>6. e \in Entries /\ e.addr = Pool[i].addr /\ e.used
  <2>1. Pool[i] \in Entries
    BY <1>0, <1>4
  <2> QED
    BY <2>1 DEF Entries
<1> HIDE DEF e
<1>7. q \in Seq(Entries) /\ DOMAIN q = DOMAIN Pool /\ q[i] = e
      /\ \A j \in DOMAIN Pool \ {i} : q[j] = Pool[j]
  BY <1>0, <1>4, <1>6
<1> HIDE DEF q
<1>8. /\ internalTensors'[Stream] = q
      /\ \A s \in Streams \ {Stream} : internalTensors'[s] = internalTensors[s]
      /\ internalTensors' \in [Streams -> Seq(Entries)]
  BY <1>0, <1>5, <1>7 DEF TypeOK
<1>9. SameEntries
  BY <1>6, <1>7, <1>8 DEF SameEntries, Pool
<1>10. \A s \in Streams : \A j \in DOMAIN internalTensors[s] :
         internalTensors'[s][j].used <=> internalTensors[s][j].used \/ (s = Stream /\ j = i)
  BY <1>6, <1>7, <1>8 DEF Pool
<1> QED
  BY <1>3, <1>4, <1>8, <1>9, <1>10

LEMMA AfterNew ==
  ASSUME TypeOK, Running, NEW t \in Tensors, CreateNew(t)
  PROVE  \E a \in FreshAddresses :
           /\ internalTensors' \in [Streams -> Seq(Entries)]
           /\ \A s \in Streams \ {Stream} : internalTensors'[s] = internalTensors[s]
           /\ DOMAIN internalTensors'[Stream] = DOMAIN Pool \cup {Len(Pool) + 1}
           /\ \A j \in DOMAIN Pool : internalTensors'[Stream][j] = Pool[j]
           /\ internalTensors'[Stream][Len(Pool) + 1].addr = a
           /\ internalTensors'[Stream][Len(Pool) + 1].used
           /\ deviceData' = [deviceData EXCEPT ![t] = a]
<1>0. Stream \in Streams /\ Pool \in Seq(Entries) /\ DOMAIN Pool = 1 .. Len(Pool) /\ Len(Pool) \in Nat
  BY GraphType, PoolType DEF Running, Stream, Pool
<1>1. PICK a \in FreshAddresses :
        /\ internalTensors' = [internalTensors EXCEPT
             ![Stream] = Append(@, [addr |-> a, desc |-> desc[t], used |-> TRUE])]
        /\ deviceData' = [deviceData EXCEPT ![t] = a]
  BY DEF CreateNew
<1> DEFINE e == [addr |-> a, desc |-> desc[t], used |-> TRUE]
           q == Append(Pool, e)
<1>2. internalTensors' = [internalTensors EXCEPT ![Stream] = q]
  BY <1>1 DEF Pool
<1>3. e \in Entries /\ e.addr = a /\ e.used
  BY DEF Entries, TypeOK, FreshAddresses
<1> HIDE DEF e
<1>4. /\ q \in Seq(Entries) /\ DOMAIN q = DOMAIN Pool \cup {Len(Pool) + 1}
      /\ \A j \in DOMAIN Pool : q[j] = Pool[j]
      /\ q[Len(Pool) + 1] = e
  BY <1>0, <1>3
<1> HIDE DEF q
<1>5. /\ internalTensors'[Stream] = q
      /\ \A s \in Streams \ {Stream} : internalTensors'[s] = internalTensors[s]
      /\ internalTensors' \in [Streams -> Seq(Entries)]
  BY <1>0, <1>2, <1>4 DEF TypeOK
<1> QED
  BY <1>1, <1>3, <1>4, <1>5

LEMMA AfterFree ==
  ASSUME TypeOK, Running, ExecuteNode
  PROVE  /\ internalTensors' \in [Streams -> Seq(Entries)]
         /\ SameEntries
         /\ \A s \in Streams : \A i \in DOMAIN internalTensors[s] :
              /\ internalTensors'[s][i].used => internalTensors[s][i].used
              /\ (internalTensors[s][i].used /\ ~internalTensors'[s][i].used) =>
                   s = Stream /\ \E u \in LastUsed : deviceData[u] = internalTensors[s][i].addr
              /\ (internalTensors[s][i].used /\ internalTensors'[s][i].used /\ s = Stream) =>
                   \A u \in LastUsed : deviceData[u] # internalTensors[s][i].addr
<1>0. Stream \in Streams /\ Pool \in Seq(Entries) /\ DOMAIN Pool = 1 .. Len(Pool) /\ Len(Pool) \in Nat
  BY GraphType, PoolType DEF Running, Stream, Pool
<1> DEFINE gone(i) == Pool[i].addr \in {deviceData[t] : t \in LastUsed}
           q == [i \in DOMAIN Pool |-> [Pool[i] EXCEPT !.used = @ /\ ~gone(i)]]
<1>1. internalTensors' = [internalTensors EXCEPT ![Stream] = q]
  BY DEF ExecuteNode, FreeInternalTensors
<1>2. \A i \in DOMAIN Pool : gone(i) <=> \E u \in LastUsed : deviceData[u] = Pool[i].addr
  OBVIOUS
<1> HIDE DEF gone
<1>3. ASSUME NEW i \in DOMAIN Pool
      PROVE  q[i] \in Entries /\ q[i].addr = Pool[i].addr /\ q[i].used = (Pool[i].used /\ ~gone(i))
  <2>1. Pool[i] \in Entries
    BY <1>0
  <2>2. q[i] = [Pool[i] EXCEPT !.used = @ /\ ~gone(i)]
    BY <1>3
  <2> QED
    BY <2>1, <2>2 DEF Entries
<1>4. DOMAIN q = DOMAIN Pool /\ q \in Seq(Entries)
  <2>1. DOMAIN q = 1 .. Len(Pool) /\ q = [i \in 1 .. Len(Pool) |-> q[i]]
    BY <1>0
  <2> HIDE DEF q
  <2>2. q \in [1 .. Len(Pool) -> Entries]
    BY <1>0, <1>3, <2>1
  <2>3. q \in Seq(Entries)
    BY <1>0, <2>2
  <2> QED
    BY <1>0, <2>1, <2>3
<1> HIDE DEF q
<1>5. /\ internalTensors'[Stream] = q
      /\ \A s \in Streams \ {Stream} : internalTensors'[s] = internalTensors[s]
      /\ internalTensors' \in [Streams -> Seq(Entries)]
  BY <1>0, <1>1, <1>4 DEF TypeOK
<1>6. SameEntries
  BY <1>3, <1>4, <1>5 DEF SameEntries, Pool
<1>7. ASSUME NEW s \in Streams, NEW i \in DOMAIN internalTensors[s]
      PROVE  /\ internalTensors'[s][i].used => internalTensors[s][i].used
             /\ (internalTensors[s][i].used /\ ~internalTensors'[s][i].used) =>
                  s = Stream /\ \E u \in LastUsed : deviceData[u] = internalTensors[s][i].addr
             /\ (internalTensors[s][i].used /\ internalTensors'[s][i].used /\ s = Stream) =>
                  \A u \in LastUsed : deviceData[u] # internalTensors[s][i].addr
  <2>1. CASE s = Stream
    BY <1>2, <1>3, <1>5, <2>1 DEF Pool
  <2>2. CASE s # Stream
    BY <1>5, <2>2
  <2> QED
    BY <2>1, <2>2
<1> QED
  BY <1>5, <1>6, <1>7

LEMMA TypeKept ==
  ASSUME TypeOK, ToWriteAreOuts, Next
  PROVE  TypeOK'
<1>0. /\ NodeCount \in Nat \ {0}
      /\ \A n \in Nodes : /\ graph[n].ins \subseteq Tensors /\ graph[n].outs \subseteq Tensors
                          /\ graph[n].stream \in Streams
  BY NodeCountAssumption, GraphType
<1>1. CASE ExecuteStart
  <2>1. 1 \in Nodes /\ graph[1].outs \subseteq Tensors
    BY <1>0 DEF Nodes
  <2>2. /\ writer' \in [Tensors -> 0 .. NodeCount]
        /\ internalTensors' \in [Streams -> Seq(Entries)]
        /\ nodeOutTensors' \in [Streams -> SUBSET Tensors]
        /\ readBy' \in [Addresses -> SUBSET Streams]
    BY <1>0, <1>1 DEF ExecuteStart
  <2>3. node' \in 1 .. NodeCount + 1 /\ call' \in 0 .. MaxCalls
    BY <1>0, <1>1, MaxCallsAssumption DEF ExecuteStart, TypeOK
  <2> QED
    BY <1>1, <2>1, <2>2, <2>3 DEF ExecuteStart, TypeOK
<1>2. ASSUME NEW t \in Tensors, MallocInternalTensor(t), Running
      PROVE  TypeOK'
  <2>1. CASE WriteInPlace(t)
    BY <2>1 DEF WriteInPlace, TypeOK
  <2>2. CASE UseOld(t)
    <3>1. PICK i \in DOMAIN Pool : /\ internalTensors' \in [Streams -> Seq(Entries)]
                                   /\ deviceData' = [deviceData EXCEPT ![t] = Pool[i].addr]
      BY <1>2, <2>2, AfterOld
    <3>2. Pool[i].addr \in Addresses
      BY <1>2, GraphType, PoolType DEF Running, Stream, Pool, Entries
    <3> QED
      BY <2>2, <3>1, <3>2 DEF UseOld, TypeOK
  <2>3. CASE CreateNew(t)
    <3>1. PICK a \in Addresses : /\ internalTensors' \in [Streams -> Seq(Entries)]
                                 /\ deviceData' = [deviceData EXCEPT ![t] = a]
      BY <1>2, <2>3, AfterNew DEF FreshAddresses
    <3>2. nodeOutTensors' \in [Streams -> SUBSET Tensors]
      BY <2>3 DEF CreateNew, TypeOK
    <3> QED
      BY <2>3, <3>1, <3>2 DEF CreateNew, TypeOK
  <2> QED
    BY <1>2, <2>1, <2>2, <2>3 DEF MallocInternalTensor
<1>3. CASE ExecuteNode
  <2>1. Running /\ graph[node].outs \subseteq Tensors /\ node \in 0 .. NodeCount /\ Stream \in Streams
    BY <1>0, <1>3 DEF ExecuteNode, Nodes, Running, Stream
  <2>2. internalTensors' \in [Streams -> Seq(Entries)]
    BY <1>3, <2>1, AfterFree
  <2>3. contents' \in [Addresses -> (Tensors \cup {Null}) \X (0 .. NodeCount)]
    <3>1. ASSUME NEW a \in Addresses, \E t \in graph[node].outs : deviceData[t] = a
          PROVE  (CHOOSE t \in graph[node].outs : deviceData[t] = a) \in Tensors
      BY <2>1, <3>1
    <3> QED
      BY <1>3, <2>1, <3>1 DEF ExecuteNode, TypeOK
  <2>4. writer' \in [Tensors -> 0 .. NodeCount]
    BY <1>3, <2>1 DEF ExecuteNode, TypeOK
  <2>5. readBy' \in [Addresses -> SUBSET Streams]
    BY <1>3, <2>1 DEF ExecuteNode, TypeOK
  <2>6. node' \in 1 .. NodeCount + 1 /\ toWrite' \subseteq Tensors
    BY <1>0, <1>3, <2>1 DEF ExecuteNode, Nodes
  <2> QED
    BY <1>3, <2>2, <2>3, <2>4, <2>5, <2>6 DEF ExecuteNode, TypeOK
<1>4. ASSUME NEW t \in Tensors, MallocInternalTensor(t)
      PROVE  Running
  BY <1>4 DEF MallocInternalTensor, ToWriteAreOuts
<1> QED
  BY <1>1, <1>2, <1>3, <1>4 DEF Next

-----------------------------------------------------------------------------
(* The steps.                                                              *)
LEMMA StartKeeps ==
  ASSUME IInv, ExecuteStart
  PROVE  IInv'
<1>0. NodeCount \in Nat \ {0} /\ 1 \in Nodes /\ TypeOK
  BY NodeCountAssumption DEF Nodes, IInv
<1>1. TypeOK'
  BY TypeKept DEF Next, IInv
<1>2. /\ node' = 1 /\ toWrite' = graph[1].outs
      /\ internalTensors' = [s \in Streams |-> <<>>] /\ nodeOutTensors' = [s \in Streams |-> {}]
      /\ readBy' = [a \in Addresses |-> {}]
      /\ writer' = [t \in Tensors |-> 0]
      /\ UNCHANGED <<graph, deviceData>>
  BY DEF ExecuteStart
<1>3. UnwrittenHaveNone'
  BY <1>2 DEF IInv, UnwrittenHaveNone
<1>4. Held' = {} /\ (\A t \in Tensors : ~Written(t)') /\ OutputsWritten'
  BY <1>0, <1>2 DEF Held, Assigned, Written, OutputsWritten
<1>5. EntriesDiffer' /\ ReadHere' /\ ReadFromPool' /\ MadeAreHeld'
  BY <1>2 DEF EntriesDiffer, ReadHere, ReadWithin, ReadFromPool, MadeAreHeld
<1>6. HeldApart' /\ HeldInUse' /\ InputsInUse'
  BY <1>4 DEF HeldApart, HeldInUse, InputsInUse
<1>7. ToWriteAreOuts'
  BY <1>0, <1>2 DEF ToWriteAreOuts, Running, Nodes
<1> QED
  BY <1>1, <1>3, <1>4, <1>5, <1>6, <1>7 DEF IInv

(* A buffer for t changes what is assigned, and nothing of what is alive.  *)
LEMMA MallocFrame ==
  ASSUME IInv, NEW t \in Tensors, MallocInternalTensor(t)
  PROVE  /\ Running /\ t \in graph[node].outs /\ t \in toWrite /\ Alive(t, node)
         /\ UNCHANGED <<graph, desc, call, node, variantIn, readBy, contents, writer>>
         /\ toWrite' = toWrite \ {t} /\ Assigned' = Assigned \cup {t} /\ t \notin Assigned
         /\ (\A u : Alive(u, node)' <=> Alive(u, node))
         /\ Held' = Held \cup {t}
         /\ OutputsWritten' /\ ToWriteAreOuts' /\ (LeavesForGood(graph)' <=> LeavesForGood(graph))
<1>1. /\ t \in toWrite /\ toWrite' = toWrite \ {t}
      /\ UNCHANGED <<graph, desc, call, node, variantIn, readBy, contents, writer>>
  BY DEF MallocInternalTensor, WriteInPlace, UseOld, CreateNew
<1>2. Running /\ t \in graph[node].outs /\ TypeOK
  BY <1>1 DEF IInv, ToWriteAreOuts
<1>3. Alive(t, node)
  BY <1>2, UsedNow
<1>4. Assigned' = Assigned \cup {t} /\ t \notin Assigned
  BY <1>1, <1>2 DEF Assigned, Running
<1>5. \A u : Alive(u, node)' <=> Alive(u, node)
  BY <1>1 DEF Alive, Users
<1>6. Held' = Held \cup {t}
  BY <1>1, <1>3, <1>4, <1>5 DEF Held, Written
<1>7. OutputsWritten' /\ ToWriteAreOuts'
  BY <1>1, <1>2 DEF IInv, OutputsWritten, Written, ToWriteAreOuts, Running
<1>8. LeavesForGood(graph)' <=> LeavesForGood(graph)
  BY <1>1 DEF LeavesForGood, MaxNodeId, Readers
<1> QED
  BY <1>1, <1>2, <1>3, <1>4, <1>5, <1>6, <1>7, <1>8

LEMMA InPlaceKeeps ==
  ASSUME IInv, NEW t \in Tensors, MallocInternalTensor(t), WriteInPlace(t)
  PROVE  IInv'
<1>1. /\ Running /\ t \in graph[node].outs /\ t \in toWrite /\ Alive(t, node)
      /\ UNCHANGED <<graph, desc, call, node, variantIn, readBy, contents, writer>>
      /\ toWrite' = toWrite \ {t} /\ Assigned' = Assigned \cup {t} /\ t \notin Assigned
      /\ (\A u : Alive(u, node)' <=> Alive(u, node))
      /\ Held' = Held \cup {t}
      /\ OutputsWritten' /\ ToWriteAreOuts' /\ (LeavesForGood(graph)' <=> LeavesForGood(graph))
  BY MallocFrame
<1>2. /\ TypeOK /\ TypeOK' /\ HeldApart /\ HeldInUse /\ MadeAreHeld /\ InputsInUse
      /\ ReadFromPool /\ (LeavesForGood(graph) => ReadHere) /\ EntriesDiffer /\ UnwrittenHaveNone
  BY <1>1, TypeKept DEF IInv, Next
<1>3. /\ UNCHANGED <<internalTensors, nodeOutTensors, deviceData>>
      /\ t \in nodeOutTensors[Stream] /\ Stream \in Streams
  BY <1>1, <1>2, GraphType DEF WriteInPlace, Running, Stream
<1>4. Written(t) /\ t \in Held /\ Held' = Held
  BY <1>1, <1>2, <1>3 DEF MadeAreHeld, Held
<1>5. HeldApart' /\ HeldInUse' /\ EntriesDiffer' /\ UnwrittenHaveNone' /\ MadeAreHeld' /\ ReadFromPool'
  BY <1>1, <1>2, <1>3, <1>4 DEF HeldApart, HeldInUse, InUse, InUseIn, EntriesDiffer, UnwrittenHaveNone,
     MadeAreHeld, ReadFromPool, Addrs, Written
<1>6. InputsInUse'
  <2> SUFFICES ASSUME NEW u \in Tensors, Alive(u, node), Written(u)
               PROVE  /\ variantIn[u] \in Addresses
                      /\ contents[variantIn[u]] = <<u, writer[u]>>
                      /\ InUse(variantIn[u])
                      /\ \A v \in (Assigned \cup {t}) \ {u} : deviceData[v] # variantIn[u]
                      /\ \A v \in Tensors : (Alive(v, node) /\ Written(v) /\ variantIn[v] = variantIn[u]) => v = u
                      /\ u \notin Assigned \cup {t} => variantIn[u] = deviceData[u]
    BY <1>1, <1>3 DEF InputsInUse, Written, InUse, InUseIn, Alive, Users
  <2>1. variantIn[t] = deviceData[t]
    BY <1>1, <1>2, <1>4 DEF InputsInUse
  <2> QED
    BY <1>1, <1>2, <1>4, <2>1 DEF InputsInUse
<1>7. LeavesForGood(graph)' => ReadHere'
  <2> SUFFICES ASSUME ReadHere
               PROVE  ReadHere'
    BY <1>1, <1>2
  <2> QED
    BY <1>1, <1>3, <1>4 DEF ReadHere
<1> QED
  BY <1>1, <1>2, <1>5, <1>6, <1>7 DEF IInv

(* Another buffer, that nobody uses.                                       *)
LEMMA GivenKeeps ==
  ASSUME IInv, NEW t \in Tensors, MallocInternalTensor(t), NEW a,
         deviceData' = [deviceData EXCEPT ![t] = a],
         ~InUse(a), InUseIn(internalTensors', a),
         \A b : InUse(b) => InUseIn(internalTensors', b),
         nodeOutTensors' \in {nodeOutTensors, [nodeOutTensors EXCEPT ![Stream] = @ \cup {t}]}
  PROVE  HeldApart' /\ HeldInUse' /\ InputsInUse' /\ MadeAreHeld' /\ UnwrittenHaveNone'
<1>1. /\ Running /\ t \in graph[node].outs /\ t \in toWrite /\ Alive(t, node)
      /\ UNCHANGED <<graph, desc, call, node, variantIn, readBy, contents, writer>>
      /\ toWrite' = toWrite \ {t} /\ Assigned' = Assigned \cup {t} /\ t \notin Assigned
      /\ (\A u : Alive(u, node)' <=> Alive(u, node))
      /\ Held' = Held \cup {t}
  BY MallocFrame
<1>2. /\ TypeOK /\ HeldApart /\ HeldInUse /\ MadeAreHeld /\ InputsInUse /\ UnwrittenHaveNone
  BY <1>1 DEF IInv
<1>3. deviceData'[t] = a /\ \A u \in Tensors \ {t} : deviceData'[u] = deviceData[u]
  BY <1>2 DEF TypeOK
<1>4. Held \subseteq Tensors /\ \A u \in Held : deviceData[u] # a
  BY <1>2 DEF Held, HeldInUse
<1>5. HeldApart'
  BY <1>1, <1>2, <1>3, <1>4 DEF HeldApart
<1>6. HeldInUse'
  BY <1>1, <1>2, <1>3, <1>4 DEF HeldInUse, InUse
<1>7. InputsInUse'
  <2> SUFFICES ASSUME NEW u \in Tensors, Alive(u, node), Written(u)
               PROVE  /\ variantIn[u] \in Addresses
                      /\ contents[variantIn[u]] = <<u, writer[u]>>
                      /\ InUseIn(internalTensors', variantIn[u])
                      /\ \A v \in (Assigned \cup {t}) \ {u} : deviceData'[v] # variantIn[u]
                      /\ \A v \in Tensors : (Alive(v, node) /\ Written(v) /\ variantIn[v] = variantIn[u]) => v = u
                      /\ u \notin Assigned \cup {t} => variantIn[u] = deviceData'[u]
    BY <1>1 DEF InputsInUse, Written, InUse, Alive, Users
  <2>1. Assigned \subseteq Tensors
    BY <1>1, <1>2, GraphType DEF Assigned, Running
  <2>2. InUse(variantIn[u]) /\ variantIn[u] # a
    BY <1>2 DEF InputsInUse
  <2> QED
    BY <1>2, <1>3, <2>1, <2>2 DEF InputsInUse
<1>8. MadeAreHeld'
  <2> SUFFICES ASSUME NEW s \in Streams, NEW u \in nodeOutTensors'[s], u # t
               PROVE  Written(u) \/ u \in Assigned
    BY <1>1 DEF MadeAreHeld, Written
  <2>1. CASE nodeOutTensors' = nodeOutTensors
    BY <1>2, <2>1 DEF MadeAreHeld
  <2>2. CASE nodeOutTensors' = [nodeOutTensors EXCEPT ![Stream] = @ \cup {t}]
    <3>1. u \in nodeOutTensors[s]
      BY <1>2, <2>2 DEF TypeOK
    <3> QED
      BY <1>2, <3>1 DEF MadeAreHeld
  <2> QED
    BY <2>1, <2>2
<1>9. UnwrittenHaveNone'
  BY <1>1, <1>2, <1>3 DEF UnwrittenHaveNone, Running
<1> QED
  BY <1>5, <1>6, <1>7, <1>8, <1>9

LEMMA OldKeeps ==
  ASSUME IInv, NEW t \in Tensors, MallocInternalTensor(t), UseOld(t)
  PROVE  IInv'
<1>1. /\ Running /\ t \in graph[node].outs /\ t \in toWrite /\ Alive(t, node)
      /\ UNCHANGED <<graph, desc, call, node, variantIn, readBy, contents, writer>>
      /\ Assigned' = Assigned \cup {t}
      /\ Held' = Held \cup {t}
      /\ OutputsWritten' /\ ToWriteAreOuts' /\ (LeavesForGood(graph)' <=> LeavesForGood(graph))
  BY MallocFrame
<1>2. /\ TypeOK /\ TypeOK' /\ ReadFromPool /\ (LeavesForGood(graph) => ReadHere) /\ EntriesDiffer
  BY <1>1, TypeKept DEF IInv, Next
<1>3. PICK i \in DOMAIN Pool :
        /\ ~Pool[i].used
        /\ SameEntries
        /\ \A s \in Streams : \A j \in DOMAIN internalTensors[s] :
             internalTensors'[s][j].used <=> internalTensors[s][j].used \/ (s = Stream /\ j = i)
        /\ deviceData' = [deviceData EXCEPT ![t] = Pool[i].addr]
  BY <1>1, <1>2, AfterOld
<1> DEFINE a == Pool[i].addr
<1>4. Stream \in Streams /\ Pool = internalTensors[Stream]
  BY <1>1, <1>2, GraphType DEF Running, Stream, Pool
<1>5. ~InUse(a)
  BY <1>2, <1>3, <1>4 DEF InUse, InUseIn, EntriesDiffer
<1>6. InUseIn(internalTensors', a)
  BY <1>3, <1>4 DEF InUseIn, SameEntries
<1>7. \A b : InUse(b) => InUseIn(internalTensors', b)
  BY <1>3, <1>4 DEF InUse, InUseIn, SameEntries
<1>8. nodeOutTensors' = nodeOutTensors
  BY DEF UseOld
<1>9. HeldApart' /\ HeldInUse' /\ InputsInUse' /\ MadeAreHeld' /\ UnwrittenHaveNone'
  BY <1>3, <1>5, <1>6, <1>7, <1>8, GivenKeeps
<1>10. EntriesDiffer'
  BY <1>2, <1>3 DEF EntriesDiffer, SameEntries
<1>11. ReadFromPool'
  BY <1>1, <1>2, <1>3 DEF ReadFromPool, Addrs, SameEntries
<1>12. LeavesForGood(graph)' => ReadHere'
  <2> SUFFICES ASSUME ReadHere
               PROVE  ReadWithin(graph, internalTensors', Held \cup {t}, deviceData', readBy)
    BY <1>1, <1>2 DEF ReadHere
  <2> SUFFICES ASSUME NEW s \in Streams, NEW j \in DOMAIN internalTensors[s]
               PROVE  LET e == internalTensors[s][j] IN
                      /\ ~internalTensors'[s][j].used => readBy[e.addr] \subseteq {s}
                      /\ \A u \in Held \cup {t} :
                           deviceData'[u] = e.addr => HolderIsOf(graph, s, readBy[e.addr], u)
    BY <1>3 DEF ReadWithin, SameEntries
  <2> DEFINE e == internalTensors[s][j]
  <2>1. ~internalTensors'[s][j].used => readBy[e.addr] \subseteq {s}
    BY <1>3 DEF ReadHere, ReadWithin
  <2>2. ASSUME NEW u \in Held \cup {t}, deviceData'[u] = e.addr
        PROVE  HolderIsOf(graph, s, readBy[e.addr], u)
    <3>1. CASE u = t
      <4>1. deviceData'[t] = a
        BY <1>2, <1>3 DEF TypeOK
      <4>2. s = Stream /\ j = i
        BY <1>2, <1>3, <1>4, <2>2, <3>1, <4>1 DEF EntriesDiffer
      <4>3. readBy[e.addr] \subseteq {s}
        BY <1>3, <1>4, <4>2 DEF ReadHere, ReadWithin
      <4> QED
        BY <1>1, <3>1, <4>2, <4>3 DEF HolderIsOf, Running, Stream
    <3>2. CASE u # t
      <4>1. u \in Held /\ deviceData[u] = e.addr
        BY <1>2, <1>3, <2>2, <3>2 DEF TypeOK, Held
      <4> QED
        BY <4>1 DEF ReadHere, ReadWithin
    <3> QED
      BY <3>1, <3>2
  <2> QED
    BY <2>1, <2>2
<1> QED
  BY <1>1, <1>2, <1>9, <1>10, <1>11, <1>12 DEF IInv

LEMMA NewKeeps ==
  ASSUME IInv, NEW t \in Tensors, MallocInternalTensor(t), CreateNew(t)
  PROVE  IInv'
<1>1. /\ Running /\ t \in graph[node].outs /\ t \in toWrite /\ Alive(t, node)
      /\ UNCHANGED <<graph, desc, call, node, variantIn, readBy, contents, writer>>
      /\ Assigned' = Assigned \cup {t}
      /\ Held' = Held \cup {t}
      /\ OutputsWritten' /\ ToWriteAreOuts' /\ (LeavesForGood(graph)' <=> LeavesForGood(graph))
  BY MallocFrame
<1>2. /\ TypeOK /\ TypeOK' /\ ReadFromPool /\ (LeavesForGood(graph) => ReadHere) /\ EntriesDiffer
      /\ HeldInUse
  BY <1>1, TypeKept DEF IInv, Next
<1> DEFINE new == Len(Pool) + 1
           after == internalTensors'
<1>3. PICK a \in FreshAddresses :
        /\ \A s \in Streams \ {Stream} : after[s] = internalTensors[s]
        /\ DOMAIN after[Stream] = DOMAIN Pool \cup {new}
        /\ \A j \in DOMAIN Pool : after[Stream][j] = Pool[j]
        /\ after[Stream][new].addr = a
        /\ after[Stream][new].used
        /\ deviceData' = [deviceData EXCEPT ![t] = a]
  BY <1>1, <1>2, AfterNew
<1>4. Stream \in Streams /\ Pool = internalTensors[Stream]
  BY <1>1, <1>2, GraphType DEF Running, Stream, Pool
<1>5. new \notin DOMAIN Pool
  BY <1>2, <1>4, PoolType
<1> HIDE DEF new
<1>6. \A s \in Streams : a \notin Addrs(internalTensors[s])
  BY <1>3 DEF FreshAddresses
<1>7. \A s \in Streams : \A j \in DOMAIN internalTensors[s] :
        internalTensors[s][j].addr # a /\ j \in DOMAIN after[s] /\ after[s][j] = internalTensors[s][j]
  BY <1>3, <1>4, <1>6 DEF Addrs
<1>8. \A s \in Streams : \A j \in DOMAIN after[s] :
        (s = Stream /\ j = new) \/ j \in DOMAIN internalTensors[s]
  BY <1>3, <1>4
<1>9. ~InUse(a)
  BY <1>7 DEF InUse, InUseIn
<1>10. InUseIn(after, a)
  BY <1>3, <1>4 DEF InUseIn
<1>11. \A b : InUse(b) => InUseIn(after, b)
  BY <1>7 DEF InUse, InUseIn
<1>12. nodeOutTensors' = [nodeOutTensors EXCEPT ![Stream] = @ \cup {t}]
  BY DEF CreateNew
<1>13. HeldApart' /\ HeldInUse' /\ InputsInUse' /\ MadeAreHeld' /\ UnwrittenHaveNone'
  BY <1>3, <1>9, <1>10, <1>11, <1>12, GivenKeeps
<1>14. EntriesDiffer'
  <2> SUFFICES ASSUME NEW s \in Streams, NEW r \in Streams, NEW i \in DOMAIN after[s], NEW j \in DOMAIN after[r],
                      after[s][i].addr = after[r][j].addr
               PROVE  s = r /\ i = j
    BY DEF EntriesDiffer
  <2> QED
    BY <1>2, <1>3, <1>7, <1>8 DEF EntriesDiffer
<1>15. ReadFromPool'
  <2> SUFFICES ASSUME NEW b \in Addresses, readBy[b] # {}
               PROVE  \E s \in Streams : b \in Addrs(after[s])
    BY <1>1 DEF ReadFromPool, Addrs
  <2>1. PICK s \in Streams : b \in Addrs(internalTensors[s])
    BY <1>2 DEF ReadFromPool
  <2> QED
    BY <1>7, <2>1 DEF Addrs
<1>16. readBy[a] = {}
  BY <1>2, <1>3, <1>6 DEF ReadFromPool, FreshAddresses
<1>17. LeavesForGood(graph)' => ReadHere'
  <2> SUFFICES ASSUME ReadHere
               PROVE  ReadWithin(graph, after, Held \cup {t}, deviceData', readBy)
    BY <1>1, <1>2 DEF ReadHere
  <2> SUFFICES ASSUME NEW s \in Streams, NEW j \in DOMAIN after[s]
               PROVE  /\ ~after[s][j].used => readBy[after[s][j].addr] \subseteq {s}
                      /\ \A u \in Held \cup {t} : deviceData'[u] = after[s][j].addr =>
                           HolderIsOf(graph, s, readBy[after[s][j].addr], u)
    BY DEF ReadWithin
  <2>0. /\ deviceData'[t] = a
        /\ \A u \in Held \ {t} : deviceData'[u] = deviceData[u] /\ deviceData[u] # a
    BY <1>2, <1>3, <1>9 DEF TypeOK, Held, HeldInUse
  <2>1. CASE s = Stream /\ j = new
    BY <1>1, <1>3, <1>16, <2>0, <2>1 DEF HolderIsOf, Running, Stream
  <2>2. CASE j \in DOMAIN internalTensors[s]
    BY <1>7, <2>0, <2>2 DEF ReadHere, ReadWithin
  <2> QED
    BY <1>8, <2>1, <2>2
<1> QED
  BY <1>1, <1>2, <1>13, <1>14, <1>15, <1>17 DEF IInv

(* Who is freed at a node held a buffer and is dead after it.              *)
LEMMA FreedAreDead ==
  ASSUME IInv, Running, WellUsed, NEW u \in LastUsed, deviceData[u] # Null
  PROVE  u \in Held /\ ~Alive(u, node + 1) /\ Readers(graph, u) # {}
<1>1. TypeOK /\ OutputsWritten /\ UnwrittenHaveNone /\ u \in Tensors
  BY DEF IInv, LastUsed
<1>2. Readers(graph, u) # {}
  BY <1>1 DEF UnwrittenHaveNone, WellUsed, ReadLast
<1>3. u \in graph[node].ins /\ ~Alive(u, node + 1)
  BY <1>1, <1>2, LastUse DEF WellUsed
<1>4. Alive(u, node)
  BY <1>1, <1>3, UsedNow
<1>5. Written(u)
  BY <1>1, <1>3 DEF WellUsed, WrittenFirst, OutputsWritten, Running
<1> QED
  BY <1>1, <1>2, <1>3, <1>4, <1>5 DEF Held

(* What the node reads and writes, as its inputs and outputs are used.     *)
LEMMA NodeTensors ==
  ASSUME IInv, Running, toWrite = {}, WellUsed
  PROVE  /\ \A t \in graph[node].ins : t \in Tensors /\ Alive(t, node) /\ Written(t) /\ t \in Held
         /\ \A t \in graph[node].outs : t \in Tensors /\ t \in Held
         /\ Assigned = graph[node].outs
<1>1. TypeOK /\ OutputsWritten /\ Assigned = graph[node].outs
  BY DEF IInv, Assigned, Running
<1>2. ASSUME NEW t \in graph[node].ins \cup graph[node].outs
      PROVE  t \in Tensors /\ Alive(t, node)
  BY <1>1, UsedNow, GraphType DEF Running
<1>3. \A t \in graph[node].ins : Written(t)
  BY <1>1 DEF WellUsed, WrittenFirst, OutputsWritten, Running
<1> QED
  BY <1>1, <1>2, <1>3 DEF Held

LEMMA ExecuteKeepsReads ==
  ASSUME IInv, ExecuteNode, WellUsed, LeavesForGood(graph)
  PROVE  ReadWithin(graph, internalTensors', Held, deviceData, readBy')
<1>1. TypeOK /\ EntriesDiffer /\ Running /\ toWrite = {} /\ HeldApart /\ InputsInUse /\ ReadHere
  BY DEF IInv, ExecuteNode, Running
<1>2. Stream \in Streams
  BY <1>1, GraphType DEF Stream, Running
<1>3. \A a \in Addresses : readBy'[a] =
        IF \E t \in graph[node].ins : variantIn[t] = a THEN readBy[a] \cup {Stream} ELSE readBy[a]
  BY DEF ExecuteNode
<1> SUFFICES ASSUME NEW s \in Streams, NEW i \in DOMAIN internalTensors[s]
             PROVE  LET a == internalTensors[s][i].addr IN
                    /\ ~internalTensors'[s][i].used => readBy'[a] \subseteq {s}
                    /\ \A u \in Held : deviceData[u] = a => HolderIsOf(graph, s, readBy'[a], u)
  <2>1. SameEntries
    BY <1>1, AfterFree
  <2> QED
    BY <2>1 DEF ReadWithin, SameEntries
<1> DEFINE a == internalTensors[s][i].addr
<1>4. a \in Addresses /\ a # Null
  BY <1>1, PoolType, NullAssumption DEF Entries
<1>5. ASSUME NEW u \in Held, deviceData[u] = a, NEW t \in graph[node].ins, variantIn[t] = a
      PROVE  u = t
  <2>1. t \in Tensors /\ Alive(t, node) /\ Written(t) /\ u \in Tensors /\ Alive(u, node)
        /\ (u \in Assigned \/ Written(u))
    BY <1>1, NodeTensors DEF Held
  <2>2. CASE u \in Assigned
    BY <1>1, <1>5, <2>1, <2>2 DEF InputsInUse
  <2>3. CASE u \notin Assigned
    BY <1>1, <1>5, <2>1, <2>3 DEF InputsInUse
  <2> QED
    BY <2>2, <2>3
<1>6. ASSUME NEW u \in Held, deviceData[u] = a
      PROVE  HolderIsOf(graph, s, readBy'[a], u)
  <2>1. HolderIsOf(graph, s, readBy[a], u)
    BY <1>1, <1>6 DEF ReadHere, ReadWithin
  <2>2. CASE \E t \in graph[node].ins : variantIn[t] = a
    <3>1. node \in Readers(graph, u) /\ graph[node].stream = Stream
      BY <1>1, <1>5, <1>6, <2>2 DEF Readers, Running, Stream
    <3>2. readBy'[a] = readBy[a] \cup {Stream}
      BY <1>3, <1>4, <2>2
    <3> HIDE DEF a
    <3> QED
      BY <2>1, <3>1, <3>2 DEF HolderIsOf
  <2>3. CASE ~\E t \in graph[node].ins : variantIn[t] = a
    BY <1>3, <1>4, <2>1, <2>3
  <2> QED
    BY <2>2, <2>3
<1>7. ASSUME ~internalTensors'[s][i].used
      PROVE  readBy'[a] \subseteq {s}
  <2>1. CASE ~internalTensors[s][i].used
    <3>1. readBy[a] \subseteq {s}
      BY <1>1, <2>1 DEF ReadHere, ReadWithin
    <3>2. ~\E t \in graph[node].ins : variantIn[t] = a
      <4> SUFFICES ASSUME NEW t \in graph[node].ins, variantIn[t] = a
                   PROVE  FALSE
        OBVIOUS
      <4>1. InUse(a)
        BY <1>1, NodeTensors DEF InputsInUse
      <4> QED
        BY <1>1, <2>1, <4>1 DEF InUse, InUseIn, EntriesDiffer
    <3> QED
      BY <1>3, <1>4, <3>1, <3>2
  <2>2. CASE internalTensors[s][i].used
    <3>1. s = Stream /\ \E u \in LastUsed : deviceData[u] = a
      BY <1>1, <1>7, <2>2, AfterFree
    <3>2. PICK u \in LastUsed : deviceData[u] = a
      BY <3>1
    <3>3. u \in Held /\ Readers(graph, u) # {}
      BY <1>1, <1>4, <3>2, FreedAreDead
    <3>4. HolderIsOf(graph, s, readBy'[a], u)
      BY <1>6, <3>2, <3>3
    <3>5. u \in Tensors /\ MaxNodeId(graph, u) = node
      BY DEF LastUsed
    <3>6. PICK m \in Nodes : graph[m].stream = s /\ u \in graph[m].outs
      BY <3>4 DEF HolderIsOf
    <3>7. \A n \in Readers(graph, u) : graph[n].stream = s
      BY <3>1, <3>5, <3>6 DEF LeavesForGood, Readers, Stream
    <3> QED
      BY <3>4, <3>7 DEF HolderIsOf
  <2> QED
    BY <2>1, <2>2
<1> QED
  BY <1>6, <1>7

LEMMA ExecuteKeeps ==
  ASSUME IInv, ExecuteNode, WellUsed
  PROVE  IInv'
<1>1. TypeOK /\ TypeOK' /\ EntriesDiffer /\ UnwrittenHaveNone /\ node \in Nat
  BY TypeKept, NodeCountAssumption DEF Next, IInv, TypeOK
<1>2. /\ Running /\ toWrite = {} /\ node' = node + 1 /\ variantIn' = deviceData
      /\ toWrite' = (IF node < NodeCount THEN graph[node + 1].outs ELSE {})
      /\ UNCHANGED <<graph, desc, call, nodeOutTensors, deviceData>>
  BY DEF ExecuteNode, Running
<1>3. OutputsWritten /\ HeldApart /\ HeldInUse /\ MadeAreHeld /\ InputsInUse /\ ReadFromPool
  BY <1>2 DEF IInv
<1>4. NodeCount \in Nat \ {0} /\ Assigned = graph[node].outs
  BY <1>2, NodeCountAssumption, NodeTensors
<1>5. UnwrittenHaveNone'
  BY <1>1, <1>2 DEF UnwrittenHaveNone
<1>6. ToWriteAreOuts'
  BY <1>1, <1>2, <1>4 DEF ToWriteAreOuts, Running, Nodes
<1>7. \A u \in Tensors : writer'[u] = IF u \in graph[node].outs THEN node ELSE writer[u]
  BY DEF ExecuteNode
<1>8. SameEntries
  BY <1>1, <1>2, AfterFree
<1>9. EntriesDiffer'
  BY <1>1, <1>8 DEF EntriesDiffer, SameEntries
<1>10. ASSUME Running'
       PROVE  /\ OutputsWritten' /\ HeldApart' /\ HeldInUse' /\ MadeAreHeld' /\ InputsInUse'
              /\ ReadFromPool' /\ (LeavesForGood(graph)' => ReadHere')
  <2>1. Assigned' = {}
    BY <1>1, <1>2, <1>4, <1>10 DEF Assigned, Running, Nodes
  <2>2. ASSUME NEW u \in Tensors, Alive(u, node + 1), Written(u)'
        PROVE  u \in Held
    <3>1. Alive(u, node)
      BY <1>1, <1>2, <2>2, AliveLater
    <3> QED
      BY <1>2, <1>4, <1>7, <2>2, <3>1 DEF Held, Written
  <2>3. \A u : Alive(u, node)' <=> Alive(u, node + 1)
    BY <1>2 DEF Alive, Users
  <2>4. Held' \subseteq Held /\ \A u \in Held' : Alive(u, node + 1) /\ Written(u)'
    BY <2>1, <2>2, <2>3 DEF Held
  <2>5. OutputsWritten'
    <3> SUFFICES ASSUME NEW n \in 1 .. node, NEW u \in graph[n].outs
                 PROVE  writer'[u] # 0
      BY <1>1, <1>2 DEF OutputsWritten, Written
    <3>1. n \in Nodes /\ u \in Tensors
      BY <1>1, <1>2, <1>4, GraphType DEF Nodes, Running
    <3>2. n # node => writer[u] # 0
      BY <1>1, <1>3 DEF OutputsWritten, Written
    <3> QED
      BY <1>1, <1>2, <1>7, <3>1, <3>2 DEF Nodes, Running
  <2>6. HeldApart'
    BY <1>2, <1>3, <2>4 DEF HeldApart
  <2>7. ASSUME NEW u \in Held, Alive(u, node + 1)
        PROVE  InUseIn(internalTensors', deviceData[u])
    <3>0. PICK s \in Streams : \E i \in DOMAIN internalTensors[s] :
            internalTensors[s][i].addr = deviceData[u] /\ internalTensors[s][i].used
      BY <1>3 DEF HeldInUse, InUse, InUseIn
    <3>1. PICK i \in DOMAIN internalTensors[s] :
            internalTensors[s][i].addr = deviceData[u] /\ internalTensors[s][i].used
      BY <3>0
    <3>2. deviceData[u] # Null
      BY <1>1, <3>1, PoolType, NullAssumption DEF Entries
    <3>3. \A v \in LastUsed : deviceData[v] # deviceData[u]
      BY <1>2, <1>3, <2>7, <3>2, FreedAreDead DEF HeldApart
    <3>4. internalTensors'[s][i].used
      BY <1>1, <1>2, <3>1, <3>3, AfterFree
    <3> QED
      BY <1>8, <3>1, <3>4 DEF InUseIn, SameEntries
  <2>8. HeldInUse'
    BY <1>2, <2>4, <2>7 DEF HeldInUse, InUse
  <2>9. MadeAreHeld'
    <3> SUFFICES ASSUME NEW s \in Streams, NEW u \in nodeOutTensors[s]
                 PROVE  writer'[u] # 0
      BY <1>2 DEF MadeAreHeld, Written
    <3>1. u \in Tensors /\ (writer[u] # 0 \/ u \in graph[node].outs)
      BY <1>1, <1>3, <1>4 DEF MadeAreHeld, Written, TypeOK
    <3> QED
      BY <1>2, <1>7, <3>1 DEF Running, Nodes
  <2>10. InputsInUse'
    <3> SUFFICES ASSUME NEW u \in Tensors, Alive(u, node + 1), Written(u)'
                 PROVE  /\ deviceData[u] \in Addresses
                        /\ contents'[deviceData[u]] = <<u, writer'[u]>>
                        /\ InUseIn(internalTensors', deviceData[u])
                        /\ \A v \in Tensors :
                             (Alive(v, node + 1) /\ Written(v)' /\ deviceData[v] = deviceData[u]) => v = u
      BY <1>2, <2>1, <2>3 DEF InputsInUse, InUse
    <3>1. u \in Held /\ InUseIn(internalTensors', deviceData[u])
      BY <2>2, <2>7
    <3>2. deviceData[u] \in Addresses
      BY <1>1, <1>3, <3>1, PoolType DEF HeldInUse, InUse, InUseIn, Entries
    <3>3. \A v \in graph[node].outs : v \in Held
      BY <1>2, NodeTensors
    <3>4. contents'[deviceData[u]] =
            IF \E v \in graph[node].outs : deviceData[v] = deviceData[u]
            THEN <<CHOOSE v \in graph[node].outs : deviceData[v] = deviceData[u], node>>
            ELSE contents[deviceData[u]]
      BY <3>2 DEF ExecuteNode
    <3>5. contents'[deviceData[u]] = <<u, writer'[u]>>
      <4>1. CASE u \in graph[node].outs
        <5>1. (CHOOSE v \in graph[node].outs : deviceData[v] = deviceData[u]) = u
          BY <1>3, <3>1, <3>3, <4>1 DEF HeldApart
        <5> QED
          BY <1>7, <3>4, <4>1, <5>1
      <4>2. CASE u \notin graph[node].outs
        <5>1. ~\E v \in graph[node].outs : deviceData[v] = deviceData[u]
          BY <1>3, <3>1, <3>3, <4>2 DEF HeldApart
        <5>2. Alive(u, node) /\ Written(u) /\ u \notin Assigned /\ writer'[u] = writer[u]
          BY <1>4, <1>7, <3>1, <4>2 DEF Held
        <5>3. contents[variantIn[u]] = <<u, writer[u]>> /\ variantIn[u] = deviceData[u]
          BY <1>3, <5>2 DEF InputsInUse
        <5> QED
          BY <3>4, <5>1, <5>2, <5>3
      <4> QED
        BY <4>1, <4>2
    <3> QED
      BY <1>3, <2>2, <3>1, <3>2, <3>5 DEF HeldApart
  <2>11. ReadFromPool'
    <3> SUFFICES ASSUME NEW b \in Addresses, readBy'[b] # {}
                 PROVE  \E s \in Streams : \E i \in DOMAIN internalTensors[s] : internalTensors[s][i].addr = b
      BY <1>8 DEF ReadFromPool, Addrs, SameEntries
    <3>1. CASE readBy[b] # {}
      BY <1>3, <3>1 DEF ReadFromPool, Addrs
    <3>2. CASE \E t \in graph[node].ins : variantIn[t] = b
      BY <1>2, <1>3, <3>2, NodeTensors DEF InputsInUse, InUse, InUseIn
    <3> QED
      BY <3>1, <3>2 DEF ExecuteNode
  <2>12. LeavesForGood(graph)' => ReadHere'
    <3> SUFFICES ASSUME LeavesForGood(graph)
                 PROVE  ReadWithin(graph, internalTensors', Held', deviceData, readBy')
      BY <1>2 DEF ReadHere, LeavesForGood, MaxNodeId, Readers
    <3>1. ReadWithin(graph, internalTensors', Held, deviceData, readBy')
      BY ExecuteKeepsReads
    <3> QED
      BY <2>4, <3>1 DEF ReadWithin
  <2> QED
    BY <2>5, <2>6, <2>8, <2>9, <2>10, <2>11, <2>12
<1> QED
  BY <1>1, <1>5, <1>6, <1>9, <1>10 DEF IInv

LEMMA GraphKept == Next => UNCHANGED graph
BY DEF Next, ExecuteStart, MallocInternalTensor, WriteInPlace, UseOld, CreateNew, ExecuteNode

LEMMA InitHolds == Init => IInv
<1> SUFFICES ASSUME Init
             PROVE  IInv
  OBVIOUS
<1>1. NodeCount \in Nat \ {0}
  BY NodeCountAssumption
<1>2. TypeOK
  <2>1. /\ internalTensors \in [Streams -> Seq(Entries)]
        /\ contents \in [Addresses -> (Tensors \cup {Null}) \X (0 .. NodeCount)]
        /\ nodeOutTensors \in [Streams -> SUBSET Tensors]
        /\ readBy \in [Addresses -> SUBSET Streams]
    BY <1>1 DEF Init
  <2> QED
    BY <1>1, <2>1, MaxCallsAssumption DEF Init, TypeOK, Nodes
<1>3. ~Running /\ toWrite = {}
  BY <1>1 DEF Init, Running, Nodes
<1>4. EntriesDiffer /\ UnwrittenHaveNone /\ ToWriteAreOuts
  BY <1>3 DEF Init, EntriesDiffer, UnwrittenHaveNone, ToWriteAreOuts
<1> QED
  BY <1>2, <1>3, <1>4 DEF IInv

LEMMA StepKeeps == IInv /\ WellUsed /\ [Next]_vars => IInv'
<1> SUFFICES ASSUME IInv, WellUsed, [Next]_vars
             PROVE  IInv'
  OBVIOUS
<1>1. CASE ExecuteStart
  BY <1>1, StartKeeps
<1>2. ASSUME NEW t \in Tensors, MallocInternalTensor(t)
      PROVE  IInv'
  BY <1>2, InPlaceKeeps, OldKeeps, NewKeeps DEF MallocInternalTensor
<1>3. CASE ExecuteNode
  BY <1>3, ExecuteKeeps
<1>4. CASE UNCHANGED vars
  <2>1. /\ UNCHANGED <<graph, node, toWrite, internalTensors, nodeOutTensors, deviceData,
                       variantIn, readBy, contents, writer>>
        /\ TypeOK' /\ UnwrittenHaveNone' /\ EntriesDiffer' /\ ToWriteAreOuts'
    BY <1>4 DEF vars, IInv, TypeOK, UnwrittenHaveNone, EntriesDiffer, ToWriteAreOuts, Running
  <2>2. Held' = Held /\ Assigned' = Assigned /\ (Running' <=> Running)
    BY <2>1 DEF Held, Alive, Written, Assigned, Users, Running
  <2>3. Running => (OutputsWritten /\ HeldApart /\ HeldInUse /\ MadeAreHeld /\ ReadFromPool)'
    BY <2>1, <2>2 DEF IInv, OutputsWritten, HeldApart, HeldInUse, MadeAreHeld, ReadFromPool,
       Written, InUse, InUseIn, Addrs
  <2>4. Running => InputsInUse'
    BY <2>1, <2>2 DEF IInv, InputsInUse, Written, Alive, Users, InUse, InUseIn
  <2>5. Running => (LeavesForGood(graph)' => ReadHere')
    BY <2>1, <2>2 DEF IInv, ReadHere, LeavesForGood, MaxNodeId, Readers
  <2> QED
    BY <2>1, <2>2, <2>3, <2>4, <2>5 DEF IInv
<1> QED
  BY <1>1, <1>2, <1>3, <1>4 DEF Next

LEMMA Invariant ==
  ASSUME \A g \in Graphs : WrittenFirst(g) /\ ReadLast(g)
  PROVE  Spec => [](IInv /\ WellUsed)
<1>1. Init => IInv /\ WellUsed
  BY InitHolds DEF Init, WellUsed
<1>2. WellUsed /\ [Next]_vars => WellUsed'
  BY GraphKept DEF WellUsed, WrittenFirst, ReadLast, Readers, vars
<1>3. IInv /\ WellUsed /\ [Next]_vars => (IInv /\ WellUsed)'
  BY <1>2, StepKeeps
<1> QED
  BY <1>1, <1>3, PTL DEF Spec

(* Whatever well used graph Model executes, on however many streams: a     *)
(* node finds its inputs as they were written, and none of its outputs has *)
(* the memory of another's input.                                          *)
THEOREM InputsAreIntact ==
  ASSUME \A g \in Graphs : WrittenFirst(g) /\ ReadLast(g)
  PROVE  Spec => []InputsIntact
<1>1. IInv => InputsIntact
  <2> SUFFICES ASSUME IInv, node \in Nodes, NEW t \in graph[node].ins, writer[t] # 0
               PROVE  /\ contents[variantIn[t]] = <<t, writer[t]>>
                      /\ \A u \in Assigned \ {t} : deviceData[u] # variantIn[t]
    BY DEF InputsIntact
  <2>1. t \in Tensors /\ Alive(t, node)
    BY UsedNow, GraphType DEF IInv, Running
  <2> QED
    BY <2>1 DEF IInv, Running, InputsInUse, Written
<1> QED
  BY <1>1, Invariant, PTL

(* A buffer is recycled only where all that have read it are in order      *)
(* before: a free buffer of a stream has been read by nodes of that stream *)
(* alone, if a tensor that leaves its stream is not last read there.       *)
THEOREM RecyclesWithinStream ==
  ASSUME \A g \in Graphs : WrittenFirst(g) /\ ReadLast(g)
  PROVE  Spec => RecycledWithinStream
<1>1. ASSUME IInv, LeavesForGood(graph), NEW t \in toWrite, UseOld(t)
      PROVE  readBy[deviceData'[t]] \subseteq {Stream}
  <2>1. Running /\ TypeOK /\ ReadHere /\ t \in Tensors
    BY <1>1 DEF IInv, ToWriteAreOuts, TypeOK
  <2>2. Stream \in Streams /\ Pool = internalTensors[Stream]
    BY <2>1, GraphType DEF Running, Stream, Pool
  <2>3. PICK i \in DOMAIN Pool : ~Pool[i].used /\ deviceData' = [deviceData EXCEPT ![t] = Pool[i].addr]
    BY <1>1, <2>1, AfterOld
  <2>4. deviceData'[t] = Pool[i].addr
    BY <2>1, <2>3 DEF TypeOK
  <2> QED
    BY <2>1, <2>2, <2>3, <2>4 DEF ReadHere, ReadWithin
<1>2. IInv => [LeavesForGood(graph) =>
                 \A t \in toWrite : UseOld(t) => readBy[deviceData'[t]] \subseteq {Stream}]_vars
  BY <1>1
<1> QED
  BY <1>2, Invariant, PTL DEF RecycledWithinStream

LiveApart == \A t, u \in Live : deviceData[t] = deviceData[u] => t = u

LEMMA LiveIsHeld == IInv => LiveApart
<1> SUFFICES ASSUME IInv
             PROVE  LiveApart
  OBVIOUS
<1>1. ASSUME NEW t \in Live
      PROVE  t \in Held
  <2>1. Running /\ t \in Tensors
    BY <1>1, GraphType DEF Live, Running, Assigned, IInv
  <2>2. CASE t \in Assigned
    BY <2>1, <2>2, UsedNow DEF Held, Assigned, Running, IInv
  <2>3. CASE t \notin Assigned
    BY <1>1, <2>1, <2>3 DEF Live, Held, Alive, Users, Readers, Written
  <2> QED
    BY <2>2, <2>3
<1> QED
  BY <1>1 DEF IInv, HeldApart, LiveApart, Live, Assigned, Running

(* The pool implements BufferAssignment: a buffer goes to a tensor only    *)
(* while no other tensor still to be read holds it.                        *)
THEOREM KeepsPromise ==
  ASSUME \A g \in Graphs : WrittenFirst(g) /\ ReadLast(g)
  PROVE  Spec => ImplementsBufferAssignment
<1>1. Init => Promise!Init
  <2> SUFFICES ASSUME Init
               PROVE  Promise!Init
    OBVIOUS
  <2>1. Live = {}
    BY NodeCountAssumption DEF Init, Live, Nodes
  <2> QED
    BY <2>1 DEF Init, Promise!Init
<1>2. IInv /\ IInv' /\ [Next]_vars => [Promise!Next]_<<Live, deviceData>>
  <2> SUFFICES ASSUME IInv, IInv', [Next]_vars
               PROVE  Promise!Next \/ UNCHANGED <<Live, deviceData>>
    OBVIOUS
  <2>0. TypeOK /\ TypeOK' /\ NodeCount \in Nat \ {0} /\ 1 \in Nodes
    BY NodeCountAssumption DEF IInv, Nodes
  <2>1. CASE ExecuteStart
    <3>1. Live' = {} /\ deviceData' = deviceData
      BY <2>0, <2>1 DEF ExecuteStart, Live, Assigned
    <3> QED
      BY <3>1 DEF Promise!Next, Promise!Die
  <2>2. ASSUME NEW t \in Tensors, MallocInternalTensor(t)
        PROVE  Promise!Next
    <3>1. /\ Running /\ Assigned' = Assigned \cup {t}
          /\ UNCHANGED <<graph, node, writer>>
      BY <2>2, MallocFrame
    <3>2. t \in Live' /\ Live' \subseteq Live \cup {t}
      BY <3>1 DEF Live, Readers, Running
    <3>3. \A u, v \in Live' : deviceData'[u] = deviceData'[v] => u = v
      <4>1. IInv' => LiveApart'
        BY LiveIsHeld, PTL
      <4> QED
        BY <4>1 DEF LiveApart
    <3>4. \E b \in Addresses : deviceData' = [deviceData EXCEPT ![t] = b]
      <4>1. CASE WriteInPlace(t)
        <5>1. deviceData' = deviceData /\ t \in nodeOutTensors[Stream] /\ Stream \in Streams
              /\ t \in toWrite
          BY <2>0, <2>2, <3>1, <4>1, GraphType DEF WriteInPlace, MallocInternalTensor, Running, Stream
        <5>2. t \in Held
          <6>1. Alive(t, node)
            BY <2>2, MallocFrame
          <6> QED
            BY <3>1, <5>1, <6>1 DEF IInv, MadeAreHeld, Held
        <5>3. deviceData[t] \in Addresses
          BY <2>0, <3>1, <5>2, PoolType DEF IInv, HeldInUse, InUse, InUseIn, Entries
        <5>4. deviceData' = [deviceData EXCEPT ![t] = deviceData[t]]
          BY <2>0, <5>1 DEF TypeOK
        <5> QED
          BY <5>3, <5>4
      <4>2. CASE UseOld(t)
        <5>1. PICK i \in DOMAIN Pool : deviceData' = [deviceData EXCEPT ![t] = Pool[i].addr]
          BY <2>0, <3>1, <4>2, AfterOld
        <5>2. Pool[i].addr \in Addresses
          BY <2>0, <3>1, GraphType, PoolType DEF Running, Stream, Pool, Entries
        <5> QED
          BY <5>1, <5>2
      <4>3. CASE CreateNew(t)
        BY <4>3 DEF CreateNew, FreshAddresses
      <4> QED
        BY <2>2, <4>1, <4>2, <4>3 DEF MallocInternalTensor
    <3> QED
      BY <3>2, <3>3, <3>4 DEF Promise!Next, Promise!Assign, Promise!Distinct
  <2>3. CASE ExecuteNode
    <3>1. /\ Running /\ toWrite = {} /\ node' = node + 1 /\ deviceData' = deviceData
          /\ toWrite' = (IF node < NodeCount THEN graph[node + 1].outs ELSE {})
          /\ graph' = graph
      BY <2>3 DEF ExecuteNode, Running
    <3>2. \A u \in Tensors : writer'[u] = IF u \in graph[node].outs THEN node ELSE writer[u]
      BY <2>3 DEF ExecuteNode
    <3>3. node \in Nat /\ Assigned = graph[node].outs
      BY <2>0, <3>1 DEF Running, Nodes, Assigned
    <3>4. CASE node = NodeCount
      <4>1. Live' = {}
        BY <2>0, <3>1, <3>4 DEF Live, Nodes
      <4> QED
        BY <3>1, <4>1 DEF Promise!Next, Promise!Die
    <3>5. CASE node # NodeCount
      <4>1. node + 1 \in Nodes /\ Assigned' = {}
        BY <2>0, <3>1, <3>3, <3>5 DEF Running, Nodes, Assigned
      <4>2. ASSUME NEW u \in Live'
            PROVE  u \in Live
        <5>1. u \in Tensors /\ writer'[u] # 0 /\ \E n \in Readers(graph, u) : n >= node + 1
          BY <3>1, <4>1, <4>2 DEF Live, Readers
        <5>2. \E n \in Readers(graph, u) : n >= node
          BY <2>0, <3>3, <5>1 DEF Readers, Nodes
        <5> QED
          BY <3>1, <3>2, <3>3, <5>1, <5>2 DEF Live, Running
      <4> QED
        BY <3>1, <4>2 DEF Promise!Next, Promise!Die
    <3> QED
      BY <3>4, <3>5
  <2>4. CASE UNCHANGED vars
    BY <2>4 DEF vars, Live, Readers, Assigned
  <2> QED
    BY <2>1, <2>2, <2>3, <2>4 DEF Next
<1> QED
  BY <1>1, <1>2, Invariant, PTL DEF Spec, ImplementsBufferAssignment, Promise!Spec
=============================================================================
