------------------------ MODULE GraphTensorPoolProofs ------------------------
(***************************************************************************)
(* GraphOperation never gives a buffer away while it is needed, whatever   *)
(* the graph, as long as its nodes read only what earlier nodes have       *)
(* written.  A tensor is alive until its last node, reader or writer; the  *)
(* cached torch tensor it was created with is not given to another before  *)
(* that (CreatorFirst), and so a node may write it in place.               *)
(***************************************************************************)
EXTENDS GraphTensorPool, WellFoundedInduction, TLAPS

WrittenFirst(g) == \A n \in Nodes : \A t \in g[n].ins : \E m \in 1 .. n - 1 : t \in g[m].outs

(* Some node from n on reads or writes t.                                  *)
Alive(t, n) == \E m \in Users(graph, t) : n <= m

Running == node \in Nodes
Written(t) == writer[t] # 0
Held == {t \in Tensors : Alive(t, node) /\ (Written(t) \/ t \in Assigned)}

(* An entry that is in use and was not created for a tensor still alive,   *)
(* other than t.                                                           *)
IsHome(t, a) ==
  \E i \in DOMAIN Pool :
    /\ Pool[i].addr = a /\ Pool[i].used
    /\ Pool[i].atbTensor = t \/ ~Alive(Pool[i].atbTensor, node)

EntriesDiffer == \A i, j \in DOMAIN Pool : Pool[i].addr = Pool[j].addr => i = j

OutputsWritten == \A n \in 1 .. node - 1 : \A t \in graph[n].outs : Written(t)

HeldApart == \A t, u \in Held : deviceData[t] = deviceData[u] => t = u

HeldAtHome == \A t \in Held : IsHome(t, deviceData[t])

CreatorFirst ==
  \A i \in DOMAIN Pool : Alive(Pool[i].atbTensor, node) =>
    /\ Pool[i].used
    /\ \A u \in Held : deviceData[u] = Pool[i].addr => u = Pool[i].atbTensor

(* The inputs of the node are where the variant pack has them, which is    *)
(* where they were before the node's outputs got their buffers.            *)
InputsAtHome ==
  \A t \in Tensors : (Alive(t, node) /\ Written(t)) =>
    /\ variantIn[t] \in Addresses
    /\ contents[variantIn[t]] = <<t, writer[t]>>
    /\ IsHome(t, variantIn[t])
    /\ \A u \in Assigned \ {t} : deviceData[u] # variantIn[t]
    /\ t \notin Assigned => variantIn[t] = deviceData[t]

(* A tensor of no node never gets a buffer.                                *)
UnusedHaveNone == \A t \in Tensors : Users(graph, t) = {} => deviceData[t] = Null

IInv ==
  /\ TypeOK
  /\ UnusedHaveNone
  /\ toWrite \subseteq (IF Running THEN graph[node].outs ELSE {})
  /\ EntriesDiffer
  /\ Running => /\ OutputsWritten
                /\ HeldApart
                /\ HeldAtHome
                /\ CreatorFirst
                /\ InputsAtHome
-----------------------------------------------------------------------------
(* There is a last user.                                                   *)
LEMMA LargestNode ==
  ASSUME NEW S \in SUBSET Nodes, S # {}
  PROVE  \E n \in S : \A m \in S : m <= n
<1>0. NodeCount \in Nat
  BY NodeCountAssumption
<1> DEFINE T == {k \in Nat : \E n \in S : k = NodeCount - n}
<1>1. T \subseteq Nat /\ T # {}
  <2>1. PICK n \in S : TRUE
    OBVIOUS
  <2>2. NodeCount - n \in T
    BY <1>0, <2>1 DEF Nodes
  <2> QED
    BY <2>2
<1>2. PICK d \in T : \A c \in T : ~(<<c, d>> \in OpToRel(<, Nat))
  BY <1>1, NatLessThanWellFounded, WFMin
<1>3. PICK n \in S : d = NodeCount - n
  BY <1>2
<1>4. ASSUME NEW m \in S
      PROVE  m <= n
  <2>1. m \in Nat /\ n \in Nat /\ NodeCount - m \in Nat /\ NodeCount - n \in Nat
    BY <1>0, <1>3, <1>4 DEF Nodes
  <2>2. NodeCount - m \in T
    BY <2>1, <1>4
  <2>3. ~(<<NodeCount - m, NodeCount - n>> \in OpToRel(<, Nat))
    BY <1>2, <1>3, <2>2
  <2>4. ~(NodeCount - m < NodeCount - n)
    BY <2>1, <2>3 DEF OpToRel
  <2> QED
    BY <1>0, <2>1, <2>4
<1> QED
  BY <1>4

(* InitTensorMaxNodeMap: who is used for the last time at a node is not    *)
(* alive after it, and is one of its tensors, or of no node.               *)
LEMMA LastUse ==
  ASSUME TypeOK, Running, NEW t \in LastUsed
  PROVE  /\ Users(graph, t) # {} => ~Alive(t, node + 1) /\ t \in graph[node].ins \cup graph[node].outs
         /\ Alive(t, node + 1) => Users(graph, t) # {}
<1>1. Users(graph, t) \in SUBSET Nodes
  BY DEF Users
<1>2. ASSUME Users(graph, t) # {}
      PROVE  node \in Users(graph, t) /\ \A m \in Users(graph, t) : m <= node
  BY <1>1, <1>2, LargestNode DEF MaxNodeId, LastUsed
<1>3. node \in Nat /\ \A m \in Users(graph, t) : m \in Nat
  BY <1>1, NodeCountAssumption DEF Nodes, TypeOK
<1> QED
  BY <1>2, <1>3 DEF Alive, Users

LEMMA AliveLater ==
  ASSUME TypeOK, Running, NEW t, Alive(t, node + 1)
  PROVE  Alive(t, node)
<1>1. node \in Nat /\ \A m \in Users(graph, t) : m \in Nat
  BY NodeCountAssumption DEF Nodes, TypeOK, Users
<1> QED
  BY <1>1 DEF Alive

LEMMA UsedNow ==
  ASSUME TypeOK, Running, NEW t, t \in graph[node].ins \cup graph[node].outs
  PROVE  Alive(t, node)
<1>1. node \in Nat /\ node \in Users(graph, t)
  BY NodeCountAssumption DEF Nodes, TypeOK, Users, Running
<1> QED
  BY <1>1 DEF Alive

LEMMA GraphType ==
  ASSUME TypeOK, NEW n \in Nodes
  PROVE  graph[n].ins \subseteq Tensors /\ graph[n].outs \subseteq Tensors
BY GraphsAssumption DEF TypeOK, Nodes

-----------------------------------------------------------------------------
(* Types.                                                                  *)
LEMMA PoolType ==
  ASSUME TypeOK
  PROVE  /\ DOMAIN Pool = 1 .. Len(Pool) /\ Len(Pool) \in Nat
         /\ \A i \in DOMAIN Pool : Pool[i] \in Entries
BY DEF TypeOK, Pool

LEMMA FreedPool ==
  ASSUME TypeOK
  PROVE  /\ FreeGraphInternalTensor \in Seq(Entries)
         /\ DOMAIN FreeGraphInternalTensor = DOMAIN Pool
         /\ \A i \in DOMAIN Pool :
              /\ FreeGraphInternalTensor[i].addr = Pool[i].addr
              /\ FreeGraphInternalTensor[i].atbTensor = Pool[i].atbTensor
              /\ FreeGraphInternalTensor[i].used =
                   (Pool[i].used /\ Pool[i].addr \notin {deviceData[t] : t \in LastUsed})
<1>1. DOMAIN Pool = 1 .. Len(Pool) /\ Len(Pool) \in Nat
  BY PoolType
<1>2. ASSUME NEW i \in DOMAIN Pool
      PROVE  /\ FreeGraphInternalTensor[i] \in Entries
             /\ FreeGraphInternalTensor[i].addr = Pool[i].addr
             /\ FreeGraphInternalTensor[i].atbTensor = Pool[i].atbTensor
             /\ FreeGraphInternalTensor[i].used =
                  (Pool[i].used /\ Pool[i].addr \notin {deviceData[t] : t \in LastUsed})
  <2> DEFINE gone == Pool[i].addr \in {deviceData[t] : t \in LastUsed}
  <2>1. Pool[i] \in Entries
    BY PoolType
  <2>2. FreeGraphInternalTensor[i] = [Pool[i] EXCEPT !.used = @ /\ ~gone]
    BY DEF FreeGraphInternalTensor
  <2> HIDE DEF gone
  <2>3. /\ FreeGraphInternalTensor[i] \in Entries
        /\ FreeGraphInternalTensor[i].addr = Pool[i].addr
        /\ FreeGraphInternalTensor[i].atbTensor = Pool[i].atbTensor
        /\ FreeGraphInternalTensor[i].used = (Pool[i].used /\ ~gone)
    BY <2>1, <2>2 DEF Entries
  <2> QED
    BY <2>3 DEF gone
<1>3. FreeGraphInternalTensor = [i \in 1 .. Len(Pool) |-> FreeGraphInternalTensor[i]]
  BY <1>1 DEF FreeGraphInternalTensor
<1>4. \A i \in 1 .. Len(Pool) : FreeGraphInternalTensor[i] \in Entries
  BY <1>1, <1>2
<1>5. FreeGraphInternalTensor \in [1 .. Len(Pool) -> Entries]
  BY <1>3, <1>4
<1>6. FreeGraphInternalTensor \in Seq(Entries)
  BY <1>1, <1>5
<1>7. DOMAIN FreeGraphInternalTensor = DOMAIN Pool
  BY DEF FreeGraphInternalTensor
<1> QED
  BY <1>2, <1>6, <1>7

(* The search stops at an entry made for t or at a free one.               *)
LEMMA Found ==
  ASSUME TypeOK, NEW t \in Tensors, UseCached(t)
  PROVE  \E i \in DOMAIN Pool :
           /\ Pool[i].atbTensor = t \/ (~Pool[i].used /\ Pool[i].desc = desc[t])
           /\ cachedTorchTensors' =
                [Pool EXCEPT ![i] = [Pool[i] EXCEPT !.used = IF i \in MadeFor(t) THEN Pool[i].used ELSE TRUE]]
           /\ deviceData' = [deviceData EXCEPT ![t] = Pool[i].addr]
<1> DEFINE found == MadeFor(t) \cup Reusable(t)
           i == CHOOSE i \in found : \A j \in found : i <= j
<1>1. found \subseteq Nat /\ found \subseteq DOMAIN Pool /\ found # {}
  <2>1. MadeFor(t) \subseteq DOMAIN Pool /\ Reusable(t) \subseteq DOMAIN Pool
    BY DEF MadeFor, Reusable
  <2>2. found # {}
    BY DEF UseCached
  <2> QED
    BY <2>1, <2>2, PoolType
<1>2. i \in found
  <2> HIDE DEF found
  <2>1. PICK k \in found : \A j \in found : ~(<<j, k>> \in OpToRel(<, Nat))
    BY <1>1, NatLessThanWellFounded, WFMin
  <2>2. ASSUME NEW j \in found
        PROVE  k <= j
    <3>1. j \in Nat /\ k \in Nat
      BY <1>1, <2>2
    <3>2. ~(<<j, k>> \in OpToRel(<, Nat))
      BY <2>1, <2>2
    <3>3. ~(j < k)
      BY <3>1, <3>2 DEF OpToRel
    <3> QED
      BY <3>1, <3>3
  <2>3. \E m \in found : \A j \in found : m <= j
    BY <2>2
  <2> QED
    BY <2>3
<1>3. /\ cachedTorchTensors' = [Pool EXCEPT ![i].used = IF i \in MadeFor(t) THEN @ ELSE TRUE]
      /\ deviceData' = [deviceData EXCEPT ![t] = Pool[i].addr]
  BY DEF UseCached
<1>4. Pool[i].atbTensor = t \/ (~Pool[i].used /\ Pool[i].desc = desc[t])
  BY <1>2 DEF MadeFor, Reusable
<1>5. i \in DOMAIN Pool
  BY <1>1, <1>2
<1>6. cachedTorchTensors' =
        [Pool EXCEPT ![i] = [Pool[i] EXCEPT !.used = IF i \in MadeFor(t) THEN Pool[i].used ELSE TRUE]]
  BY <1>3
<1> HIDE DEF i
<1> QED
  BY <1>3, <1>4, <1>5, <1>6

LEMMA AfterCached ==
  ASSUME TypeOK, NEW t \in Tensors, UseCached(t)
  PROVE  \E i \in DOMAIN Pool :
           /\ Pool[i].atbTensor = t \/ (~Pool[i].used /\ Pool[i].desc = desc[t])
           /\ Pool' \in Seq(Entries) /\ DOMAIN Pool' = DOMAIN Pool
           /\ \A j \in DOMAIN Pool :
                /\ Pool'[j].addr = Pool[j].addr /\ Pool'[j].atbTensor = Pool[j].atbTensor
                /\ (j # i \/ Pool[i].atbTensor = t) => Pool'[j].used = Pool[j].used
                /\ (j = i /\ Pool[i].atbTensor # t) => Pool'[j].used
           /\ deviceData' = [deviceData EXCEPT ![t] = Pool[i].addr]
<1>1. PICK i \in DOMAIN Pool :
        /\ Pool[i].atbTensor = t \/ (~Pool[i].used /\ Pool[i].desc = desc[t])
        /\ cachedTorchTensors' =
             [Pool EXCEPT ![i] = [Pool[i] EXCEPT !.used = IF i \in MadeFor(t) THEN Pool[i].used ELSE TRUE]]
        /\ deviceData' = [deviceData EXCEPT ![t] = Pool[i].addr]
  BY Found
<1> DEFINE e == [Pool[i] EXCEPT !.used = IF i \in MadeFor(t) THEN Pool[i].used ELSE TRUE]
<1>2. Pool \in Seq(Entries) /\ Pool[i] \in Entries
  BY PoolType DEF TypeOK, Pool
<1>3. Pool' = [Pool EXCEPT ![i] = e]
  BY <1>1 DEF Pool
<1>4. /\ e \in Entries /\ e.addr = Pool[i].addr /\ e.atbTensor = Pool[i].atbTensor
      /\ Pool[i].atbTensor = t => e.used = Pool[i].used
      /\ Pool[i].atbTensor # t => e.used
  BY <1>2 DEF Entries, MadeFor
<1> HIDE DEF e
<1>5. Pool' \in Seq(Entries) /\ DOMAIN Pool' = DOMAIN Pool
  BY <1>2, <1>3, <1>4
<1>6. ASSUME NEW j \in DOMAIN Pool
      PROVE  Pool'[j] = IF j = i THEN e ELSE Pool[j]
  BY <1>2, <1>3, <1>6
<1> QED
  BY <1>1, <1>4, <1>5, <1>6

LEMMA AfterNew ==
  ASSUME TypeOK, NEW t \in Tensors, CreateNew(t)
  PROVE  \E a \in FreshAddresses :
           /\ Pool' \in Seq(Entries) /\ DOMAIN Pool' = DOMAIN Pool \cup {Len(Pool) + 1}
           /\ \A j \in DOMAIN Pool : Pool'[j] = Pool[j]
           /\ LET e == Pool'[Len(Pool) + 1]
              IN  e.addr = a /\ e.used /\ e.atbTensor = t
           /\ deviceData' = [deviceData EXCEPT ![t] = a]
<1>1. PICK a \in FreshAddresses :
        /\ Pool' = Append(Pool, [addr |-> a, desc |-> desc[t], used |-> TRUE, atbTensor |-> t])
        /\ deviceData' = [deviceData EXCEPT ![t] = a]
  BY DEF CreateNew, Pool
<1> DEFINE e == [addr |-> a, desc |-> desc[t], used |-> TRUE, atbTensor |-> t]
<1>2. e \in Entries /\ e.addr = a /\ e.used /\ e.atbTensor = t
  BY DEF Entries, TypeOK, FreshAddresses
<1> HIDE DEF e
<1>3. Pool \in Seq(Entries) /\ Pool' = Append(Pool, e)
  BY <1>1 DEF TypeOK, Pool, e
<1>4. /\ Pool' \in Seq(Entries) /\ DOMAIN Pool' = DOMAIN Pool \cup {Len(Pool) + 1}
      /\ \A j \in DOMAIN Pool : Pool'[j] = Pool[j]
      /\ Pool'[Len(Pool) + 1] = e
  BY <1>2, <1>3
<1> QED
  BY <1>1, <1>2, <1>4

LEMMA TypeKept ==
  ASSUME TypeOK, Next
  PROVE  TypeOK'
<1>0. /\ NodeCount \in Nat \ {0}
      /\ \A n \in Nodes : graph[n].ins \subseteq Tensors /\ graph[n].outs \subseteq Tensors
  BY NodeCountAssumption, GraphType
<1>1. CASE ExecuteStart
  <2>1. 1 \in Nodes /\ graph[1].outs \subseteq Tensors
    BY <1>0 DEF Nodes
  <2>2. writer' \in [Tensors -> 0 .. NodeCount] /\ cachedTorchTensors' \in Seq(Entries)
    BY <1>0, <1>1 DEF ExecuteStart
  <2>3. node' \in 1 .. NodeCount + 1 /\ call' \in 0 .. MaxCalls
    BY <1>0, <1>1, MaxCallsAssumption DEF ExecuteStart, TypeOK
  <2> QED
    BY <1>1, <2>1, <2>2, <2>3 DEF ExecuteStart, TypeOK
<1>2. ASSUME NEW t \in Tensors, MallocInternalTensor(t)
      PROVE  TypeOK'
  <2>1. cachedTorchTensors' \in Seq(Entries) /\ deviceData' \in [Tensors -> Addresses \cup {Null}]
    <3>1. ASSUME UseCached(t)
          PROVE  \E a \in Addresses : Pool' \in Seq(Entries) /\ deviceData' = [deviceData EXCEPT ![t] = a]
      <4>1. PICK i \in DOMAIN Pool : /\ Pool' \in Seq(Entries)
                                     /\ deviceData' = [deviceData EXCEPT ![t] = Pool[i].addr]
        BY <3>1, AfterCached
      <4>2. Pool[i].addr \in Addresses
        BY PoolType DEF Entries
      <4> QED
        BY <4>1, <4>2
    <3>2. ASSUME CreateNew(t)
          PROVE  \E a \in Addresses : Pool' \in Seq(Entries) /\ deviceData' = [deviceData EXCEPT ![t] = a]
      BY <3>2, AfterNew DEF FreshAddresses
    <3> QED
      BY <1>2, <3>1, <3>2 DEF MallocInternalTensor, TypeOK, Pool
  <2> QED
    BY <1>2, <2>1 DEF MallocInternalTensor, UseCached, CreateNew, TypeOK
<1>3. CASE ExecuteSingleNode
  <2>1. cachedTorchTensors' \in Seq(Entries)
    BY <1>3, FreedPool DEF ExecuteSingleNode
  <2>2. node \in Nodes /\ graph[node].outs \subseteq Tensors /\ node \in 0 .. NodeCount
    BY <1>0, <1>3 DEF ExecuteSingleNode, Nodes
  <2>3. contents' \in [Addresses -> (Tensors \cup {Null}) \X (0 .. NodeCount)]
    <3>1. ASSUME NEW a \in Addresses, \E t \in graph[node].outs : deviceData[t] = a
          PROVE  (CHOOSE t \in graph[node].outs : deviceData[t] = a) \in Tensors
      BY <2>2, <3>1
    <3> QED
      BY <1>3, <2>2, <3>1 DEF ExecuteSingleNode, TypeOK
  <2>4. writer' \in [Tensors -> 0 .. NodeCount]
    BY <1>3, <2>2 DEF ExecuteSingleNode, TypeOK
  <2>5. node' \in 1 .. NodeCount + 1 /\ toWrite' \subseteq Tensors
    BY <1>0, <1>3, <2>2 DEF ExecuteSingleNode, Nodes
  <2> QED
    BY <1>3, <2>1, <2>3, <2>4, <2>5 DEF ExecuteSingleNode, TypeOK
<1> QED
  BY <1>1, <1>2, <1>3 DEF Next

-----------------------------------------------------------------------------
(* The steps.                                                              *)
LEMMA StartKeeps ==
  ASSUME IInv, ExecuteStart
  PROVE  IInv'
<1>0. NodeCount \in Nat \ {0} /\ 1 \in Nodes /\ TypeOK
  BY NodeCountAssumption DEF Nodes, IInv
<1>1. TypeOK'
  BY <1>0, TypeKept DEF Next
<1>2. /\ node' = 1 /\ toWrite' = graph[1].outs /\ Pool' = <<>>
      /\ writer' = [t \in Tensors |-> 0]
      /\ UNCHANGED <<graph, deviceData>>
  BY DEF ExecuteStart, Pool
<1>3. UnusedHaveNone'
  BY <1>2 DEF IInv, UnusedHaveNone, Users
<1>4. Held' = {} /\ (\A t \in Tensors : ~Written(t)') /\ OutputsWritten'
  BY <1>0, <1>2 DEF Held, Assigned, Written, OutputsWritten
<1>5. EntriesDiffer' /\ CreatorFirst'
  BY <1>2 DEF EntriesDiffer, CreatorFirst
<1>6. HeldApart' /\ HeldAtHome' /\ InputsAtHome'
  BY <1>4 DEF HeldApart, HeldAtHome, InputsAtHome
<1>7. (toWrite \subseteq (IF Running THEN graph[node].outs ELSE {}))'
  BY <1>0, <1>2 DEF Running, Nodes
<1> QED
  BY <1>1, <1>3, <1>4, <1>5, <1>6, <1>7 DEF IInv

(* A buffer for t changes what is assigned, and nothing of what is alive.  *)
LEMMA MallocFrame ==
  ASSUME IInv, NEW t \in Tensors, MallocInternalTensor(t)
  PROVE  /\ Running /\ t \in graph[node].outs /\ t \in toWrite /\ Alive(t, node)
         /\ UNCHANGED <<graph, desc, call, node, variantIn, contents, writer>>
         /\ toWrite' = toWrite \ {t} /\ Assigned' = Assigned \cup {t}
         /\ (\A u : Alive(u, node)' <=> Alive(u, node))
         /\ Held' = Held \cup {t}
<1>1. /\ t \in toWrite /\ toWrite' = toWrite \ {t}
      /\ UNCHANGED <<graph, desc, call, node, variantIn, contents, writer>>
  BY DEF MallocInternalTensor, UseCached, CreateNew
<1>2. Running /\ t \in graph[node].outs /\ TypeOK
  BY <1>1 DEF IInv
<1>3. Alive(t, node)
  BY <1>2, UsedNow
<1>4. Assigned' = Assigned \cup {t}
  BY <1>1, <1>2 DEF Assigned, Running
<1>5. \A u : Alive(u, node)' <=> Alive(u, node)
  BY <1>1 DEF Alive, Users
<1>6. Held' = Held \cup {t}
  BY <1>1, <1>3, <1>4, <1>5 DEF Held, Written
<1> QED
  BY <1>1, <1>2, <1>3, <1>4, <1>5, <1>6

LEMMA CachedKeeps ==
  ASSUME IInv, NEW t \in Tensors, MallocInternalTensor(t), UseCached(t)
  PROVE  IInv'
<1>1. TypeOK /\ TypeOK' /\ EntriesDiffer
  BY TypeKept DEF Next, IInv
<1>2. /\ Running /\ t \in graph[node].outs /\ Alive(t, node)
      /\ UNCHANGED <<graph, desc, call, node, variantIn, contents, writer>>
      /\ toWrite' = toWrite \ {t} /\ Assigned' = Assigned \cup {t}
      /\ (\A u : Alive(u, node)' <=> Alive(u, node))
      /\ Held' = Held \cup {t}
  BY MallocFrame
<1>3. OutputsWritten /\ HeldApart /\ HeldAtHome /\ CreatorFirst /\ InputsAtHome /\ UnusedHaveNone
  BY <1>2 DEF IInv
<1>4. PICK i \in DOMAIN Pool :
        /\ Pool[i].atbTensor = t \/ (~Pool[i].used /\ Pool[i].desc = desc[t])
        /\ Pool' \in Seq(Entries) /\ DOMAIN Pool' = DOMAIN Pool
        /\ \A j \in DOMAIN Pool :
             /\ Pool'[j].addr = Pool[j].addr /\ Pool'[j].atbTensor = Pool[j].atbTensor
             /\ (j # i \/ Pool[i].atbTensor = t) => Pool'[j].used = Pool[j].used
             /\ (j = i /\ Pool[i].atbTensor # t) => Pool'[j].used
        /\ deviceData' = [deviceData EXCEPT ![t] = Pool[i].addr]
  BY <1>1, AfterCached
<1>5. /\ deviceData'[t] = Pool[i].addr
      /\ \A u \in Tensors \ {t} : deviceData'[u] = deviceData[u]
  BY <1>1, <1>4 DEF TypeOK
<1>6. /\ Pool'[i].used
      /\ \A j \in DOMAIN Pool : Pool[j].used => Pool'[j].used
  BY <1>2, <1>3, <1>4 DEF CreatorFirst
<1>7. \A u \in Held : deviceData[u] = Pool[i].addr => u = t
  <2>1. CASE Pool[i].atbTensor = t
    BY <1>2, <1>3, <2>1 DEF CreatorFirst
  <2>2. CASE ~Pool[i].used
    BY <1>1, <1>3, <2>2 DEF HeldAtHome, IsHome, EntriesDiffer
  <2> QED
    BY <1>4, <2>1, <2>2
<1>8. ASSUME NEW u, NEW a, IsHome(u, a)
      PROVE  \E j \in DOMAIN Pool' :
               /\ Pool'[j].addr = a /\ Pool'[j].used
               /\ Pool'[j].atbTensor = u \/ ~Alive(Pool'[j].atbTensor, node)
  BY <1>2, <1>4, <1>6, <1>8 DEF IsHome
<1>9. \E j \in DOMAIN Pool' :
        /\ Pool'[j].addr = Pool[i].addr /\ Pool'[j].used
        /\ Pool'[j].atbTensor = t \/ ~Alive(Pool'[j].atbTensor, node)
  <2>1. Pool'[i].addr = Pool[i].addr /\ Pool'[i].used
    BY <1>4, <1>6
  <2>2. Pool[i].atbTensor = t \/ ~Alive(Pool[i].atbTensor, node)
    BY <1>3, <1>4 DEF CreatorFirst
  <2> QED
    BY <1>2, <1>4, <2>1, <2>2
<1>10. Held \subseteq Tensors
  BY DEF Held
<1>11. HeldApart'
  BY <1>2, <1>3, <1>5, <1>7, <1>10 DEF HeldApart
<1>12. HeldAtHome'
  <2> SUFFICES ASSUME NEW u \in Held \cup {t}
               PROVE  IsHome(u, deviceData[u])'
    BY <1>2 DEF HeldAtHome, IsHome
  <2>1. CASE u = t
    BY <1>2, <1>5, <1>9, <2>1 DEF IsHome, Alive, Users
  <2>2. CASE u # t
    <3>1. IsHome(u, deviceData[u]) /\ deviceData'[u] = deviceData[u]
      BY <1>3, <1>5, <1>10, <2>2 DEF HeldAtHome
    <3> QED
      BY <1>2, <1>8, <3>1 DEF IsHome, Alive, Users
  <2> QED
    BY <2>1, <2>2
<1>13. EntriesDiffer'
  BY <1>1, <1>4 DEF EntriesDiffer
<1>14. CreatorFirst'
  <2> SUFFICES ASSUME NEW j \in DOMAIN Pool, Alive(Pool[j].atbTensor, node)
               PROVE  /\ Pool'[j].used
                      /\ \A u \in Held \cup {t} :
                           deviceData'[u] = Pool[j].addr => u = Pool[j].atbTensor
    BY <1>2, <1>4 DEF CreatorFirst
  <2>1. Pool[j].used /\ \A u \in Held : deviceData[u] = Pool[j].addr => u = Pool[j].atbTensor
    BY <1>3 DEF CreatorFirst
  <2>2. Pool[i].addr = Pool[j].addr => t = Pool[j].atbTensor
    BY <1>1, <1>4, <2>1 DEF EntriesDiffer
  <2> QED
    BY <1>5, <1>6, <1>10, <2>1, <2>2
<1>15. InputsAtHome'
  <2> SUFFICES ASSUME NEW u \in Tensors, Alive(u, node), Written(u)
               PROVE  /\ variantIn[u] \in Addresses
                      /\ contents[variantIn[u]] = <<u, writer[u]>>
                      /\ IsHome(u, variantIn[u])'
                      /\ \A v \in (Assigned \cup {t}) \ {u} : deviceData'[v] # variantIn[u]
                      /\ u \notin Assigned \cup {t} => variantIn[u] = deviceData'[u]
    BY <1>2 DEF InputsAtHome, Written, IsHome
  <2>1. /\ variantIn[u] \in Addresses
        /\ contents[variantIn[u]] = <<u, writer[u]>>
        /\ IsHome(u, variantIn[u])
        /\ \A v \in Assigned \ {u} : deviceData[v] # variantIn[u]
        /\ u \notin Assigned => variantIn[u] = deviceData[u]
    BY <1>3 DEF InputsAtHome
  <2>2. IsHome(u, variantIn[u])'
    BY <1>2, <1>4, <1>6, <2>1 DEF IsHome
  <2>3. t # u => Pool[i].addr # variantIn[u]
    BY <1>1, <1>2, <1>4, <2>1 DEF IsHome, EntriesDiffer
  <2>4. Assigned \subseteq Tensors
    BY <1>1, <1>2, GraphType DEF Assigned, Running
  <2> QED
    BY <1>5, <2>1, <2>2, <2>3, <2>4
<1>16. OutputsWritten' /\ UnusedHaveNone'
  <2>1. Users(graph, t) # {}
    BY <1>2 DEF Alive
  <2> QED
    BY <1>2, <1>3, <1>5, <2>1 DEF OutputsWritten, UnusedHaveNone, Users, Written
<1>17. (toWrite \subseteq (IF Running THEN graph[node].outs ELSE {}))'
  BY <1>2 DEF IInv, Running
<1> QED
  BY <1>1, <1>11, <1>12, <1>13, <1>14, <1>15, <1>16, <1>17 DEF IInv

LEMMA CreateKeeps ==
  ASSUME IInv, NEW t \in Tensors, MallocInternalTensor(t), CreateNew(t)
  PROVE  IInv'
<1>1. TypeOK /\ TypeOK' /\ EntriesDiffer /\ Len(Pool) \in Nat /\ DOMAIN Pool = 1 .. Len(Pool)
  BY TypeKept, PoolType DEF Next, IInv
<1>2. /\ Running /\ t \in graph[node].outs /\ Alive(t, node)
      /\ UNCHANGED <<graph, desc, call, node, variantIn, contents, writer>>
      /\ toWrite' = toWrite \ {t} /\ Assigned' = Assigned \cup {t}
      /\ (\A u : Alive(u, node)' <=> Alive(u, node))
      /\ Held' = Held \cup {t}
  BY MallocFrame
<1>3. OutputsWritten /\ HeldApart /\ HeldAtHome /\ CreatorFirst /\ InputsAtHome /\ UnusedHaveNone
  BY <1>2 DEF IInv
<1> DEFINE new == Len(Pool) + 1
<1>4. PICK a \in FreshAddresses :
        /\ Pool' \in Seq(Entries) /\ DOMAIN Pool' = DOMAIN Pool \cup {new}
        /\ \A j \in DOMAIN Pool : Pool'[j] = Pool[j]
        /\ Pool'[new].addr = a /\ Pool'[new].used /\ Pool'[new].atbTensor = t
        /\ deviceData' = [deviceData EXCEPT ![t] = a]
  BY <1>1, AfterNew
<1>5. /\ deviceData'[t] = a
      /\ \A u \in Tensors \ {t} : deviceData'[u] = deviceData[u]
  BY <1>1, <1>4 DEF TypeOK, FreshAddresses
<1>6. new \notin DOMAIN Pool
  BY <1>1
<1>7. \A j \in DOMAIN Pool : Pool[j].addr # a
  BY <1>4 DEF FreshAddresses
<1> HIDE DEF new
<1>8. ASSUME NEW u, NEW b, IsHome(u, b)
      PROVE  b # a /\ \E j \in DOMAIN Pool' :
                         /\ Pool'[j].addr = b /\ Pool'[j].used
                         /\ Pool'[j].atbTensor = u \/ ~Alive(Pool'[j].atbTensor, node)
  BY <1>4, <1>7, <1>8 DEF IsHome
<1>9. Held \subseteq Tensors /\ \A u \in Held : deviceData[u] # a
  BY <1>3, <1>8 DEF Held, HeldAtHome
<1>10. HeldApart'
  BY <1>2, <1>3, <1>5, <1>9 DEF HeldApart
<1>11. HeldAtHome'
  <2> SUFFICES ASSUME NEW u \in Held \cup {t}
               PROVE  IsHome(u, deviceData[u])'
    BY <1>2 DEF HeldAtHome, IsHome
  <2>1. CASE u = t
    BY <1>2, <1>4, <1>5, <2>1 DEF IsHome
  <2>2. CASE u # t
    <3>1. IsHome(u, deviceData[u]) /\ deviceData'[u] = deviceData[u]
      BY <1>3, <1>5, <1>9, <2>2 DEF HeldAtHome
    <3> QED
      BY <1>2, <1>8, <3>1 DEF IsHome, Alive, Users
  <2> QED
    BY <2>1, <2>2
<1>12. EntriesDiffer'
  BY <1>1, <1>4, <1>6, <1>7 DEF EntriesDiffer
<1>13. CreatorFirst'
  <2> SUFFICES ASSUME NEW j \in DOMAIN Pool', Alive(Pool'[j].atbTensor, node)
               PROVE  /\ Pool'[j].used
                      /\ \A u \in Held \cup {t} :
                           deviceData'[u] = Pool'[j].addr => u = Pool'[j].atbTensor
    BY <1>2 DEF CreatorFirst, Alive, Users
  <2>1. CASE j = new
    BY <1>4, <1>5, <1>9, <2>1
  <2>2. CASE j \in DOMAIN Pool
    <3>1. Pool'[j] = Pool[j] /\ Pool[j].addr # a
      BY <1>4, <1>7, <2>2
    <3>2. /\ Pool[j].used
          /\ \A u \in Held : deviceData[u] = Pool[j].addr => u = Pool[j].atbTensor
      BY <1>3, <2>2, <3>1 DEF CreatorFirst
    <3> QED
      BY <1>5, <1>9, <3>1, <3>2
  <2> QED
    BY <1>4, <2>1, <2>2
<1>14. InputsAtHome'
  <2> SUFFICES ASSUME NEW u \in Tensors, Alive(u, node), Written(u)
               PROVE  /\ variantIn[u] \in Addresses
                      /\ contents[variantIn[u]] = <<u, writer[u]>>
                      /\ IsHome(u, variantIn[u])'
                      /\ \A v \in (Assigned \cup {t}) \ {u} : deviceData'[v] # variantIn[u]
                      /\ u \notin Assigned \cup {t} => variantIn[u] = deviceData'[u]
    BY <1>2 DEF InputsAtHome, Written, IsHome
  <2>1. /\ variantIn[u] \in Addresses
        /\ contents[variantIn[u]] = <<u, writer[u]>>
        /\ IsHome(u, variantIn[u])
        /\ \A v \in Assigned \ {u} : deviceData[v] # variantIn[u]
        /\ u \notin Assigned => variantIn[u] = deviceData[u]
    BY <1>3 DEF InputsAtHome
  <2>2. IsHome(u, variantIn[u])' /\ variantIn[u] # a
    BY <1>2, <1>8, <2>1 DEF IsHome, Alive, Users
  <2>3. Assigned \subseteq Tensors
    BY <1>1, <1>2, GraphType DEF Assigned, Running
  <2> QED
    BY <1>5, <2>1, <2>2, <2>3
<1>15. OutputsWritten' /\ UnusedHaveNone'
  <2>1. Users(graph, t) # {}
    BY <1>2 DEF Alive
  <2> QED
    BY <1>2, <1>3, <1>5, <2>1 DEF OutputsWritten, UnusedHaveNone, Users, Written
<1>16. (toWrite \subseteq (IF Running THEN graph[node].outs ELSE {}))'
  BY <1>2 DEF IInv, Running
<1> QED
  BY <1>1, <1>10, <1>11, <1>12, <1>13, <1>14, <1>15, <1>16 DEF IInv

(* The tensors used for the last time, which the step frees, held a buffer *)
(* each, and so no entry of a tensor alive at the next node is freed.      *)
LEMMA FreedAreDead ==
  ASSUME IInv, Running, toWrite = {}, WrittenFirst(graph),
         NEW u \in LastUsed, deviceData[u] # Null
  PROVE  u \in Held /\ ~Alive(u, node + 1)
<1>1. TypeOK /\ OutputsWritten /\ UnusedHaveNone
  BY DEF IInv
<1>2. Users(graph, u) # {} /\ u \in Tensors
  BY <1>1 DEF UnusedHaveNone, LastUsed
<1>3. ~Alive(u, node + 1) /\ u \in graph[node].ins \cup graph[node].outs
  BY <1>1, <1>2, LastUse
<1>4. Alive(u, node)
  BY <1>1, <1>3, UsedNow
<1>5. CASE u \in graph[node].outs
  BY <1>2, <1>3, <1>4, <1>5 DEF Held, Assigned, Running
<1>6. CASE u \in graph[node].ins
  BY <1>1, <1>2, <1>3, <1>4, <1>6 DEF Held, WrittenFirst, OutputsWritten, Running
<1> QED
  BY <1>3, <1>5, <1>6

LEMMA ExecuteKeeps ==
  ASSUME IInv, ExecuteSingleNode, WrittenFirst(graph)
  PROVE  IInv'
<1>1. TypeOK /\ TypeOK' /\ EntriesDiffer /\ UnusedHaveNone /\ node \in Nat
  BY TypeKept, NodeCountAssumption DEF Next, IInv, TypeOK
<1>2. /\ Running /\ toWrite = {} /\ node' = node + 1 /\ variantIn' = deviceData
      /\ Pool' = FreeGraphInternalTensor
      /\ toWrite' = (IF node < NodeCount THEN graph[node + 1].outs ELSE {})
      /\ UNCHANGED <<graph, desc, call, deviceData>>
  BY DEF ExecuteSingleNode, Running, Pool
<1>3. OutputsWritten /\ HeldApart /\ HeldAtHome /\ CreatorFirst /\ InputsAtHome
  BY <1>2 DEF IInv
<1>4. NodeCount \in Nat \ {0} /\ graph[node].outs \subseteq Tensors
  BY <1>1, <1>2, NodeCountAssumption, GraphType DEF Running
<1>5. UnusedHaveNone'
  BY <1>1, <1>2 DEF UnusedHaveNone, Users
<1>6. (toWrite \subseteq (IF Running THEN graph[node].outs ELSE {}))'
  BY <1>1, <1>2, <1>4 DEF Running, Nodes
<1>7. \A u \in Tensors : writer'[u] = IF u \in graph[node].outs THEN node ELSE writer[u]
  BY DEF ExecuteSingleNode
<1>8. EntriesDiffer'
  BY <1>1, <1>2, FreedPool DEF EntriesDiffer
<1>9. ASSUME Running'
      PROVE  OutputsWritten' /\ HeldApart' /\ HeldAtHome' /\ CreatorFirst' /\ InputsAtHome'
  <2>1. Assigned' = {}
    BY <1>1, <1>2, <1>4, <1>9 DEF Assigned, Running, Nodes
  <2>2. ASSUME NEW u \in Tensors, Alive(u, node + 1), Written(u)'
        PROVE  u \in Held
    <3>1. Alive(u, node)
      BY <1>1, <1>2, <2>2, AliveLater
    <3> QED
      BY <1>2, <1>7, <2>2, <3>1 DEF Held, Assigned, Written, Running
  <2>3. \A u : Alive(u, node)' <=> Alive(u, node + 1)
    BY <1>2 DEF Alive, Users
  <2>4. Held' \subseteq Held /\ \A u \in Held' : Alive(u, node + 1) /\ Written(u)'
    BY <2>1, <2>2, <2>3 DEF Held
  <2>5. ASSUME NEW j \in DOMAIN Pool, NEW u \in Tensors, u \in Held,
               Pool[j].used, Pool[j].addr = deviceData[u], Alive(u, node + 1)
        PROVE  Pool'[j].used
    <3>1. Pool[j].addr # Null
      BY <1>1, PoolType, NullAssumption DEF Entries
    <3>2. \A v \in LastUsed : deviceData[v] # Pool[j].addr
      BY <1>1, <1>2, <1>3, <2>5, <3>1, FreedAreDead DEF HeldApart
    <3> QED
      BY <1>1, <1>2, <2>5, <3>2, FreedPool
  <2>6. OutputsWritten'
    <3> SUFFICES ASSUME NEW n \in 1 .. node, NEW u \in graph[n].outs
                 PROVE  writer'[u] # 0
      BY <1>1, <1>2 DEF OutputsWritten, Written
    <3>1. n \in Nodes /\ u \in Tensors
      BY <1>1, <1>2, <1>4, GraphType DEF Nodes, Running
    <3>2. n # node => writer[u] # 0
      BY <1>1, <1>3 DEF OutputsWritten, Written
    <3> QED
      BY <1>1, <1>2, <1>7, <3>1, <3>2 DEF Nodes, Running
  <2>7. HeldApart'
    BY <1>2, <1>3, <2>4 DEF HeldApart
  <2>8. ASSUME NEW u \in Held, Alive(u, node + 1)
        PROVE  IsHome(u, deviceData[u])'
    <3>1. PICK j \in DOMAIN Pool :
            /\ Pool[j].addr = deviceData[u] /\ Pool[j].used
            /\ Pool[j].atbTensor = u \/ ~Alive(Pool[j].atbTensor, node)
      BY <1>3, <2>8 DEF HeldAtHome, IsHome
    <3>2. Pool'[j].used
      BY <2>5, <2>8, <3>1 DEF Held
    <3>3. j \in DOMAIN Pool' /\ Pool'[j].addr = Pool[j].addr /\ Pool'[j].atbTensor = Pool[j].atbTensor
      BY <1>1, <1>2, FreedPool
    <3>4. Pool[j].atbTensor = u \/ ~Alive(Pool[j].atbTensor, node + 1)
      BY <1>1, <1>2, <3>1, AliveLater
    <3> QED
      BY <1>2, <3>1, <3>2, <3>3, <3>4 DEF IsHome, Alive, Users
  <2>9. HeldAtHome'
    BY <2>4, <2>8 DEF HeldAtHome
  <2>10. CreatorFirst'
    <3> SUFFICES ASSUME NEW j \in DOMAIN Pool, Alive(Pool[j].atbTensor, node + 1)
                 PROVE  /\ Pool'[j].used
                        /\ \A u \in Held' : deviceData[u] = Pool[j].addr => u = Pool[j].atbTensor
      BY <1>1, <1>2, FreedPool DEF CreatorFirst, Alive, Users
    <3>1. /\ Pool[j].used
          /\ \A u \in Held : deviceData[u] = Pool[j].addr => u = Pool[j].atbTensor
      BY <1>1, <1>2, <1>3, AliveLater DEF CreatorFirst
    <3>2. Pool[j].addr # Null
      BY <1>1, PoolType, NullAssumption DEF Entries
    <3>3. \A v \in LastUsed : deviceData[v] # Pool[j].addr
      BY <1>2, <3>1, <3>2, FreedAreDead
    <3> QED
      BY <1>1, <1>2, <2>4, <3>1, <3>3, FreedPool
  <2>11. InputsAtHome'
    <3> SUFFICES ASSUME NEW u \in Tensors, Alive(u, node + 1), Written(u)'
                 PROVE  /\ deviceData[u] \in Addresses
                        /\ contents'[deviceData[u]] = <<u, writer'[u]>>
                        /\ IsHome(u, deviceData[u])'
      BY <1>2, <2>1, <2>3 DEF InputsAtHome, IsHome
    <3>1. u \in Held /\ IsHome(u, deviceData[u])'
      BY <2>2, <2>8
    <3>2. deviceData[u] \in Addresses
      BY <1>1, <1>3, <3>1, PoolType DEF HeldAtHome, IsHome, Entries
    <3>3. \A v \in graph[node].outs : v \in Held
      BY <1>1, <1>2, <1>4, UsedNow DEF Held, Assigned, Running
    <3>4. contents'[deviceData[u]] =
            IF \E v \in graph[node].outs : deviceData[v] = deviceData[u]
            THEN <<CHOOSE v \in graph[node].outs : deviceData[v] = deviceData[u], node>>
            ELSE contents[deviceData[u]]
      BY <3>2 DEF ExecuteSingleNode
    <3>5. CASE u \in graph[node].outs
      <4>1. (CHOOSE v \in graph[node].outs : deviceData[v] = deviceData[u]) = u
        BY <1>3, <3>1, <3>3, <3>5 DEF HeldApart
      <4> QED
        BY <1>7, <3>1, <3>2, <3>4, <3>5, <4>1
    <3>6. CASE u \notin graph[node].outs
      <4>1. ~\E v \in graph[node].outs : deviceData[v] = deviceData[u]
        BY <1>3, <3>1, <3>3, <3>6 DEF HeldApart
      <4>2. Alive(u, node) /\ Written(u) /\ u \notin Assigned /\ writer'[u] = writer[u]
        BY <1>7, <3>1, <3>6 DEF Held, Assigned, Running
      <4>3. contents[variantIn[u]] = <<u, writer[u]>> /\ variantIn[u] = deviceData[u]
        BY <1>3, <4>2 DEF InputsAtHome
      <4> QED
        BY <3>1, <3>2, <3>4, <4>1, <4>2, <4>3
    <3> QED
      BY <3>5, <3>6
  <2> QED
    BY <2>6, <2>7, <2>9, <2>10, <2>11
<1> QED
  BY <1>1, <1>5, <1>6, <1>8, <1>9 DEF IInv

(* The graph stays the one the model was built with.                       *)
WellUsed == WrittenFirst(graph)

LEMMA GraphKept == Next => UNCHANGED graph
BY DEF Next, ExecuteStart, MallocInternalTensor, UseCached, CreateNew, ExecuteSingleNode

LEMMA InitHolds == Init => IInv
<1> SUFFICES ASSUME Init
             PROVE  IInv
  OBVIOUS
<1>1. NodeCount \in Nat \ {0}
  BY NodeCountAssumption
<1>2. TypeOK
  BY <1>1, MaxCallsAssumption DEF Init, TypeOK, Nodes
<1>3. ~Running /\ toWrite = {}
  BY <1>1 DEF Init, Running, Nodes
<1>4. EntriesDiffer /\ UnusedHaveNone
  BY DEF Init, EntriesDiffer, UnusedHaveNone, Pool
<1> QED
  BY <1>2, <1>3, <1>4 DEF IInv

LEMMA StepKeeps == IInv /\ WellUsed /\ [Next]_vars => IInv'
<1> SUFFICES ASSUME IInv, WellUsed, [Next]_vars
             PROVE  IInv'
  OBVIOUS
<1>1. CASE ExecuteStart
  BY <1>1, StartKeeps
<1>2. ASSUME NEW t \in Tensors, MallocInternalTensor(t)
      PROVE  IInv'
  BY <1>2, CachedKeeps, CreateKeeps DEF MallocInternalTensor
<1>3. CASE ExecuteSingleNode
  BY <1>3, ExecuteKeeps DEF WellUsed
<1>4. CASE UNCHANGED vars
  <2>1. TypeOK' /\ UnusedHaveNone' /\ EntriesDiffer'
    BY <1>4 DEF vars, IInv, TypeOK, UnusedHaveNone, EntriesDiffer, Users, Pool
  <2>2. (toWrite \subseteq (IF Running THEN graph[node].outs ELSE {}))' /\ (Running' <=> Running)
    BY <1>4 DEF vars, IInv, Running
  <2>3. /\ Held' = Held /\ Assigned' = Assigned /\ Pool' = Pool
        /\ UNCHANGED <<graph, node, deviceData, variantIn, contents, writer>>
        /\ (\A u : Alive(u, node)' <=> Alive(u, node))
    BY <1>4 DEF vars, Held, Alive, Written, Assigned, Users, Pool
  <2>4. Running => (OutputsWritten /\ HeldApart /\ HeldAtHome /\ CreatorFirst)'
    BY <2>3 DEF IInv, OutputsWritten, HeldApart, HeldAtHome, CreatorFirst, Written, IsHome,
       Alive, Users
  <2>5. Running => InputsAtHome'
    BY <2>3 DEF IInv, InputsAtHome, Written, IsHome, Alive, Users
  <2> QED
    BY <2>1, <2>2, <2>4, <2>5 DEF IInv
<1> QED
  BY <1>1, <1>2, <1>3, <1>4 DEF Next

LEMMA Invariant ==
  ASSUME \A g \in Graphs : WrittenFirst(g)
  PROVE  Spec => [](IInv /\ WellUsed)
<1>1. Init => IInv /\ WellUsed
  BY InitHolds DEF Init, WellUsed
<1>2. WellUsed /\ [Next]_vars => WellUsed'
  BY GraphKept DEF WellUsed, WrittenFirst, vars
<1>3. IInv /\ WellUsed /\ [Next]_vars => (IInv /\ WellUsed)'
  BY <1>2, StepKeeps
<1> QED
  BY <1>1, <1>3, PTL DEF Spec

(* Whatever graph GraphOperation executes, as long as a node reads only    *)
(* what earlier ones have written: a node finds its inputs as they were    *)
(* written, and none of its outputs has the memory of another's input.     *)
THEOREM InputsAreIntact ==
  ASSUME \A g \in Graphs : WrittenFirst(g)
  PROVE  Spec => []InputsIntact
<1>1. IInv => InputsIntact
  <2> SUFFICES ASSUME IInv, node \in Nodes, NEW t \in graph[node].ins, writer[t] # 0
               PROVE  /\ contents[variantIn[t]] = <<t, writer[t]>>
                      /\ \A u \in Assigned \ {t} : deviceData[u] # variantIn[t]
    BY DEF InputsIntact
  <2>1. t \in Tensors /\ Alive(t, node)
    BY UsedNow, GraphType DEF IInv, Running
  <2> QED
    BY <2>1 DEF IInv, Running, InputsAtHome, Written
<1> QED
  BY <1>1, Invariant, PTL

LiveApart == \A t, u \in Live : deviceData[t] = deviceData[u] => t = u

LEMMA LiveIsHeld == IInv => LiveApart
<1> SUFFICES ASSUME IInv
             PROVE  LiveApart
  OBVIOUS
<1>1. ASSUME NEW t \in Live
      PROVE  t \in Held
  <2>1. Running /\ t \in Tensors
    BY <1>1, GraphType DEF Live, Running, Assigned, IInv
  <2>2. CASE t \in Assigned
    BY <2>1, <2>2, UsedNow DEF Held, Assigned, Running, IInv
  <2>3. CASE t \notin Assigned
    BY <1>1, <2>1, <2>3 DEF Live, Held, Alive, Users, Readers, Written
  <2> QED
    BY <2>2, <2>3
<1> QED
  BY <1>1 DEF IInv, HeldApart, LiveApart, Live, Assigned, Running

(* The cached torch tensors implement BufferAssignment: a buffer goes to a *)
(* tensor only while no other tensor still to be read holds it.            *)
THEOREM KeepsPromise ==
  ASSUME \A g \in Graphs : WrittenFirst(g)
  PROVE  Spec => ImplementsBufferAssignment
<1>1. Init => Promise!Init
  <2> SUFFICES ASSUME Init
               PROVE  Promise!Init
    OBVIOUS
  <2>1. Live = {}
    BY NodeCountAssumption DEF Init, Live, Nodes
  <2> QED
    BY <2>1 DEF Init, Promise!Init
<1>2. IInv /\ IInv' /\ [Next]_vars => [Promise!Next]_<<Live, deviceData>>
  <2> SUFFICES ASSUME IInv, IInv', [Next]_vars
               PROVE  Promise!Next \/ UNCHANGED <<Live, deviceData>>
    OBVIOUS
  <2>0. TypeOK /\ NodeCount \in Nat \ {0} /\ 1 \in Nodes
    BY NodeCountAssumption DEF IInv, Nodes
  <2>1. CASE ExecuteStart
    <3>1. Live' = {} /\ deviceData' = deviceData
      BY <2>0, <2>1 DEF ExecuteStart, Live, Assigned
    <3> QED
      BY <3>1 DEF Promise!Next, Promise!Die
  <2>2. ASSUME NEW t \in Tensors, MallocInternalTensor(t)
        PROVE  Promise!Next
    <3>1. /\ Running /\ Assigned' = Assigned \cup {t}
          /\ UNCHANGED <<graph, node, writer>>
      BY <2>2, MallocFrame
    <3>2. t \in Live' /\ Live' \subseteq Live \cup {t}
      BY <3>1 DEF Live, Readers, Running
    <3>3. \A u, v \in Live' : deviceData'[u] = deviceData'[v] => u = v
      <4>1. IInv' => LiveApart'
        BY LiveIsHeld, PTL
      <4> QED
        BY <4>1 DEF LiveApart
    <3>4. \E b \in Addresses : deviceData' = [deviceData EXCEPT ![t] = b]
      <4>1. CASE UseCached(t)
        <5>1. PICK i \in DOMAIN Pool : deviceData' = [deviceData EXCEPT ![t] = Pool[i].addr]
          BY <2>0, <4>1, Found
        <5>2. Pool[i].addr \in Addresses
          BY <2>0, PoolType DEF Entries
        <5> QED
          BY <5>1, <5>2
      <4>2. CASE CreateNew(t)
        BY <4>2 DEF CreateNew, FreshAddresses
      <4> QED
        BY <2>2, <4>1, <4>2 DEF MallocInternalTensor
    <3> QED
      BY <3>2, <3>3, <3>4 DEF Promise!Next, Promise!Assign, Promise!Distinct
  <2>3. CASE ExecuteSingleNode
    <3>1. /\ Running /\ toWrite = {} /\ node' = node + 1 /\ deviceData' = deviceData
          /\ toWrite' = (IF node < NodeCount THEN graph[node + 1].outs ELSE {})
          /\ graph' = graph
      BY <2>3 DEF ExecuteSingleNode, Running
    <3>2. \A u \in Tensors : writer'[u] = IF u \in graph[node].outs THEN node ELSE writer[u]
      BY <2>3 DEF ExecuteSingleNode
    <3>3. node \in Nat /\ Assigned = graph[node].outs
      BY <2>0, <3>1 DEF Running, Nodes, Assigned
    <3>4. CASE node = NodeCount
      <4>1. Live' = {}
        BY <2>0, <3>1, <3>4 DEF Live, Nodes
      <4> QED
        BY <3>1, <4>1 DEF Promise!Next, Promise!Die
    <3>5. CASE node # NodeCount
      <4>1. node + 1 \in Nodes /\ Assigned' = {}
        BY <2>0, <3>1, <3>3, <3>5 DEF Running, Nodes, Assigned
      <4>2. ASSUME NEW u \in Live'
            PROVE  u \in Live
        <5>1. u \in Tensors /\ writer'[u] # 0 /\ \E n \in Readers(graph, u) : n >= node + 1
          BY <3>1, <4>1, <4>2 DEF Live, Readers
        <5>2. \E n \in Readers(graph, u) : n >= node
          BY <2>0, <3>3, <5>1 DEF Readers, Nodes
        <5> QED
          BY <3>1, <3>2, <3>3, <5>1, <5>2 DEF Live, Running
      <4> QED
        BY <3>1, <4>2 DEF Promise!Next, Promise!Die
    <3> QED
      BY <3>4, <3>5
  <2>4. CASE UNCHANGED vars
    BY <2>4 DEF vars, Live, Readers, Assigned
  <2> QED
    BY <2>1, <2>2, <2>3, <2>4 DEF Next
<1> QED
  BY <1>1, <1>2, Invariant, PTL DEF Spec, ImplementsBufferAssignment, Promise!Spec
=============================================================================
