--------------------------- MODULE AclNNOpsProofs ---------------------------
(***************************************************************************)
(* One AclNN operation, for any number of Setups, any shapes and any host  *)
(* data: an operation whose tensors are well numbered runs every call with *)
(* the pack it was set up with and releases what it makes once; and every  *)
(* operation of the table is well numbered, whatever its rank.             *)
(***************************************************************************)
EXTENDS AclNNOps, SequenceTheorems, TLAPS

\* What is asked of the table; OperationsAreSound proves it.
TableIsSound == \A o \in Operations : WellNumbered(o)

\* The cache object has what Destroy and a hit go by, and the pack of a Setup
\* whose Execute is still to come has the host data the executor was made with.
CacheInv ==
  /\ cache = [executor |-> cache.executor, repeatable |-> cache.repeatable, made |-> cache.made,
              pack |-> cache.pack, arguments |-> cache.arguments, results |-> cache.results]
  /\ cache.executor \in BOOLEAN
  /\ cache.repeatable \in BOOLEAN
  /\ cache.repeatable => cache.executor
  /\ cache.executor => cache.made \in 1 .. uses /\ cache.pack \in GivenPacks
  /\ ~cache.executor => cache.made = 0
  /\ pack # None => cache.executor /\ pack \in GivenPacks /\ cache.pack.host = pack.host

\* Every object tells the Setup that made it.
ObjectsInv == \A o \in objects : \E n \in 1 .. uses : o \in Made(n)

IInv ==
  /\ op \in Operations
  /\ uses \in Nat
  /\ CacheInv
  /\ ObjectsInv
  /\ ReleasedOnce
  /\ ArgumentsAreCurrent
  /\ HostDataIsCurrent

-----------------------------------------------------------------------------
\* The objects of one Setup of operation o, as a function of both.
MadeBy(o, n) ==
  {<<n, "in", i - 1>> : i \in Tensors(o.ins)} \cup {<<n, "out", i - 1>> : i \in Tensors(o.outs)}
    \cup {<<n, "inList", l>> : l \in {l \in DOMAIN o.lists : o.lists[l] # {}}}
    \cup {<<n, "outList", l>> : l \in DOMAIN o.outLists}
    \cup {<<n, "array", i>> : i \in o.host \ o.unrecorded}
    \cup {<<n, "aux", a>> : a \in o.aux} \cup {<<n, "loose", x>> : x \in o.loose}

LEMMA MadeIsMadeBy ==
  ASSUME NEW n
  PROVE  Made(n) = MadeBy(op, n)
BY DEF Made, MadeBy

LEMMA MadeKept ==
  ASSUME UNCHANGED op
  PROVE  \A n : Made(n)' = Made(n)
<1> TAKE n
<1>1. Made(n)' = MadeBy(op', n)
  BY DEF Made, MadeBy
<1> QED
  BY <1>1, MadeIsMadeBy

\* A tensor is released on its own or with its list, never both.
LEMMA SideReleased ==
  ASSUME NEW slots, NEW tensors, NEW lists, SideIsSound(slots, tensors, lists), NEW n, NEW side
  PROVE  /\ OnTheirOwn(n, side, slots) \cap WithTheirList(n, side, lists) = {}
         /\ OnTheirOwn(n, side, slots) \cup WithTheirList(n, side, lists)
              = {<<n, side, i - 1>> : i \in Tensors(slots)}
<1> DEFINE InTheirList == {i - 1 : i \in {i \in Tensors(slots) : slots[i].list # NotInTensorList}}
<1>1. Tensors(slots) \subseteq Nat /\ \A i \in Tensors(slots) : slots[i].list \in Int
  <2> DEFINE Slot == [list : Int, idx : Int, update : BOOLEAN]
  <2>1. slots \in Seq(Slot)
    BY DEF SideIsSound
  <2>2. \A i \in DOMAIN slots : i \in Nat /\ slots[i].list \in Int
    <3>1. \A x \in Slot : x.list \in Int
      OBVIOUS
    <3> HIDE DEF Slot
    <3> QED
      BY <2>1, <3>1
  <2> QED
    BY <2>2 DEF Tensors
<1>2. Listed(lists) = InTheirList
  <2>1. ASSUME NEW x \in Listed(lists) PROVE x \in InTheirList
    <3>1. PICK l \in DOMAIN lists : x \in lists[l]
      BY <2>1 DEF Listed
    <3>2. PICK i \in Tensors(slots) : slots[i].list = l - 1 /\ x = i - 1
      BY <3>1 DEF SideIsSound
    <3>3. l \in Nat /\ l > 0
      BY DEF SideIsSound
    <3> QED
      BY <3>2, <3>3 DEF NotInTensorList
  <2>2. ASSUME NEW i \in Tensors(slots), slots[i].list # NotInTensorList PROVE i - 1 \in Listed(lists)
    <3>1. slots[i].list + 1 \in DOMAIN lists /\ slots[i].list = (slots[i].list + 1) - 1
      BY <1>1, <2>2 DEF SideIsSound
    <3>2. i - 1 \in lists[slots[i].list + 1]
      BY <3>1 DEF SideIsSound
    <3> QED
      BY <3>1, <3>2 DEF Listed
  <2> QED
    BY <2>1, <2>2
<1>3. \A i, j \in Tensors(slots) : i - 1 = j - 1 => i = j
  BY <1>1
<1>4. OnTheirOwn(n, side, slots) \cap WithTheirList(n, side, lists) = {}
  BY <1>2, <1>3 DEF OnTheirOwn, WithTheirList
<1>5. OnTheirOwn(n, side, slots) \cup WithTheirList(n, side, lists) = {<<n, side, i - 1>> : i \in Tensors(slots)}
  BY <1>2 DEF OnTheirOwn, WithTheirList
<1> QED
  BY <1>4, <1>5

LEMMA MadeWhen ==
  ASSUME NEW n
  PROVE  \A o \in Made(n) : o[1] = n
BY DEF Made

\* Destroy releases all that the cache object was made with, but what is loose, and nothing twice.
LEMMA DestroyReleases ==
  ASSUME WellNumbered(op), cache.executor, Made(cache.made) \subseteq objects, twice = {}
  PROVE  /\ Destroy.twice = {}
         /\ Destroy.objects = {o \in objects : o \in Made(cache.made) => o[2] = "loose"}
<1> DEFINE n == cache.made
           own == OnTheirOwn(n, "in", op.ins) \cup OnTheirOwn(n, "out", op.outs)
           listed == WithTheirList(n, "in", op.lists) \cup WithTheirList(n, "out", op.outLists)
           others == {o \in Made(n) : o[2] \in {"inList", "outList", "array", "aux"}}
           released == own \cup listed \cup others
<1>1. Destroy = [objects |-> objects \ released, twice |-> twice \cup (own \cap listed) \cup (released \ objects)]
  BY DEF Destroy
<1>2. own \cap listed = {}
  <2>1. /\ \A o \in OnTheirOwn(n, "in", op.ins) \cup WithTheirList(n, "in", op.lists) : o[2] = "in"
        /\ \A o \in OnTheirOwn(n, "out", op.outs) \cup WithTheirList(n, "out", op.outLists) : o[2] = "out"
    BY DEF OnTheirOwn, WithTheirList
  <2>2. /\ OnTheirOwn(n, "in", op.ins) \cap WithTheirList(n, "in", op.lists) = {}
        /\ OnTheirOwn(n, "out", op.outs) \cap WithTheirList(n, "out", op.outLists) = {}
    BY SideReleased DEF WellNumbered
  <2> QED
    BY <2>1, <2>2
<1>3. released = {o \in Made(n) : o[2] # "loose"}
  <2>1. own \cup listed = {<<n, "in", i - 1>> : i \in Tensors(op.ins)} \cup {<<n, "out", i - 1>> : i \in Tensors(op.outs)}
    BY SideReleased DEF WellNumbered
  <2>2. own \cup listed \subseteq {o \in Made(n) : o[2] # "loose"}
    BY <2>1 DEF Made
  <2>3. \A o \in Made(n) : o \in own \cup listed \/ o[2] \in {"inList", "outList", "array", "aux", "loose"}
    BY <2>1 DEF Made
  <2> HIDE DEF own, listed
  <2> QED
    BY <2>2, <2>3
<1> QED
  BY <1>1, <1>2, <1>3

-----------------------------------------------------------------------------
\* Once the tensors of a well numbered side are refreshed, the call has the addresses of the pack.
LEMMA RefreshedAddress ==
  ASSUME NEW slots, NEW tensors, NEW lists, SideIsSound(slots, tensors, lists), NEW old, NEW n,
         NEW k \in DOMAIN tensors, tensors[k] # Null
  PROVE  Refreshed(old, slots, tensors, n)[k] = <<tensors[k], n>>
<1> DEFINE SameSlot(i) == {j \in Tensors(slots) : slots[j].list = slots[i].list /\ slots[j].idx = slots[i].idx}
           IsFirst(h) == \A l \in 1 .. h - 1 : tensors[l] # tensors[h]
           LastOf(i) == CHOOSE j \in SameSlot(i) : \A l \in SameSlot(i) : l <= j
           Reaches(h) == tensors[h] # Null /\ tensors[h] + 1 \in Tensors(slots) /\ IsFirst(h)
<1>1. /\ tensors \in Seq(Int) /\ k \in 1 .. Len(tensors) /\ tensors[k] \in Int
      /\ tensors[k] + 1 \in Tensors(slots) /\ DOMAIN tensors = 1 .. Len(tensors)
  BY DEF SideIsSound
<1>2. IsFirst(k)
  <2> SUFFICES ASSUME NEW l \in 1 .. k - 1 PROVE tensors[l] # tensors[k]
    OBVIOUS
  <2>1. l \in DOMAIN tensors /\ l # k
    BY <1>1
  <2> QED
    BY <2>1 DEF SideIsSound
<1>3. SameSlot(tensors[k] + 1) = {tensors[k] + 1}
  BY <1>1 DEF SideIsSound
<1>4. LastOf(tensors[k] + 1) = tensors[k] + 1
  <2>1. tensors[k] + 1 <= tensors[k] + 1
    BY <1>1
  <2> HIDE DEF SameSlot
  <2> QED
    BY <1>3, <2>1
<1>5. Refreshed(old, slots, tensors, n)[k] = <<LastOf(tensors[k] + 1) - 1, n>>
  BY <1>1, <1>2 DEF Refreshed
<1> HIDE DEF LastOf
<1> QED
  BY <1>1, <1>4, <1>5

-----------------------------------------------------------------------------
LEMMA InitHolds == Init => IInv
BY DEF Init, IInv, CacheInv, ObjectsInv, ReleasedOnce, ArgumentsAreCurrent, HostDataIsCurrent, EmptyCache

\* What is left when the cache object has been destroyed: what is loose, or belongs to a Setup that failed.
LEMMA AfterDestroy ==
  ASSUME TableIsSound, IInv
  PROVE  /\ Destroy.twice = {}
         /\ Destroy.objects \subseteq objects
         /\ \A o \in Destroy.objects : o[2] = "loose" \/ o[1] \in failed
<1>1. CASE cache.executor
  <2>1. /\ Destroy.twice = {}
        /\ Destroy.objects = {o \in objects : o \in Made(cache.made) => o[2] = "loose"}
    BY <1>1, DestroyReleases DEF TableIsSound, IInv, ReleasedOnce
  <2>2. ASSUME NEW o \in objects, o[1] = cache.made
        PROVE  o \in Made(cache.made)
    <3>1. PICK n \in 1 .. uses : o \in Made(n)
      BY <2>2 DEF IInv, ObjectsInv
    <3> QED
      BY <2>2, <3>1, MadeWhen
  <2> QED
    BY <2>1, <2>2 DEF IInv, ReleasedOnce
<1>2. CASE ~cache.executor
  <2>1. Destroy = [objects |-> objects, twice |-> twice]
    BY <1>2 DEF Destroy
  <2>2. ASSUME NEW o \in objects
        PROVE  o[1] # cache.made
    <3>1. PICK n \in 1 .. uses : o \in Made(n)
      BY <2>2 DEF IInv, ObjectsInv
    <3>2. o[1] = n /\ cache.made = 0
      BY <1>2, <3>1, MadeWhen DEF IInv, CacheInv
    <3> QED
      BY <3>1, <3>2
  <2> QED
    BY <2>1, <2>2 DEF IInv, ReleasedOnce
<1> QED
  BY <1>1, <1>2

\* What a Setup adds.
LEMMA ObjectsAdded ==
  ASSUME TableIsSound, IInv, UNCHANGED op, uses' = uses + 1,
         objects' = Destroy.objects \cup Made(uses')
  PROVE  /\ ObjectsInv'
         /\ \A o \in objects' : o[2] = "loose" \/ o[1] = uses + 1 \/ o[1] \in failed
         /\ Made(uses + 1) \subseteq objects'
<1>1. objects' = Destroy.objects \cup Made(uses + 1) /\ uses \in Nat
  BY DEF IInv
<1>2. \A o \in objects' : o \in objects \/ o \in Made(uses + 1)
  BY <1>1, AfterDestroy
<1>3. \A o \in objects' : \E n \in 1 .. uses + 1 : o \in Made(n)
  BY <1>1, <1>2 DEF IInv, ObjectsInv
<1>4. ObjectsInv'
  BY <1>3, MadeKept DEF ObjectsInv
<1> QED
  BY <1>1, <1>4, AfterDestroy, MadeWhen

LEMMA SetupCreatesStep == ASSUME TableIsSound, IInv, SetupCreates PROVE IInv'
<1>1. PICK p \in GivenPacks, repeatable \in BOOLEAN :
        /\ pack' = p
        /\ cache' = [executor |-> TRUE, repeatable |-> repeatable, made |-> uses', pack |-> p,
                     arguments |-> Address(op.call, uses'), results |-> Address(op.gets, uses')]
  BY DEF SetupCreates
<1>2. /\ uses' = uses + 1 /\ uses \in Nat /\ UNCHANGED <<op, launched, failed>>
      /\ objects' = Destroy.objects \cup Made(uses') /\ twice' = {}
  BY AfterDestroy DEF SetupCreates, IInv
<1>3. cache'.made = uses + 1 /\ cache'.pack = p /\ cache'.executor
  BY <1>1, <1>2
<1>4. ObjectsInv' /\ ReleasedOnce'
  BY <1>2, <1>3, ObjectsAdded, MadeKept DEF ReleasedOnce
<1>5. GivenPacks' = GivenPacks
  BY <1>2 DEF GivenPacks
<1>6. CacheInv'
  BY <1>1, <1>2, <1>5 DEF CacheInv
<1> QED
  BY <1>2, <1>4, <1>6 DEF IInv, ArgumentsAreCurrent, HostDataIsCurrent

LEMMA SetupFailsStep == ASSUME TableIsSound, IInv, SetupFails PROVE IInv'
<1>1. /\ uses' = uses + 1 /\ uses \in Nat /\ UNCHANGED <<op, launched>> /\ pack' = None /\ cache' = EmptyCache
      /\ objects' = Destroy.objects \cup Made(uses') /\ twice' = {} /\ failed' = failed \cup {uses + 1}
  BY AfterDestroy DEF SetupFails, IInv
<1>2. ObjectsInv' /\ ReleasedOnce'
  BY <1>1, ObjectsAdded DEF ReleasedOnce, EmptyCache
<1>3. CacheInv'
  BY <1>1 DEF CacheInv, EmptyCache
<1> QED
  BY <1>1, <1>2, <1>3 DEF IInv, ArgumentsAreCurrent, HostDataIsCurrent

\* A hit goes by the host data too.
LEMMA SetupHitStep == ASSUME TableIsSound, IInv, SetupHit PROVE IInv'
<1>1. PICK p \in GivenPacks : Hit(p) /\ pack' = p
  BY DEF SetupHit
<1>2. uses' = uses + 1 /\ uses \in Nat /\ UNCHANGED <<op, cache, objects, twice, launched, failed>>
  BY DEF SetupHit, IInv
<1>3. cache.pack.host = p.host
  <2>1. cache.pack \in GivenPacks
    BY <1>1 DEF Hit, IInv, CacheInv
  <2>2. \A i \in op.host : cache.pack.host[i] = p.host[i]
    BY <1>1 DEF Hit, IsVariankPackEqual, IsHostDataEqual
  <2>3. cache.pack.host \in [op.host -> HostData] /\ p.host \in [op.host -> HostData]
    BY <2>1 DEF GivenPacks
  <2> QED
    BY <2>2, <2>3
<1>4. CacheInv'
  <2>1. GivenPacks' = GivenPacks
    BY <1>2 DEF GivenPacks
  <2>2. cache.executor => cache.made \in 1 .. uses + 1
    BY <1>2 DEF IInv, CacheInv
  <2>3. cache.executor
    BY <1>1 DEF IInv, CacheInv, Hit
  <2> QED
    BY <1>1, <1>2, <1>3, <2>1, <2>2, <2>3 DEF IInv, CacheInv
<1>5. ObjectsInv'
  BY <1>2, MadeKept DEF IInv, ObjectsInv
<1>6. ReleasedOnce'
  BY <1>2, MadeKept DEF IInv, ReleasedOnce
<1> QED
  BY <1>2, <1>4, <1>5, <1>6 DEF IInv, ArgumentsAreCurrent, HostDataIsCurrent

LEMMA ExecuteStep == ASSUME TableIsSound, IInv, Execute PROVE IInv'
<1> DEFINE arguments == Refreshed(cache.arguments, op.ins, op.call, uses)
           results == Refreshed(cache.results, op.outs, op.gets, uses)
<1>1. /\ cache' = [cache EXCEPT !.arguments = arguments, !.results = results]
      /\ launched' = [arguments |-> arguments, results |-> results, host |-> cache.pack.host,
                      use |-> uses, given |-> pack]
      /\ pack # None /\ pack' = None /\ UNCHANGED <<op, uses, objects, twice, failed>>
  BY DEF Execute
<1>2. /\ \A k \in DOMAIN op.call : op.call[k] # Null => arguments[k] = <<op.call[k], uses>>
      /\ \A k \in DOMAIN op.gets : results[k] = <<op.gets[k], uses>>
  BY RefreshedAddress DEF IInv, TableIsSound, WellNumbered
<1> HIDE DEF arguments, results
<1>3. ArgumentsAreCurrent'
  BY <1>1, <1>2 DEF ArgumentsAreCurrent
<1>4. HostDataIsCurrent'
  BY <1>1 DEF IInv, CacheInv, HostDataIsCurrent
<1>5. CacheInv'
  <2>1. GivenPacks' = GivenPacks
    BY <1>1 DEF GivenPacks
  <2> QED
    BY <1>1, <2>1 DEF IInv, CacheInv
<1>6. cache'.executor = cache.executor /\ cache'.made = cache.made
  BY <1>1 DEF IInv, CacheInv
<1>7. ObjectsInv' /\ ReleasedOnce'
  BY <1>1, <1>6, MadeKept DEF IInv, ObjectsInv, ReleasedOnce
<1> QED
  BY <1>1, <1>3, <1>4, <1>5, <1>7 DEF IInv

LEMMA DestructStep == ASSUME TableIsSound, IInv, Destruct PROVE IInv'
<1>1. /\ pack = None /\ cache' = EmptyCache /\ objects' = Destroy.objects /\ twice' = {}
      /\ UNCHANGED <<op, pack, uses, launched, failed>>
  BY AfterDestroy DEF Destruct
<1>2. ReleasedOnce'
  BY <1>1, AfterDestroy DEF ReleasedOnce, EmptyCache
<1>3. ObjectsInv'
  BY <1>1, AfterDestroy, MadeKept DEF IInv, ObjectsInv
<1>4. CacheInv'
  BY <1>1 DEF CacheInv, EmptyCache
<1> QED
  BY <1>1, <1>2, <1>3, <1>4 DEF IInv, ArgumentsAreCurrent, HostDataIsCurrent

LEMMA Invariance == ASSUME TableIsSound PROVE Spec => []IInv
<1>1. IInv /\ [Next]_vars => IInv'
  <2> SUFFICES ASSUME IInv, [Next]_vars PROVE IInv'
    OBVIOUS
  <2>1. CASE Next
    BY <2>1, SetupHitStep, SetupCreatesStep, SetupFailsStep, ExecuteStep, DestructStep DEF Next
  <2>2. CASE UNCHANGED vars
    <3>1. UNCHANGED <<op, cache, pack, uses, objects, twice, launched, failed>>
      BY <2>2 DEF vars
    <3>2. CacheInv'
      <4>1. GivenPacks' = GivenPacks
        BY <3>1 DEF GivenPacks
      <4> QED
        BY <3>1, <4>1 DEF IInv, CacheInv
    <3>3. ObjectsInv' /\ ReleasedOnce'
      BY <3>1, MadeKept DEF IInv, ObjectsInv, ReleasedOnce
    <3> QED
      BY <3>1, <3>2, <3>3 DEF IInv, ArgumentsAreCurrent, HostDataIsCurrent
  <2> QED
    BY <2>1, <2>2
<1> QED
  BY <1>1, InitHolds, PTL DEF Spec

\* Every call, however often its executor has been used before, gets the addresses that its own variant
\* pack has for the arguments and the results.
THEOREM AddressesAreCurrent == ASSUME TableIsSound PROVE Spec => []ArgumentsAreCurrent
<1>1. IInv => ArgumentsAreCurrent
  BY DEF IInv
<1> QED
  BY <1>1, Invariance, PTL

\* Every call runs with the host data that its Setup was given.
THEOREM HostDataStays == ASSUME TableIsSound PROVE Spec => []HostDataIsCurrent
<1>1. IInv => HostDataIsCurrent
  BY DEF IInv
<1> QED
  BY <1>1, Invariance, PTL

\* Whatever sequence of hits, misses, failures and destructions: no acl object is released twice, and
\* none is left behind but what was never handed to the cache or belongs to a Setup that failed.
THEOREM NothingReleasedTwice == ASSUME TableIsSound PROVE Spec => []ReleasedOnce
<1>1. IInv => ReleasedOnce
  BY DEF IInv
<1> QED
  BY <1>1, Invariance, PTL

-----------------------------------------------------------------------------
(* What makes an operation of the table sound: one side at a time.          *)
\* All of an operation's dimensions are assigned.
Complete(shapes) == \A k \in DOMAIN shapes : shapes[k].dims = 0 .. shapes[k].rank - 1
Sound(o) == WellNumbered(o) /\ Complete(o.shapes)

Slots == [list : Int, idx : Int, update : BOOLEAN]

\* The call passes some of the tensors, each once.
PassesSome(call, tensors) ==
  /\ call \in Seq(Int)
  /\ \A k \in DOMAIN call : call[k] # Null => call[k] + 1 \in tensors
  /\ \A k, l \in DOMAIN call : call[k] = call[l] /\ call[k] # Null => k = l
Passes(call, n) == PassesSome(call, 1 .. n)
AllGiven(gets) == \A k \in DOMAIN gets : gets[k] # Null

LEMMA AtParts ==
  \A i : /\ At(i).list = NotInTensorList /\ At(i).idx = i /\ At(i).update = TRUE
         /\ Kept(i).list = NotInTensorList /\ Kept(i).idx = i /\ Kept(i).update = FALSE
         /\ i \in Int => At(i) \in Slots /\ Kept(i) \in Slots
BY DEF At, Kept, Slots, NotInTensorList

LEMMA ListParts ==
  \A l, i : /\ InList(l, i).list = l /\ InList(l, i).idx = i /\ InList(l, i).update = TRUE
            /\ l \in Int /\ i \in Int => InList(l, i) \in Slots
BY DEF InList, Slots

\* A side without lists.
LEMMA PlainSide ==
  ASSUME NEW slots, slots \in Seq(Slots), \A i \in Tensors(slots) : slots[i].list = NotInTensorList,
         \A i, j \in Tensors(slots) : slots[i].idx = slots[j].idx => i = j,
         NEW call, PassesSome(call, Tensors(slots))
  PROVE  SideIsSound(slots, call, <<>>)
<1>1. slots \in Seq([list : Int, idx : Int, update : BOOLEAN])
  BY DEF Slots
<1>2. <<>> \in Seq(SUBSET Int) /\ DOMAIN <<>> = {}
  OBVIOUS
<1>3. /\ call \in Seq(Int)
      /\ \A k \in DOMAIN call : call[k] # Null => call[k] + 1 \in Tensors(slots)
      /\ \A k, l \in DOMAIN call : call[k] = call[l] /\ call[k] # Null => k = l
  BY DEF PassesSome
<1> QED
  BY <1>1, <1>2, <1>3 DEF SideIsSound

LEMMA TensorsInOrder ==
  ASSUME NEW n \in Nat
  PROVE  /\ InOrder(n) \in Seq(Slots) /\ Tensors(InOrder(n)) = 1 .. n
         /\ DOMAIN InOrder(n) = 1 .. n /\ Len(InOrder(n)) = n
         /\ \A i \in 1 .. n : InOrder(n)[i] = At(i - 1)
         /\ \A i \in 1 .. n : InOrder(n)[i].list = NotInTensorList /\ InOrder(n)[i].idx = i - 1
<1>2. DOMAIN InOrder(n) = 1 .. n /\ \A i \in 1 .. n : InOrder(n)[i] = At(i - 1)
  BY DEF InOrder
<1>1. \A i \in 1 .. n : At(i - 1) \in Slots /\ At(i - 1).update = TRUE
  BY AtParts
<1>3. InOrder(n) \in [1 .. n -> Slots]
  BY <1>1 DEF InOrder
<1>4. InOrder(n) \in Seq(Slots)
  BY <1>3
<1>5. Tensors(InOrder(n)) = 1 .. n
  BY <1>1, <1>2 DEF Tensors
<1>6. Len(InOrder(n)) = n
  BY <1>2, <1>4
<1>7. \A i \in 1 .. n : InOrder(n)[i].list = NotInTensorList /\ InOrder(n)[i].idx = i - 1
  BY <1>2, AtParts
<1> QED
  BY <1>2, <1>4, <1>5, <1>6, <1>7

LEMMA SideInOrder ==
  ASSUME NEW n \in Nat, NEW call, Passes(call, n)
  PROVE  SideIsSound(InOrder(n), call, <<>>)
<1> DEFINE slots == InOrder(n)
<1>1. slots \in Seq(Slots) /\ Tensors(slots) = 1 .. n
      /\ \A i \in 1 .. n : slots[i].list = NotInTensorList /\ slots[i].idx = i - 1
  BY TensorsInOrder
<1> HIDE DEF slots
<1>2. \A i, j \in Tensors(slots) : slots[i].idx = slots[j].idx => i = j
  BY <1>1
<1>3. PassesSome(call, Tensors(slots)) /\ \A i \in Tensors(slots) : slots[i].list = NotInTensorList
  BY <1>1 DEF Passes
<1>4. SideIsSound(slots, call, <<>>)
  BY <1>1, <1>2, <1>3, PlainSide
<1> QED
  BY <1>4 DEF slots

LEMMA PassesUpto ==
  ASSUME NEW n \in Nat
  PROVE  Passes(Upto(n), n) /\ AllGiven(Upto(n)) /\ Upto(n) \in Seq(Int) /\ Len(Upto(n)) = n
<1>1. DOMAIN Upto(n) = 1 .. n /\ \A k \in 1 .. n : Upto(n)[k] = k - 1
  BY DEF Upto
<1>2. Upto(n) \in [1 .. n -> Int]
  BY DEF Upto
<1>3. Upto(n) \in Seq(Int) /\ Len(Upto(n)) = n
  BY <1>1, <1>2
<1> QED
  BY <1>1, <1>3 DEF Passes, PassesSome, Null, AllGiven

\* What is asked of an operation, side by side.
LEMMA SoundBySides ==
  ASSUME NEW o, SideIsSound(o.ins, o.call, o.lists), SideIsSound(o.outs, o.gets, o.outLists), AllGiven(o.gets),
         Complete(o.shapes)
  PROVE  Sound(o)
BY DEF Sound, WellNumbered, AllGiven

\* All the shapes' dimensions, and how many there are.
Shaped(shapes) == Len(shapes) \in Nat /\ Complete(shapes)
\* An operation that keeps the numbers of its tensors.
IsCall(n, call, shapes) == n \in Nat /\ Passes(call, n) /\ Shaped(shapes)
\* How an operation with these inputs and this call ends: the outputs keep their numbers.
HasOutputs(o, shapes) ==
  /\ o.outs = InOrder(Len(shapes)) /\ o.gets \in {Upto(Len(shapes)), <<>>} /\ o.outLists = <<>>
  /\ o.shapes = shapes
HasInputs(o, slots, call, lists) == o.ins = slots /\ o.call = call /\ o.lists = lists

\* The outputs of an operation that keeps their numbers.
LEMMA OutputsInOrder ==
  ASSUME NEW m \in Nat
  PROVE  /\ SideIsSound(InOrder(m), Upto(m), <<>>) /\ AllGiven(Upto(m))
         /\ SideIsSound(InOrder(m), <<>>, <<>>) /\ AllGiven(<<>>)
<1>1. Passes(<<>>, m) /\ AllGiven(<<>>)
  BY DEF Passes, PassesSome, AllGiven
<1> QED
  BY <1>1, SideInOrder, PassesUpto

\* It is enough to look at the inputs of such an operation.
LEMMA SoundByInputs ==
  ASSUME NEW o, NEW slots, NEW call, NEW lists, SideIsSound(slots, call, lists), HasInputs(o, slots, call, lists),
         NEW shapes, Shaped(shapes), HasOutputs(o, shapes)
  PROVE  Sound(o)
<1>1. SideIsSound(o.ins, o.call, o.lists)
  BY DEF HasInputs
<1>2. SideIsSound(o.outs, o.gets, o.outLists) /\ AllGiven(o.gets)
  <2>1. Len(shapes) \in Nat
    BY DEF Shaped
  <2> QED
    BY <2>1, OutputsInOrder DEF HasOutputs
<1>3. Complete(o.shapes)
  BY DEF HasOutputs, Shaped
<1> QED
  BY <1>1, <1>2, <1>3, SoundBySides

LEMMA CallHas ==
  ASSUME NEW n, NEW call, NEW shapes
  PROVE  /\ HasInputs(Call(n, call, shapes), InOrder(n), call, <<>>) /\ HasOutputs(Call(n, call, shapes), shapes)
         /\ \A x : /\ HasInputs([Call(n, call, shapes) EXCEPT !.loose = x], InOrder(n), call, <<>>)
                   /\ HasOutputs([Call(n, call, shapes) EXCEPT !.loose = x], shapes)
         /\ \A x : /\ HasInputs([Call(n, call, shapes) EXCEPT !.aux = x], InOrder(n), call, <<>>)
                   /\ HasOutputs([Call(n, call, shapes) EXCEPT !.aux = x], shapes)
         /\ HasInputs(InPlace(Call(n, call, shapes)), InOrder(n), call, <<>>)
         /\ HasOutputs(InPlace(Call(n, call, shapes)), shapes)
         /\ \A x : /\ HasInputs([InPlace(Call(n, call, shapes)) EXCEPT !.loose = x], InOrder(n), call, <<>>)
                   /\ HasOutputs([InPlace(Call(n, call, shapes)) EXCEPT !.loose = x], shapes)
BY DEF HasInputs, HasOutputs, Call, InPlace

\* An operation that keeps the numbers of its tensors, and one that gives no result.
LEMMA CallIsSound ==
  ASSUME NEW n, NEW call, NEW shapes, IsCall(n, call, shapes)
  PROVE  /\ Sound(Call(n, call, shapes))
         /\ \A x : Sound([Call(n, call, shapes) EXCEPT !.loose = x])
         /\ \A x : Sound([Call(n, call, shapes) EXCEPT !.aux = x])
         /\ Sound(InPlace(Call(n, call, shapes)))
         /\ \A x : Sound([InPlace(Call(n, call, shapes)) EXCEPT !.loose = x])
<1>1. SideIsSound(InOrder(n), call, <<>>) /\ Shaped(shapes)
  BY SideInOrder DEF IsCall
<1>2. \A o : HasInputs(o, InOrder(n), call, <<>>) /\ HasOutputs(o, shapes) => Sound(o)
  BY <1>1, SoundByInputs
<1> QED
  BY <1>2, CallHas

\* A tensor in another slot, or in none.
LEMMA SideWithMoved ==
  ASSUME NEW n \in Nat, NEW i \in 1 .. n, NEW idx \in Int, \A j \in 1 .. n : j # i => j - 1 # idx,
         NEW call, Passes(call, n)
  PROVE  SideIsSound([InOrder(n) EXCEPT ![i] = At(idx)], call, <<>>)
<1> DEFINE slots == [InOrder(n) EXCEPT ![i] = At(idx)]
<1>1. /\ InOrder(n) \in Seq(Slots) /\ DOMAIN InOrder(n) = 1 .. n /\ Len(InOrder(n)) = n
      /\ \A j \in 1 .. n : InOrder(n)[j] = At(j - 1)
  BY TensorsInOrder
<1>2. slots \in Seq(Slots) /\ DOMAIN slots = 1 .. n
  BY <1>1, AtParts
<1>3. slots[i] = At(idx) /\ \A j \in 1 .. n : j # i => slots[j] = At(j - 1)
  BY <1>1
<1> HIDE DEF slots
<1>4. \A j \in 1 .. n : slots[j].list = NotInTensorList /\ slots[j].update = TRUE
  BY <1>3, AtParts
<1>5. slots[i].idx = idx /\ \A j \in 1 .. n : j # i => slots[j].idx = j - 1
  BY <1>3, AtParts
<1>6. Tensors(slots) = 1 .. n
  BY <1>2, <1>4 DEF Tensors
<1>7. \A j, k \in Tensors(slots) : slots[j].idx = slots[k].idx => j = k
  BY <1>5, <1>6
<1>8. SideIsSound(slots, call, <<>>)
  BY <1>2, <1>4, <1>6, <1>7, PlainSide DEF Passes
<1> QED
  BY <1>8 DEF slots

LEMMA SideWithKept ==
  ASSUME NEW n \in Nat, NEW i \in 1 .. n, NEW idx \in Int, NEW call, Passes(call, n),
         \A k \in DOMAIN call : call[k] # i - 1
  PROVE  SideIsSound([InOrder(n) EXCEPT ![i] = Kept(idx)], call, <<>>)
<1> DEFINE slots == [InOrder(n) EXCEPT ![i] = Kept(idx)]
<1>1. /\ InOrder(n) \in Seq(Slots) /\ DOMAIN InOrder(n) = 1 .. n /\ Len(InOrder(n)) = n
      /\ \A j \in 1 .. n : InOrder(n)[j] = At(j - 1)
  BY TensorsInOrder
<1>2. slots \in Seq(Slots) /\ DOMAIN slots = 1 .. n
  BY <1>1, AtParts
<1>3. slots[i] = Kept(idx) /\ \A j \in 1 .. n : j # i => slots[j] = At(j - 1)
  BY <1>1
<1> HIDE DEF slots
<1>4. slots[i].update = FALSE /\ \A j \in 1 .. n : slots[j].list = NotInTensorList /\ (j # i => slots[j].update = TRUE)
  BY <1>3, AtParts
<1>5. \A j \in 1 .. n : j # i => slots[j].idx = j - 1
  BY <1>3, AtParts
<1>6. Tensors(slots) = (1 .. n) \ {i}
  BY <1>2, <1>4 DEF Tensors
<1>7. \A j, k \in Tensors(slots) : slots[j].idx = slots[k].idx => j = k
  BY <1>5, <1>6
<1>8. PassesSome(call, Tensors(slots))
  <2>1. /\ call \in Seq(Int)
        /\ \A k \in DOMAIN call : call[k] # Null => call[k] + 1 \in 1 .. n
        /\ \A k, l \in DOMAIN call : call[k] = call[l] /\ call[k] # Null => k = l
    BY DEF Passes, PassesSome
  <2>2. \A k \in DOMAIN call : call[k] \in Int
    BY <2>1
  <2>3. ASSUME NEW k \in DOMAIN call, call[k] # Null PROVE call[k] + 1 \in Tensors(slots)
    <3>1. call[k] \in Int /\ call[k] + 1 \in 1 .. n /\ call[k] # i - 1
      BY <2>1, <2>2, <2>3
    <3>2. call[k] + 1 # i
      BY <3>1
    <3> QED
      BY <1>6, <3>1, <3>2
  <2> QED
    BY <2>1, <2>3 DEF PassesSome
<1>9. SideIsSound(slots, call, <<>>)
  BY <1>2, <1>4, <1>6, <1>7, <1>8, PlainSide
<1> QED
  BY <1>9 DEF slots

\* The tensors in any slots, each its own.
LEMMA SideNumbered ==
  ASSUME NEW n \in Nat, NEW slots, slots \in [1 .. n -> Int], \A i, j \in 1 .. n : slots[i] = slots[j] => i = j,
         NEW call, Passes(call, n)
  PROVE  SideIsSound([i \in 1 .. n |-> At(slots[i])], call, <<>>)
<1> DEFINE s == [i \in 1 .. n |-> At(slots[i])]
<1>1. \A i \in 1 .. n : slots[i] \in Int /\ At(slots[i]) \in Slots
  BY AtParts
<1>2. s \in [1 .. n -> Slots]
  BY <1>1
<1>3. s \in Seq(Slots) /\ DOMAIN s = 1 .. n
  BY <1>2
<1>4. \A i \in 1 .. n : s[i] = At(slots[i])
  OBVIOUS
<1> HIDE DEF s
<1>5. \A i \in 1 .. n : s[i].list = NotInTensorList /\ s[i].update = TRUE /\ s[i].idx = slots[i]
  BY <1>4, AtParts
<1>6. Tensors(s) = 1 .. n
  BY <1>3, <1>5 DEF Tensors
<1>7. \A i, j \in Tensors(s) : s[i].idx = s[j].idx => i = j
  BY <1>5, <1>6
<1>8. SideIsSound(s, call, <<>>)
  BY <1>3, <1>5, <1>6, <1>7, PlainSide DEF Passes
<1> QED
  BY <1>8 DEF s

-----------------------------------------------------------------------------
(* The linear and the element-wise operations.                             *)
Ranks == Nat \ {0}

LEMMA FullShapes ==
  /\ \A r : Shaped(<<Full(r)>>)
  /\ \A r, s : Shaped(<<Full(r), Full(s)>>)
  /\ \A r, s, t : Shaped(<<Full(r), Full(s), Full(t)>>)
  /\ \A r, s, t, u : Shaped(<<Full(r), Full(s), Full(t), Full(u)>>)
  /\ \A r, s, t, u, v : Shaped(<<Full(r), Full(s), Full(t), Full(u), Full(v)>>)
<1>1. \A r : Full(r).dims = 0 .. Full(r).rank - 1
  BY DEF Full
<1>2. \A r : Shaped(<<Full(r)>>)
  BY <1>1 DEF Shaped, Complete
<1>3. \A r, s : Shaped(<<Full(r), Full(s)>>)
  BY <1>1 DEF Shaped, Complete
<1>4. \A r, s, t : Shaped(<<Full(r), Full(s), Full(t)>>)
  BY <1>1 DEF Shaped, Complete
<1>5. \A r, s, t, u : Shaped(<<Full(r), Full(s), Full(t), Full(u)>>)
  BY <1>1 DEF Shaped, Complete
<1>6. \A r, s, t, u, v : Shaped(<<Full(r), Full(s), Full(t), Full(u), Full(v)>>)
  BY <1>1 DEF Shaped, Complete
<1> QED
  BY <1>2, <1>3, <1>4, <1>5, <1>6

LEMMA ThePlainCalls ==
  ASSUME NEW shapes, Shaped(shapes)
  PROVE  /\ IsCall(0, <<>>, shapes) /\ IsCall(1, <<>>, shapes)
         /\ IsCall(1, <<0>>, shapes) /\ IsCall(1, <<0, Null>>, shapes)
         /\ IsCall(2, <<0, 1>>, shapes) /\ IsCall(2, <<0, 1, Null>>, shapes) /\ IsCall(2, <<0, 1, Null, Null>>, shapes)
         /\ IsCall(3, <<0, 1, 2>>, shapes) /\ IsCall(3, <<0, 1, 2, Null>>, shapes)
<1>1. Passes(<<>>, 0) /\ Passes(<<>>, 1)
  BY DEF Passes, PassesSome
<1>2. Passes(<<0>>, 1) /\ Passes(<<0, Null>>, 1)
  BY DEF Passes, PassesSome, Null
<1>3. Passes(<<0, 1>>, 2) /\ Passes(<<0, 1, Null>>, 2) /\ Passes(<<0, 1, Null, Null>>, 2)
  BY DEF Passes, PassesSome, Null
<1>4. Passes(<<0, 1, 2>>, 3) /\ Passes(<<0, 1, 2, Null>>, 3)
  BY DEF Passes, PassesSome, Null
<1> QED
  BY <1>1, <1>2, <1>3, <1>4 DEF IsCall

\* No other input is in the slot.
IsFree(n, i, idx) == i \in 1 .. n /\ idx \in Int /\ \A j \in 1 .. n : j # i => j - 1 # idx

\* One input in another slot.
LEMMA MovedIsSound ==
  ASSUME NEW n, NEW call, NEW shapes, IsCall(n, call, shapes),
         NEW i, NEW idx, IsFree(n, i, idx)
  PROVE  /\ Sound([Call(n, call, shapes) EXCEPT !.ins[i] = At(idx)])
         /\ \A x : Sound([[Call(n, call, shapes) EXCEPT !.loose = x] EXCEPT !.ins[i] = At(idx)])
<1> DEFINE slots == [InOrder(n) EXCEPT ![i] = At(idx)]
<1>1. SideIsSound(slots, call, <<>>) /\ Shaped(shapes)
  BY SideWithMoved DEF IsCall, IsFree
<1>2. /\ HasInputs([Call(n, call, shapes) EXCEPT !.ins[i] = At(idx)], slots, call, <<>>)
      /\ HasOutputs([Call(n, call, shapes) EXCEPT !.ins[i] = At(idx)], shapes)
      /\ \A x : /\ HasInputs([[Call(n, call, shapes) EXCEPT !.loose = x] EXCEPT !.ins[i] = At(idx)], slots, call, <<>>)
                /\ HasOutputs([[Call(n, call, shapes) EXCEPT !.loose = x] EXCEPT !.ins[i] = At(idx)], shapes)
  BY DEF HasInputs, HasOutputs, Call
<1> HIDE DEF slots
<1>3. \A o : HasInputs(o, slots, call, <<>>) /\ HasOutputs(o, shapes) => Sound(o)
  BY <1>1, SoundByInputs
<1> QED
  BY <1>2, <1>3

\* One input in no slot, which the call does not get.
LEMMA KeptIsSound ==
  ASSUME NEW n, NEW call, NEW shapes, IsCall(n, call, shapes),
         NEW i \in 1 .. n, NEW idx \in Int, \A k \in DOMAIN call : call[k] # i - 1
  PROVE  Sound([Call(n, call, shapes) EXCEPT !.ins[i] = Kept(idx)])
<1> DEFINE slots == [InOrder(n) EXCEPT ![i] = Kept(idx)]
<1>1. SideIsSound(slots, call, <<>>) /\ Shaped(shapes)
  BY SideWithKept DEF IsCall
<1>2. /\ HasInputs([Call(n, call, shapes) EXCEPT !.ins[i] = Kept(idx)], slots, call, <<>>)
      /\ HasOutputs([Call(n, call, shapes) EXCEPT !.ins[i] = Kept(idx)], shapes)
  BY DEF HasInputs, HasOutputs, Call
<1> HIDE DEF slots
<1> QED
  BY <1>1, <1>2, SoundByInputs


LEMMA LinearIsSound ==
  ASSUME NEW r \in Ranks, NEW p \in [hasBias : BOOLEAN]
  PROVE  /\ Sound(AclnnMatmulOperation(r)) /\ Sound(MatmulAllreduceOperation(r))
         /\ Sound(MatmulOperation(p, r)) /\ Sound(W16A16Operation(p, 2))
         /\ Sound(W8A16Operation(p, r)) /\ Sound(W4A16Operation(p, r))
         /\ Sound(W4A8Operation) /\ Sound(QuantGMMDequantOperation)
<1>0. Shaped(<<Full(r)>>) /\ Shaped(<<Full(2)>>)
  BY FullShapes
<1>1. Sound(AclnnMatmulOperation(r))
  BY <1>0, ThePlainCalls, CallIsSound DEF AclnnMatmulOperation
<1>2. Sound(MatmulAllreduceOperation(r))
  BY <1>0, ThePlainCalls, CallIsSound DEF MatmulAllreduceOperation
<1> DEFINE call == <<IF p.hasBias THEN 2 ELSE Null, 0, 1>>
<1>3. 2 + One(p.hasBias) \in Nat /\ Passes(call, 2 + One(p.hasBias))
  BY DEF Passes, PassesSome, Null, One
<1>4. Sound(MatmulOperation(p, r))
  <2>1. IsCall(2 + One(p.hasBias), call, <<Full(r)>>)
    BY <1>0, <1>3 DEF IsCall
  <2> QED
    BY <2>1, CallIsSound DEF MatmulOperation, Biased
<1>5. Sound(W16A16Operation(p, 2))
  <2>1. /\ HasInputs(W16A16Operation(p, 2), InOrder(2 + One(p.hasBias)), call, <<>>)
        /\ HasOutputs(W16A16Operation(p, 2), <<First(2, 2)>>)
    BY DEF W16A16Operation, Biased, HasInputs, HasOutputs, Call
  <2>2. Shaped(<<First(2, 2)>>)
    <3>1. First(2, 2).dims = 0 .. First(2, 2).rank - 1
      BY DEF First
    <3> QED
      BY <3>1 DEF Shaped, Complete
  <2>3. SideIsSound(InOrder(2 + One(p.hasBias)), call, <<>>)
    BY <1>3, SideInOrder
  <2> QED
    BY <2>1, <2>2, <2>3, SoundByInputs
<1>6. Sound(QuantGMMDequantOperation)
  <2>1. IsCall(4, <<0, 1, 2, 3, Null, Null, Null, Null>>, <<Full(2)>>)
    BY <1>0 DEF IsCall, Passes, PassesSome, Null
  <2> QED
    BY <2>1, CallIsSound DEF QuantGMMDequantOperation
<1>7. Sound(W4A8Operation)
  <2>1. IsCall(5, <<0, 1, 2, 3, Null, Null, Null, 4, Null>>, <<Full(2)>>)
    BY <1>0 DEF IsCall, Passes, PassesSome, Null
  <2>0. IsFree(5, 5, 7)
    BY DEF IsFree
  <2>2. Sound([Call(5, <<0, 1, 2, 3, Null, Null, Null, 4, Null>>, <<Full(2)>>) EXCEPT !.ins[5] = At(7)])
    BY <2>1, <2>0, MovedIsSound
  <2> QED
    BY <2>2 DEF W4A8Operation
<1>8. Sound(QuantBatchMatmulOperation(p, r))
  <2>1. CASE p.hasBias
    <3>1. IsCall(5, <<0, 1, 2, 3, Null, Null, 4>>, <<Full(r)>>)
      BY <1>0 DEF IsCall, Passes, PassesSome, Null
    <3>2. QuantBatchMatmulOperation(p, r)
            = [Call(5, <<0, 1, 2, 3, Null, Null, 4>>, <<Full(r)>>) EXCEPT !.ins[5] = At(6)]
      BY <2>1 DEF QuantBatchMatmulOperation, One
    <3>0. IsFree(5, 5, 6)
      BY DEF IsFree
    <3>3. Sound([Call(5, <<0, 1, 2, 3, Null, Null, 4>>, <<Full(r)>>) EXCEPT !.ins[5] = At(6)])
      BY <3>1, <3>0, MovedIsSound
    <3> QED
      BY <3>2, <3>3
  <2>2. CASE ~p.hasBias
    <3>1. IsCall(4, <<0, 1, 2, 3, Null, Null, Null>>, <<Full(r)>>)
      BY <1>0 DEF IsCall, Passes, PassesSome, Null
    <3>2. QuantBatchMatmulOperation(p, r) = Call(4, <<0, 1, 2, 3, Null, Null, Null>>, <<Full(r)>>)
      BY <2>2 DEF QuantBatchMatmulOperation, One
    <3>3. Sound(Call(4, <<0, 1, 2, 3, Null, Null, Null>>, <<Full(r)>>))
      BY <3>1, CallIsSound
    <3> QED
      BY <3>2, <3>3
  <2> QED
    BY <2>1, <2>2
<1> QED
  BY <1>1, <1>2, <1>4, <1>5, <1>6, <1>7, <1>8 DEF W8A16Operation, W4A16Operation

LEMMA W8A8IsSound ==
  ASSUME NEW p \in [hasBias : BOOLEAN, hasPerTokenScale : BOOLEAN, isOutDequantBias : BOOLEAN],
         ~(p.hasBias /\ p.isOutDequantBias)
  PROVE  Sound(W8A8Operation(p, 2))
<1> DEFINE n == 3 + One(p.hasPerTokenScale) + One(p.hasBias)
           call == <<0, 1, 2, Null, IF p.hasPerTokenScale THEN 3 ELSE Null,
                     IF p.hasBias /\ ~p.isOutDequantBias THEN n - 1 ELSE Null>>
<1>1. IsCall(n, call, <<Full(2)>>)
  <2>1. n \in Nat /\ Passes(call, n)
    BY DEF Passes, PassesSome, Null, One
  <2> HIDE DEF n, call
  <2> QED
    BY <2>1, FullShapes DEF IsCall
<1>2. W8A8Operation(p, 2) = Call(n, call, <<Full(2)>>)
  BY DEF W8A8Operation
<1> HIDE DEF n, call
<1> QED
  BY <1>1, <1>2, CallIsSound

LEMMA ElementwiseIsSound ==
  ASSUME NEW r \in Ranks
  PROVE  /\ Sound(AclnnRopeOperation(r)) /\ Sound(RmsNormOperation(r)) /\ Sound(AddRmsNormOperation(r))
         /\ Sound(AddRmsNormDynamicQuantOperation(r)) /\ Sound(GeluOperation(r)) /\ Sound(SigmoidOperation(r))
         /\ Sound(SwiGluOperation(r)) /\ Sound(CastOperation(r)) /\ Sound(StdOperation(r))
         /\ Sound(VectorNormOperation(r)) /\ Sound(MinimumOperation(r)) /\ Sound(RepeatOperation(r))
         /\ Sound(LenOperation) /\ Sound(ArgSortOperation(1)) /\ Sound(DynamicQuantOperation(r))
         /\ Sound(InplaceNanToNumOperation(r)) /\ Sound(InplaceMaskedFillTensorOperation(r))
         /\ Sound(ObfuscationSetupOperation) /\ Sound(ObfuscationCalculateOperation(r))
         /\ Sound(AddRmsNormQuantOperation(r))
<1>0. Shaped(<<Full(r)>>) /\ Shaped(<<Full(1)>>) /\ Shaped(<<Full(r), Full(r)>>) /\ Shaped(<<Full(r), Full(r - 1)>>)
      /\ Shaped(<<Full(r), Full(r), Full(r)>>) /\ Shaped(<<Full(r), Full(1), Full(r), Full(r - 1), Full(1)>>)
  BY FullShapes
<1>1. Sound(AclnnRopeOperation(r))
  BY <1>0, ThePlainCalls, CallIsSound DEF AclnnRopeOperation
<1>2. Sound(RmsNormOperation(r))
  BY <1>0, ThePlainCalls, CallIsSound DEF RmsNormOperation
<1>3. Sound(AddRmsNormOperation(r))
  BY <1>0, ThePlainCalls, CallIsSound DEF AddRmsNormOperation
<1>4. Sound(GeluOperation(r))
  BY <1>0, ThePlainCalls, CallIsSound DEF GeluOperation
<1>5. Sound(SigmoidOperation(r))
  BY <1>0, ThePlainCalls, CallIsSound DEF SigmoidOperation
<1>6. Sound(SwiGluOperation(r))
  BY <1>0, ThePlainCalls, CallIsSound DEF SwiGluOperation
<1>7. Sound(CastOperation(r))
  BY <1>0, ThePlainCalls, CallIsSound DEF CastOperation
<1>8. Sound(StdOperation(r))
  BY <1>0, ThePlainCalls, CallIsSound DEF StdOperation
<1>9. Sound(VectorNormOperation(r))
  BY <1>0, ThePlainCalls, CallIsSound DEF VectorNormOperation
<1>10. Sound(MinimumOperation(r))
  BY <1>0, ThePlainCalls, CallIsSound DEF MinimumOperation
<1>11. Sound(RepeatOperation(r))
  BY <1>0, ThePlainCalls, CallIsSound DEF RepeatOperation
<1>12. Sound(LenOperation)
  BY <1>0, ThePlainCalls, CallIsSound DEF LenOperation
<1>13. Sound(DynamicQuantOperation(r))
  BY <1>0, ThePlainCalls, CallIsSound DEF DynamicQuantOperation
<1>14. Sound(InplaceNanToNumOperation(r))
  BY <1>0, ThePlainCalls, CallIsSound DEF InplaceNanToNumOperation
<1>15. Sound(InplaceMaskedFillTensorOperation(r))
  BY <1>0, ThePlainCalls, CallIsSound DEF InplaceMaskedFillTensorOperation
<1>16. Sound(ObfuscationSetupOperation)
  BY <1>0, ThePlainCalls, CallIsSound DEF ObfuscationSetupOperation
<1>17. Sound(ArgSortOperation(1))
  <2>1. Shaped(<<First(1, 1)>>)
    <3>1. First(1, 1).dims = 0 .. First(1, 1).rank - 1
      BY DEF First
    <3> QED
      BY <3>1 DEF Shaped, Complete
  <2> QED
    BY <2>1, ThePlainCalls, CallIsSound DEF ArgSortOperation
<1>18. Sound(ObfuscationCalculateOperation(r))
  <2>1. IsCall(1, <<0>>, <<Full(r)>>)
    BY <1>0, ThePlainCalls
  <2>0. IsFree(1, 1, 1)
    BY DEF IsFree
  <2>2. Sound([Call(1, <<0>>, <<Full(r)>>) EXCEPT !.ins[1] = At(1)])
    BY <2>1, <2>0, MovedIsSound
  <2> QED
    BY <2>2 DEF ObfuscationCalculateOperation
<1>19. Sound(AddRmsNormQuantOperation(r))
  <2>1. IsCall(5, <<0, 1, 2, 3, Null, 4, Null>>, <<Full(r), Full(r), Full(r)>>)
    BY <1>0 DEF IsCall, Passes, PassesSome, Null
  <2>0. IsFree(5, 5, 5)
    BY DEF IsFree
  <2>2. Sound([Call(5, <<0, 1, 2, 3, Null, 4, Null>>, <<Full(r), Full(r), Full(r)>>) EXCEPT !.ins[5] = At(5)])
    BY <2>1, <2>0, MovedIsSound
  <2> QED
    BY <2>2 DEF AddRmsNormQuantOperation
<1>20. Sound(AddRmsNormDynamicQuantOperation(r))
  <2>1. IsCall(3, <<0, 1, 2, Null, Null>>, <<Full(r), Full(1), Full(r), Full(r - 1), Full(1)>>)
    BY <1>0 DEF IsCall, Passes, PassesSome, Null
  <2>2. Sound(Call(3, <<0, 1, 2, Null, Null>>, <<Full(r), Full(1), Full(r), Full(r - 1), Full(1)>>))
    BY <2>1, CallIsSound
  <2> QED
    BY <2>2 DEF AddRmsNormDynamicQuantOperation
<1> QED
  BY <1>1, <1>2, <1>3, <1>4, <1>5, <1>6, <1>7, <1>8, <1>9, <1>10, <1>11, <1>12, <1>13,
     <1>14, <1>15, <1>16, <1>17, <1>18, <1>19, <1>20

LEMMA ChosenIsSound ==
  ASSUME NEW r \in Ranks
  PROVE  /\ \A p \in [hasBias : BOOLEAN] : Sound(LayerNormOperation(p, r))
         /\ \A p \in [keepdim : BOOLEAN] : Sound(ArgMaxOperation(p, r)) /\ Sound(MaxV2Operation(p, r))
         /\ \A p \in [inplace : BOOLEAN] : Sound(ScatterOperation(p, r))
<1>1. ASSUME NEW p \in [hasBias : BOOLEAN] PROVE Sound(LayerNormOperation(p, r))
  <2> DEFINE call == <<0, 1, IF p.hasBias THEN 2 ELSE Null>>
  <2>1. IsCall(3, call, <<Full(r)>>)
    BY FullShapes DEF IsCall, Passes, PassesSome, Null
  <2>2. LayerNormOperation(p, r) = [Call(3, call, <<Full(r)>>) EXCEPT !.loose = {"normalizedShape"}]
    BY DEF LayerNormOperation
  <2> HIDE DEF call
  <2> QED
    BY <2>1, <2>2, CallIsSound
<1>2. ASSUME NEW p \in [keepdim : BOOLEAN] PROVE Sound(ArgMaxOperation(p, r)) /\ Sound(MaxV2Operation(p, r))
  <2> DEFINE shapes == <<Full(IF p.keepdim THEN r ELSE r - 1)>>
  <2>1. IsCall(1, <<0>>, shapes)
    BY FullShapes, ThePlainCalls
  <2>2. ArgMaxOperation(p, r) = Call(1, <<0>>, shapes)
        /\ MaxV2Operation(p, r) = [Call(1, <<0>>, shapes) EXCEPT !.loose = {"dims"}]
    BY DEF ArgMaxOperation, MaxV2Operation
  <2> HIDE DEF shapes
  <2> QED
    BY <2>1, <2>2, CallIsSound
<1>3. ASSUME NEW p \in [inplace : BOOLEAN] PROVE Sound(ScatterOperation(p, r))
  <2>1. IsCall(3, <<0, 1, 2>>, <<Full(r)>>)
    BY FullShapes, ThePlainCalls
  <2> QED
    BY <2>1, CallIsSound DEF ScatterOperation
<1> QED
  BY <1>1, <1>2, <1>3

\* The dimension that an operation assigns apart is one of its rank.
LEMMA AlongDimensionIsSound ==
  ASSUME NEW r \in Ranks
  PROVE  /\ \A p \in [dim : 0 .. r - 1] : Sound(ConcatOperation(p, r)) /\ Sound(IndexSelectOperation(p, r))
         /\ \A p \in [dim : 0 .. r - 1, num : Nat] : Sound(SplitWithSizeOperation(p, r))
<1> DEFINE Shape(d) == [rank |-> r, dims |-> 0 .. r - 1 \cup {d}]
<1>1. \A d \in 0 .. r - 1 : Shape(d).dims = 0 .. Shape(d).rank - 1
  BY DEF Ranks
<1>2. ASSUME NEW p \in [dim : 0 .. r - 1]
      PROVE  Sound(ConcatOperation(p, r)) /\ Sound(IndexSelectOperation(p, r))
  <2> DEFINE shapes == <<Shape(p.dim)>>
  <2>1. /\ ConcatOperation(p, r) = [Call(2, <<0, 1>>, shapes) EXCEPT !.loose = {"tensorList"}]
        /\ IndexSelectOperation(p, r) = Call(2, <<0, 1>>, shapes)
    BY DEF ConcatOperation, IndexSelectOperation
  <2> HIDE DEF Shape
  <2>2. Shaped(shapes)
    BY <1>1 DEF Shaped, Complete
  <2> HIDE DEF shapes
  <2>3. IsCall(2, <<0, 1>>, shapes)
    BY <2>2, ThePlainCalls
  <2> QED
    BY <2>1, <2>3, CallIsSound
<1>3. ASSUME NEW p \in [dim : 0 .. r - 1, num : Nat]
      PROVE  Sound(SplitWithSizeOperation(p, r))
  <2> DEFINE shape == Shape(p.dim)
             shapes == [i \in 1 .. p.num |-> shape]
  <2>1. SplitWithSizeOperation(p, r) = [Call(1, <<0>>, shapes) EXCEPT !.loose = {"out", "splitSizeIntArray"}]
    BY DEF SplitWithSizeOperation
  <2>2. shape.dims = 0 .. shape.rank - 1
    BY <1>1
  <2> HIDE DEF shape
  <2>3. shapes \in [1 .. p.num -> {shape}] /\ DOMAIN shapes = 1 .. p.num /\ (\A i \in 1 .. p.num : shapes[i] = shape)
        /\ p.num \in Nat
    OBVIOUS
  <2> HIDE DEF shapes
  <2>4. shapes \in Seq({shape}) /\ Len(shapes) = p.num
    BY <2>3
  <2>5. Shaped(shapes)
    BY <2>2, <2>3, <2>4 DEF Shaped, Complete
  <2>6. IsCall(1, <<0>>, shapes)
    BY <2>5, ThePlainCalls
  <2> QED
    BY <2>1, <2>6, CallIsSound
<1> QED
  BY <1>2, <1>3

-----------------------------------------------------------------------------
(* Attention.                                                              *)
\* A sequence's first slots.
LEMMA FirstSlots ==
  ASSUME NEW s \in Seq(Slots), NEW n \in 0 .. Len(s)
  PROVE  /\ SubSeq(s, 1, n) \in Seq(Slots) /\ DOMAIN SubSeq(s, 1, n) = 1 .. n
         /\ \A i \in 1 .. n : SubSeq(s, 1, n)[i] = s[i]
<1>1. Len(s) \in Nat /\ n \in Nat /\ n <= Len(s)
  OBVIOUS
<1>2. SubSeq(s, 1, n) \in Seq(Slots)
  BY <1>1
<1>3. Len(SubSeq(s, 1, n)) = n
  BY <1>1
<1>4. DOMAIN SubSeq(s, 1, n) = 1 .. n
  BY <1>2, <1>3
<1>5. \A i \in 1 .. n : SubSeq(s, 1, n)[i] = s[i]
  BY <1>1
<1> QED
  BY <1>2, <1>4, <1>5

\* The key and the value in their lists, the other tensors in slots of their own.
LEMMA KeyAndValueSide ==
  ASSUME NEW slots, slots \in Seq(Slots), {2, 3} \subseteq Tensors(slots),
         slots[2].list = 1, slots[3].list = 2,
         \A i \in Tensors(slots) : i \notin {2, 3} => slots[i].list = NotInTensorList,
         \A i, j \in Tensors(slots) : i \notin {2, 3} /\ j \notin {2, 3} /\ slots[i].idx = slots[j].idx => i = j,
         NEW call, PassesSome(call, Tensors(slots))
  PROVE  SideIsSound(slots, call, KeyAndValueList)
<1>1. slots \in Seq([list : Int, idx : Int, update : BOOLEAN])
  BY DEF Slots
<1>2. /\ KeyAndValueList \in Seq(SUBSET Int) /\ DOMAIN KeyAndValueList = 1 .. 3
      /\ KeyAndValueList[1] = {} /\ KeyAndValueList[2] = {1} /\ KeyAndValueList[3] = {2}
  BY DEF KeyAndValueList
<1>3. /\ call \in Seq(Int)
      /\ \A k \in DOMAIN call : call[k] # Null => call[k] + 1 \in Tensors(slots)
      /\ \A k, l \in DOMAIN call : call[k] = call[l] /\ call[k] # Null => k = l
  BY DEF PassesSome
<1>4. \A i \in Tensors(slots) : slots[i].list = IF i = 2 THEN 1 ELSE IF i = 3 THEN 2 ELSE -1
  BY DEF NotInTensorList
<1>5. \A i, j \in Tensors(slots) : slots[i].list = slots[j].list /\ slots[i].idx = slots[j].idx => i = j
  BY <1>4
<1>6. \A i \in Tensors(slots) : slots[i].list # NotInTensorList => slots[i].list + 1 \in DOMAIN KeyAndValueList
  BY <1>2, <1>4 DEF NotInTensorList
<1>7. \A l \in 1 .. 3 : KeyAndValueList[l] = {i - 1 : i \in {i \in Tensors(slots) : slots[i].list = l - 1}}
  <2>1. /\ {i \in Tensors(slots) : slots[i].list = 0} = {} /\ {i \in Tensors(slots) : slots[i].list = 1} = {2}
        /\ {i \in Tensors(slots) : slots[i].list = 2} = {3}
    BY <1>4
  <2>2. KeyAndValueList[1] = {i - 1 : i \in {i \in Tensors(slots) : slots[i].list = 0}}
    BY <1>2, <2>1
  <2>3. KeyAndValueList[2] = {i - 1 : i \in {i \in Tensors(slots) : slots[i].list = 1}}
    BY <1>2, <2>1
  <2>4. KeyAndValueList[3] = {i - 1 : i \in {i \in Tensors(slots) : slots[i].list = 2}}
    BY <1>2, <2>1
  <2> QED
    BY <2>2, <2>3, <2>4
<1> QED
  BY <1>1, <1>2, <1>3, <1>5, <1>6, <1>7 DEF SideIsSound

LEMMA AttnIsSound ==
  ASSUME NEW r \in Ranks, NEW p \in [isFA : BOOLEAN, hasKVQuant : BOOLEAN, hasQuantOffset : BOOLEAN]
  PROVE  Sound(AttnOperation(p, r))
<1> DEFINE s == <<At(0), InList(1, 0), InList(2, 0), IF p.isFA THEN At(4) ELSE Kept(4), Kept(6),
                  IF p.isFA THEN Kept(-1) ELSE At(14), At(12), At(13)>>
           n == 6 + One(p.hasKVQuant) + One(p.hasKVQuant /\ p.hasQuantOffset)
           call == <<0, 1, 2, Null, IF p.isFA THEN 3 ELSE Null, IF p.hasKVQuant THEN 6 ELSE Null,
                     IF p.hasKVQuant /\ p.hasQuantOffset THEN 7 ELSE Null, IF p.isFA THEN Null ELSE 5>>
           shapes == <<IF p.isFA THEN Full(r) ELSE Full(r - 1)>>
           slots == SubSeq(s, 1, n)
           T == {i \in 1 .. n : i # 5 /\ (i = 4 => p.isFA) /\ (i = 6 => ~p.isFA)}
<1>1. n \in 6 .. 8 /\ (p.hasKVQuant => n > 6) /\ (p.hasKVQuant /\ p.hasQuantOffset => n = 8)
  BY DEF One
<1>2. Shaped(shapes)
  BY FullShapes
<1>3. /\ HasInputs(AttnOperation(p, r), slots, call, KeyAndValueList)
      /\ HasOutputs(AttnOperation(p, r), shapes)
  BY DEF AttnOperation, Call, HasInputs, HasOutputs
<1>4. PassesSome(call, T)
  BY <1>1 DEF PassesSome, Null
<1>5. s \in Seq(Slots) /\ Len(s) = 8
  <2>1. /\ At(0) \in Slots /\ InList(1, 0) \in Slots /\ InList(2, 0) \in Slots /\ At(4) \in Slots /\ Kept(4) \in Slots
        /\ Kept(6) \in Slots /\ Kept(-1) \in Slots /\ At(14) \in Slots /\ At(12) \in Slots /\ At(13) \in Slots
    BY AtParts, ListParts
  <2> QED
    BY <2>1
<1>6. /\ s[1] = At(0) /\ s[2] = InList(1, 0) /\ s[3] = InList(2, 0) /\ s[4] = IF p.isFA THEN At(4) ELSE Kept(4)
      /\ s[5] = Kept(6) /\ s[6] = IF p.isFA THEN Kept(-1) ELSE At(14)
      /\ s[7] = At(12) /\ s[8] = At(13)
  OBVIOUS
<1> HIDE DEF s, n, call, shapes
<1>7. slots \in Seq(Slots) /\ DOMAIN slots = 1 .. n /\ \A i \in 1 .. n : slots[i] = s[i]
  <2>1. n \in 0 .. Len(s)
    BY <1>1, <1>5
  <2> QED
    BY <1>5, <2>1, FirstSlots
<1> HIDE DEF slots
<1>8. /\ s[1].update = TRUE /\ s[2].update = TRUE /\ s[3].update = TRUE /\ (s[4].update <=> p.isFA)
      /\ ~s[5].update /\ (s[6].update <=> ~p.isFA) /\ s[7].update = TRUE /\ s[8].update = TRUE
      /\ s[1].list = NotInTensorList /\ s[2].list = 1 /\ s[3].list = 2 /\ s[4].list = NotInTensorList
      /\ s[6].list = NotInTensorList /\ s[7].list = NotInTensorList /\ s[8].list = NotInTensorList
  <2>1. \A i : At(i).update = TRUE /\ Kept(i).update = FALSE /\ At(i).list = NotInTensorList
               /\ Kept(i).list = NotInTensorList
    BY AtParts
  <2>2. InList(1, 0).update = TRUE /\ InList(2, 0).update = TRUE /\ InList(1, 0).list = 1 /\ InList(2, 0).list = 2
    BY ListParts
  <2>3. CASE p.isFA
    BY <1>6, <2>1, <2>2, <2>3
  <2>4. CASE ~p.isFA
    BY <1>6, <2>1, <2>2, <2>4
  <2> QED
    BY <2>3, <2>4
<1>9. Tensors(slots) = T
  <2>1. Tensors(slots) = {i \in 1 .. n : s[i].update}
    BY <1>7 DEF Tensors
  <2>2. \A i \in 1 .. n : s[i].update <=> i # 5 /\ (i = 4 => p.isFA) /\ (i = 6 => ~p.isFA)
    BY <1>1, <1>8
  <2> QED
    BY <2>1, <2>2
<1>10. /\ s[1].idx = 0 /\ s[2].idx = 0 /\ s[3].idx = 0 /\ (p.isFA => s[4].idx = 4) /\ (~p.isFA => s[6].idx = 14)
       /\ s[7].idx = 12 /\ s[8].idx = 13
  BY <1>6 DEF At, Kept, InList
<1>11. \A i, j \in T : i \notin {2, 3} /\ j \notin {2, 3} /\ s[i].idx = s[j].idx => i = j
  BY <1>1, <1>10
<1>12. {2, 3} \subseteq T /\ T \subseteq 1 .. n /\ n \in 6 .. 8
  BY <1>1
<1>13. /\ {2, 3} \subseteq Tensors(slots) /\ slots[2].list = 1 /\ slots[3].list = 2
       /\ \A i \in Tensors(slots) : i \notin {2, 3} => slots[i].list = NotInTensorList
       /\ \A i, j \in Tensors(slots) : i \notin {2, 3} /\ j \notin {2, 3} /\ slots[i].idx = slots[j].idx => i = j
  <2>1. \A i \in T : i \notin {2, 3} => s[i].list = NotInTensorList
    <3>1. T \subseteq {1, 2, 3, 4, 6, 7, 8}
      BY <1>1
    <3> QED
      BY <1>8, <3>1
  <2> HIDE DEF T
  <2>2. \A i \in T : slots[i] = s[i]
    BY <1>7, <1>12
  <2>3. slots[2].list = 1 /\ slots[3].list = 2
    BY <1>8, <1>12, <2>2
  <2>4. \A i \in T : i \notin {2, 3} => slots[i].list = NotInTensorList
    BY <2>1, <2>2
  <2>5. \A i, j \in T : i \notin {2, 3} /\ j \notin {2, 3} /\ slots[i].idx = slots[j].idx => i = j
    BY <1>11, <2>2
  <2> QED
    BY <1>9, <1>12, <2>3, <2>4, <2>5
<1>14. SideIsSound(slots, call, KeyAndValueList)
  BY <1>4, <1>7, <1>9, <1>13, KeyAndValueSide
<1> QED
  BY <1>2, <1>3, <1>14, SoundByInputs

LEMMA FusedInferIsSound ==
  ASSUME NEW r \in Ranks, NEW p \in [needMask : BOOLEAN, enablePa : BOOLEAN, isTND : BOOLEAN], p.enablePa => p.needMask
  PROVE  Sound(FusedInferAttentionV2Operation(p, r))
<1> DEFINE s == <<At(0), InList(1, 0), InList(2, 0), Kept(6), At(4), Kept(5), At(14)>>
           n == 4 + (IF ~p.needMask THEN 0 ELSE IF p.enablePa THEN 3 ELSE 1 + One(p.isTND))
           call == <<0, 1, 2, Null, IF p.needMask THEN 4 ELSE Null, IF p.enablePa THEN 6 ELSE Null>>
           shapes == <<Full(r)>>
           slots == SubSeq(s, 1, n)
           T == {i \in 1 .. n : i \notin {4, 6}}
<1>1. n \in 4 .. 7 /\ (p.needMask => n > 4) /\ (p.enablePa => n = 7)
  BY DEF One
<1>2. Shaped(shapes)
  BY FullShapes
<1>3. /\ HasInputs(FusedInferAttentionV2Operation(p, r), slots, call, KeyAndValueList)
      /\ HasOutputs(FusedInferAttentionV2Operation(p, r), shapes)
  BY DEF FusedInferAttentionV2Operation, Call, HasInputs, HasOutputs
<1>4. PassesSome(call, T)
  BY <1>1 DEF PassesSome, Null
<1>5. s \in Seq(Slots) /\ Len(s) = 7
  <2>1. /\ At(0) \in Slots /\ InList(1, 0) \in Slots /\ InList(2, 0) \in Slots /\ Kept(6) \in Slots
        /\ At(4) \in Slots /\ Kept(5) \in Slots /\ At(14) \in Slots
    BY AtParts, ListParts
  <2> QED
    BY <2>1
<1>6. /\ s[1] = At(0) /\ s[2] = InList(1, 0) /\ s[3] = InList(2, 0) /\ s[4] = Kept(6) /\ s[5] = At(4)
      /\ s[6] = Kept(5) /\ s[7] = At(14)
  OBVIOUS
<1> HIDE DEF s, n, call, shapes
<1>7. slots \in Seq(Slots) /\ DOMAIN slots = 1 .. n /\ \A i \in 1 .. n : slots[i] = s[i]
  <2>1. n \in 0 .. Len(s)
    BY <1>1, <1>5
  <2> QED
    BY <1>5, <2>1, FirstSlots
<1> HIDE DEF slots
<1>8. /\ s[1].update /\ s[2].update /\ s[3].update /\ ~s[4].update /\ s[5].update /\ ~s[6].update /\ s[7].update
      /\ s[1].list = NotInTensorList /\ s[2].list = 1 /\ s[3].list = 2 /\ s[5].list = NotInTensorList
      /\ s[7].list = NotInTensorList
      /\ s[1].idx = 0 /\ s[5].idx = 4 /\ s[7].idx = 14
  BY <1>6, AtParts, ListParts
<1>9. Tensors(slots) = T
  <2>1. Tensors(slots) = {i \in 1 .. n : s[i].update}
    BY <1>7 DEF Tensors
  <2>2. \A i \in 1 .. n : s[i].update <=> i \notin {4, 6}
    BY <1>1, <1>8
  <2> QED
    BY <2>1, <2>2
<1>10. T \subseteq {1, 2, 3, 5, 7} /\ {2, 3} \subseteq T /\ T \subseteq 1 .. n
  BY <1>1
<1>11. /\ \A i, j \in T : i \notin {2, 3} /\ j \notin {2, 3} /\ s[i].idx = s[j].idx => i = j
       /\ \A i \in T : i \notin {2, 3} => s[i].list = NotInTensorList
  BY <1>8, <1>10
<1>12. /\ {2, 3} \subseteq Tensors(slots) /\ slots[2].list = 1 /\ slots[3].list = 2
       /\ \A i \in Tensors(slots) : i \notin {2, 3} => slots[i].list = NotInTensorList
       /\ \A i, j \in Tensors(slots) : i \notin {2, 3} /\ j \notin {2, 3} /\ slots[i].idx = slots[j].idx => i = j
  <2> HIDE DEF T
  <2>2. \A i \in T : slots[i] = s[i]
    BY <1>7, <1>10
  <2>3. slots[2].list = 1 /\ slots[3].list = 2
    BY <1>8, <1>10, <2>2
  <2>4. \A i \in T : i \notin {2, 3} => slots[i].list = NotInTensorList
    BY <1>11, <2>2
  <2>5. \A i, j \in T : i \notin {2, 3} /\ j \notin {2, 3} /\ slots[i].idx = slots[j].idx => i = j
    BY <1>11, <2>2
  <2> QED
    BY <1>9, <1>10, <2>3, <2>4, <2>5
<1>13. SideIsSound(slots, call, KeyAndValueList)
  BY <1>4, <1>7, <1>9, <1>12, KeyAndValueSide
<1> QED
  BY <1>2, <1>3, <1>13, SoundByInputs

LEMMA FlashAttentionScoreIsSound ==
  ASSUME NEW r \in Ranks, NEW p \in [needPse : BOOLEAN, needMask : BOOLEAN]
  PROVE  Sound(FlashAttentionScoreOperation(p, r))
<1> DEFINE n == 3 + One(p.needPse) + One(p.needMask)
           call == <<0, 1, 2, IF p.needPse THEN 3 ELSE Null, Null, Null, IF p.needMask THEN n - 1 ELSE Null, Null>>
           o == FlashAttentionScoreOperation(p, r)
<1>1. n \in Nat /\ Passes(call, n)
  BY DEF Passes, PassesSome, Null, One
<1>2. /\ o.ins = InOrder(n) /\ o.call = call /\ o.lists = <<>> /\ o.outs = InOrder(4) /\ o.gets = <<1, 2, 3, 0>>
      /\ o.outLists = <<>> /\ o.shapes = <<Full(r), Full(4), Full(4), Full(4)>>
  BY DEF FlashAttentionScoreOperation, Call
<1> HIDE DEF n, call, o
<1>3. SideIsSound(o.ins, o.call, o.lists)
  BY <1>1, <1>2, SideInOrder
<1>4. Passes(<<1, 2, 3, 0>>, 4) /\ AllGiven(<<1, 2, 3, 0>>)
  BY DEF Passes, PassesSome, Null, AllGiven
<1>5. SideIsSound(o.outs, o.gets, o.outLists) /\ AllGiven(o.gets)
  BY <1>2, <1>4, SideInOrder
<1>6. Complete(o.shapes)
  BY <1>2, FullShapes DEF Shaped
<1>7. Sound(o)
  BY <1>3, <1>5, <1>6, SoundBySides
<1> QED
  BY <1>7 DEF o

\* The last two inputs are sequence lengths on the host.
LEMMA PromptFlashAttentionIsSound ==
  ASSUME NEW r \in Ranks, NEW p \in [needMask : BOOLEAN]
  PROVE  Sound(PromptFlashAttentionOperation(p, r))
<1> DEFINE n == 5 + One(p.needMask)
           call == <<0, 1, 2, Null, IF p.needMask THEN 3 ELSE Null>>
           slots == [i \in 1 .. n |-> IF i > n - 2 THEN Kept(i) ELSE IF i > 3 THEN At(i) ELSE At(i - 1)]
<1>1. n \in 5 .. 6 /\ (p.needMask => n = 6)
  BY DEF One
<1>2. /\ HasInputs(PromptFlashAttentionOperation(p, r), slots, call, <<>>)
      /\ HasOutputs(PromptFlashAttentionOperation(p, r), <<Full(r)>>)
  BY DEF PromptFlashAttentionOperation, Call, HasInputs, HasOutputs
<1>3. PassesSome(call, 1 .. n - 2)
  BY <1>1 DEF PassesSome, Null
<1> HIDE DEF n, call
<1>4. slots \in Seq(Slots) /\ DOMAIN slots = 1 .. n
  <2>1. \A i \in 1 .. n : Kept(i) \in Slots /\ At(i) \in Slots /\ At(i - 1) \in Slots
    BY <1>1, AtParts
  <2>2. slots \in [1 .. n -> Slots] /\ DOMAIN slots = 1 .. n
    BY <2>1
  <2>3. n \in Nat
    BY <1>1
  <2> HIDE DEF slots, n
  <2>4. slots \in Seq(Slots)
    BY <2>2, <2>3
  <2> QED
    BY <2>2, <2>4
<1>5. \A i \in 1 .. n : /\ i > n - 2 => slots[i] = Kept(i)
                        /\ i <= n - 2 /\ i > 3 => slots[i] = At(i)
                        /\ i <= n - 2 /\ i <= 3 => slots[i] = At(i - 1)
  BY <1>1
<1> HIDE DEF slots
<1>6. \A i \in 1 .. n : /\ slots[i].list = NotInTensorList /\ (i > n - 2 => slots[i].update = FALSE)
                        /\ i <= n - 2 => slots[i].update = TRUE /\ slots[i].idx = IF i > 3 THEN i ELSE i - 1
  <2> TAKE i \in 1 .. n
  <2>1. CASE i > n - 2
    BY <1>1, <1>5, <2>1, AtParts
  <2>2. CASE i <= n - 2 /\ i > 3
    BY <1>1, <1>5, <2>2, AtParts
  <2>3. CASE i <= n - 2 /\ i <= 3
    BY <1>1, <1>5, <2>3, AtParts
  <2>4. n \in Int /\ i \in Int
    BY <1>1
  <2>5. i > n - 2 \/ (i <= n - 2 /\ i > 3) \/ (i <= n - 2 /\ i <= 3)
    BY <2>4
  <2> QED
    BY <2>1, <2>2, <2>3, <2>5
<1>7. Tensors(slots) = 1 .. n - 2
  BY <1>1, <1>4, <1>6 DEF Tensors
<1>8. \A i, j \in Tensors(slots) : slots[i].idx = slots[j].idx => i = j
  BY <1>1, <1>6, <1>7
<1>9. \A i \in Tensors(slots) : slots[i].list = NotInTensorList
  BY <1>1, <1>6, <1>7
<1>10. SideIsSound(slots, call, <<>>)
  BY <1>3, <1>4, <1>7, <1>8, <1>9, PlainSide
<1> QED
  BY <1>2, <1>10, SoundByInputs, FullShapes

LEMMA UptoThen ==
  ASSUME NEW m \in Nat, NEW n \in Nat, m <= n, NEW tail \in Seq(Int),
         \A k \in DOMAIN tail : tail[k] # Null => tail[k] \in m .. n - 1,
         \A k, l \in DOMAIN tail : tail[k] = tail[l] /\ tail[k] # Null => k = l
  PROVE  Passes(Upto(m) \o tail, n)
<1> DEFINE u == Upto(m)
           call == u \o tail
<1>1. u \in Seq(Int) /\ Len(u) = m /\ \A k \in 1 .. m : u[k] = k - 1
  BY PassesUpto DEF Upto
<1> HIDE DEF u
<1>2. call \in Seq(Int) /\ Len(call) = m + Len(tail) /\ DOMAIN call = 1 .. m + Len(tail) /\ Len(tail) \in Nat
      /\ DOMAIN tail = 1 .. Len(tail)
  <2>1. Len(tail) \in Nat /\ DOMAIN tail = 1 .. Len(tail)
    OBVIOUS
  <2>2. call \in Seq(Int) /\ Len(call) = m + Len(tail)
    BY <1>1, ConcatProperties
  <2>3. DOMAIN call = 1 .. Len(call)
    BY <2>2
  <2> QED
    BY <2>1, <2>2, <2>3
<1>3. /\ \A k \in 1 .. m : call[k] = k - 1
      /\ \A k \in DOMAIN call : k > m => k - m \in DOMAIN tail /\ call[k] = tail[k - m]
  <2>1. \A k \in 1 .. Len(u) + Len(tail) : call[k] = IF k <= Len(u) THEN u[k] ELSE tail[k - Len(u)]
    BY <1>1, ConcatProperties
  <2>2. ASSUME NEW k \in 1 .. m PROVE call[k] = k - 1
    BY <1>1, <1>2, <2>1
  <2>3. ASSUME NEW k \in DOMAIN call, k > m PROVE k - m \in DOMAIN tail /\ call[k] = tail[k - m]
    <3>1. k \in 1 .. m + Len(tail) /\ k - m \in 1 .. Len(tail)
      BY <1>2, <2>3
    <3> QED
      BY <1>1, <1>2, <2>1, <2>3, <3>1
  <2> QED
    BY <2>2, <2>3
<1> HIDE DEF call
<1>4. \A k \in DOMAIN call : call[k] # Null => /\ call[k] + 1 \in 1 .. n
                                               /\ k > m => call[k] >= m
                                               /\ k <= m => call[k] = k - 1
  <2> TAKE k \in DOMAIN call
  <2>1. CASE k <= m
    BY <1>2, <1>3, <2>1
  <2>2. CASE k > m
    <3>1. k - m \in DOMAIN tail /\ call[k] = tail[k - m]
      BY <1>2, <1>3, <2>2
    <3> QED
      BY <1>2, <2>2, <3>1
  <2> QED
    BY <1>2, <2>1, <2>2
<1>5. ASSUME NEW k \in DOMAIN call, NEW l \in DOMAIN call, call[k] = call[l], call[k] # Null
      PROVE  k = l
  <2>1. CASE k <= m /\ l <= m
    BY <1>2, <1>4, <1>5, <2>1
  <2>2. CASE k > m /\ l > m
    <3>1. k - m \in DOMAIN tail /\ l - m \in DOMAIN tail /\ tail[k - m] = tail[l - m] /\ tail[k - m] # Null
      BY <1>2, <1>3, <1>5, <2>2
    <3>2. k - m = l - m
      BY <3>1
    <3> QED
      BY <1>2, <3>2
  <2>3. CASE (k <= m /\ l > m) \/ (k > m /\ l <= m)
    BY <1>2, <1>4, <1>5, <2>3
  <2> QED
    BY <1>2, <2>1, <2>2, <2>3
<1>6. Passes(call, n)
  BY <1>2, <1>4, <1>5 DEF Passes, PassesSome
<1> QED
  BY <1>6 DEF call, u

\* Numbers that grow.
Growing(s, b) == s \in Seq(Int) /\ (\A k \in 1 .. Len(s) : s[k] < b) /\ \A k, l \in 1 .. Len(s) : s[k] = s[l] => k = l

LEMMA GrowsByOne ==
  ASSUME NEW s, NEW b \in Int, Growing(s, b), NEW x \in Int, b <= x
  PROVE  Growing(s \o <<x>>, x + 1) /\ Len(s \o <<x>>) = Len(s) + 1
<1>1. s \in Seq(Int) /\ Len(s) \in Nat
  BY DEF Growing
<1>2. s \o <<x>> \in Seq(Int) /\ Len(s \o <<x>>) = Len(s) + 1
  BY <1>1
<1>3. (s \o <<x>>)[Len(s) + 1] = x /\ \A k \in 1 .. Len(s) : (s \o <<x>>)[k] = s[k] /\ s[k] \in Int
  BY <1>1
<1> DEFINE t == s \o <<x>>
<1> HIDE DEF t
<1>4. /\ t \in Seq(Int) /\ Len(t) = Len(s) + 1 /\ t[Len(s) + 1] = x
      /\ \A k \in 1 .. Len(s) : t[k] = s[k] /\ s[k] \in Int /\ s[k] < b
  BY <1>2, <1>3 DEF t, Growing
<1>5. \A k \in 1 .. Len(s) + 1 : k = Len(s) + 1 \/ k \in 1 .. Len(s)
  BY <1>1
<1>6. \A k \in 1 .. Len(t) : t[k] < x + 1
  BY <1>1, <1>4, <1>5
<1>7. \A k, l \in 1 .. Len(t) : t[k] = t[l] => k = l
  <2> SUFFICES ASSUME NEW k \in 1 .. Len(t), NEW l \in 1 .. Len(t), t[k] = t[l] PROVE k = l
    OBVIOUS
  <2>1. CASE k \in 1 .. Len(s) /\ l \in 1 .. Len(s)
    BY <1>4, <2>1 DEF Growing
  <2>2. CASE k = Len(s) + 1 \/ l = Len(s) + 1
    BY <1>1, <1>4, <1>5, <2>2
  <2> QED
    BY <1>4, <1>5, <2>1, <2>2
<1> QED
  BY <1>4, <1>6, <1>7 DEF Growing, t

LEMMA GrowsByTwo ==
  ASSUME NEW s, NEW b \in Int, Growing(s, b), NEW x \in Int, b <= x, NEW y \in Int, x < y
  PROVE  Growing(s \o <<x, y>>, y + 1) /\ Len(s \o <<x, y>>) = Len(s) + 2
<1>1. Growing(s \o <<x>>, x + 1) /\ Len(s \o <<x>>) = Len(s) + 1
  BY GrowsByOne
<1>2. x + 1 \in Int /\ x + 1 <= y
  OBVIOUS
<1> DEFINE t == s \o <<x>>
<1> HIDE DEF t
<1>3. Growing(t \o <<y>>, y + 1) /\ Len(t \o <<y>>) = Len(t) + 1
  BY <1>1, <1>2, GrowsByOne DEF t
<1>4. s \in Seq(Int) /\ Len(s) \in Nat
  BY DEF Growing
<1>5. t \o <<y>> = s \o <<x, y>>
  <2>1. <<x>> \in Seq(Int) /\ <<y>> \in Seq(Int) /\ <<x>> \o <<y>> = <<x, y>>
    <3>1. <<x>> \in Seq(Int) /\ <<y>> \in Seq(Int) /\ <<x, y>> \in Seq(Int)
          /\ Len(<<x>>) = 1 /\ Len(<<y>>) = 1 /\ Len(<<x, y>>) = 2
      OBVIOUS
    <3>2. /\ <<x>> \o <<y>> \in Seq(Int) /\ Len(<<x>> \o <<y>>) = 2
          /\ \A i \in 1 .. 2 : (<<x>> \o <<y>>)[i] = IF i <= 1 THEN <<x>>[i] ELSE <<y>>[i - 1]
      BY <3>1, ConcatProperties
    <3>3. \A i \in 1 .. 2 : (<<x>> \o <<y>>)[i] = <<x, y>>[i]
      BY <3>2
    <3> QED
      BY <3>1, <3>2, <3>3, SeqEqual
  <2> QED
    BY <1>4, <2>1, ConcatAssociative DEF t
<1>6. Len(t) = Len(s) + 1
  BY <1>1 DEF t
<1>7. Len(t \o <<y>>) = Len(s) + 2
  BY <1>3, <1>4, <1>6
<1> QED
  BY <1>3, <1>5, <1>7

LEMMA GrowsByNone ==
  ASSUME NEW s, NEW b \in Int, Growing(s, b), NEW c \in Int, b <= c
  PROVE  Growing(s \o <<>>, c) /\ Len(s \o <<>>) = Len(s)
<1>1. s \in Seq(Int) /\ Len(s) \in Nat
  BY DEF Growing
<1>2. s \o <<>> = s
  BY <1>1
<1>3. \A k \in 1 .. Len(s) : s[k] \in Int /\ s[k] < b
  BY <1>1 DEF Growing
<1>4. \A k \in 1 .. Len(s) : s[k] < c
  BY <1>1, <1>3
<1> QED
  BY <1>1, <1>2, <1>4 DEF Growing

\* The optional inputs of latent attention follow the required ones without gaps.
LEMMA MultiLatentIsSound ==
  ASSUME NEW p \in [hasMask : BOOLEAN, isSpec : BOOLEAN, isInt8Nz : BOOLEAN, isRing : BOOLEAN]
  PROVE  Sound(MultiLatentAttentionOperation(p))
<1> DEFINE qLen == 6 + One(p.hasMask)
           descale == qLen + One(p.isSpec)
           n == descale + 2 * One(p.isInt8Nz)
           tail == <<IF p.hasMask THEN 6 ELSE Null, IF p.isSpec THEN qLen ELSE Null,
                     IF p.isInt8Nz THEN descale ELSE Null, IF p.isInt8Nz THEN descale + 1 ELSE Null>>
           six == Upto(6)
           call == six \o tail
           withMask == six \o (IF p.hasMask THEN <<6>> ELSE <<>>)
           withLen == withMask \o (IF p.isSpec THEN <<7>> ELSE <<>>)
           slots == withLen \o (IF p.isInt8Nz THEN <<8, 9>> ELSE <<>>)
           ins == [i \in 1 .. n |-> At(slots[i])]
           shapes == IF p.isRing THEN <<Full(3), Full(3)>> ELSE <<Full(3)>>
<1>1. /\ HasInputs(MultiLatentAttentionOperation(p), ins, call, <<>>)
      /\ HasOutputs(MultiLatentAttentionOperation(p), shapes)
  BY DEF MultiLatentAttentionOperation, Call, HasInputs, HasOutputs
<1>2. Shaped(shapes)
  BY FullShapes
<1>3. n \in 6 .. 10 /\ qLen \in 6 .. 7 /\ descale \in 6 .. 8
  BY DEF One
<1>4. Passes(call, n)
  <2>1. tail \in Seq(Int) /\ DOMAIN tail = 1 .. 4
    BY <1>3 DEF Null
  <2>2. /\ \A k \in DOMAIN tail : tail[k] # Null => tail[k] \in 6 .. n - 1
        /\ \A k, l \in DOMAIN tail : tail[k] = tail[l] /\ tail[k] # Null => k = l
    BY DEF One, Null
  <2> HIDE DEF tail, n
  <2> QED
    <3>1. n \in Nat /\ 6 \in Nat /\ 6 <= n
      BY <1>3
    <3>2. Passes(Upto(6) \o tail, n)
      BY <2>1, <2>2, <3>1, UptoThen
    <3> QED
      BY <3>2
<1>5. Growing(six, 6) /\ Len(six) = 6
  <2>1. six \in Seq(Int) /\ Len(six) = 6 /\ \A k \in 1 .. 6 : six[k] = k - 1
    BY PassesUpto DEF Upto
  <2> HIDE DEF six
  <2> QED
    BY <2>1 DEF Growing
<1> HIDE DEF six
<1>6. Growing(withMask, 7) /\ Len(withMask) = 6 + One(p.hasMask)
  <2>1. Growing(six \o <<6>>, 6 + 1) /\ Len(six \o <<6>>) = Len(six) + 1
    <3>1. Growing(six, 6)
      BY <1>5
    <3> QED
      BY <3>1, GrowsByOne
  <2>2. Growing(six \o <<>>, 7) /\ Len(six \o <<>>) = Len(six)
    BY <1>5, GrowsByNone
  <2>3. CASE p.hasMask
    BY <1>5, <2>1, <2>3 DEF One
  <2>4. CASE ~p.hasMask
    BY <1>5, <2>2, <2>4 DEF One
  <2> QED
    BY <2>3, <2>4
<1> HIDE DEF withMask
<1>7. Growing(withLen, 8) /\ Len(withLen) = 6 + One(p.hasMask) + One(p.isSpec)
  <2>1. Growing(withMask \o <<7>>, 7 + 1) /\ Len(withMask \o <<7>>) = Len(withMask) + 1
    BY <1>6, GrowsByOne
  <2>2. Growing(withMask \o <<>>, 8) /\ Len(withMask \o <<>>) = Len(withMask)
    BY <1>6, GrowsByNone
  <2>3. CASE p.isSpec
    BY <1>6, <2>1, <2>3 DEF One
  <2>4. CASE ~p.isSpec
    BY <1>6, <2>2, <2>4 DEF One
  <2> QED
    BY <2>3, <2>4
<1> HIDE DEF withLen
<1>8. Growing(slots, 10) /\ Len(slots) = n
  <2>1. Growing(withLen \o <<8, 9>>, 9 + 1) /\ Len(withLen \o <<8, 9>>) = Len(withLen) + 2
    BY <1>7, GrowsByTwo
  <2>2. Growing(withLen \o <<>>, 10) /\ Len(withLen \o <<>>) = Len(withLen)
    BY <1>7, GrowsByNone
  <2>3. CASE p.isInt8Nz
    BY <1>7, <2>1, <2>3 DEF One
  <2>4. CASE ~p.isInt8Nz
    BY <1>7, <2>2, <2>4 DEF One
  <2> QED
    BY <2>3, <2>4
<1> HIDE DEF slots, n, call, shapes
<1>9. slots \in Seq(Int) /\ n \in Nat /\ \A i, j \in 1 .. n : slots[i] = slots[j] => i = j
  BY <1>3, <1>8 DEF Growing
<1>10. slots \in [1 .. n -> Int]
  BY <1>8, <1>9
<1>11. SideIsSound(ins, call, <<>>)
  BY <1>4, <1>9, <1>10, SideNumbered
<1> HIDE DEF ins
<1> QED
  BY <1>1, <1>2, <1>11, SoundByInputs

LEMMA UptoIsCall ==
  ASSUME NEW n \in Nat, NEW shapes, Shaped(shapes)
  PROVE  IsCall(n, Upto(n), shapes)
BY PassesUpto DEF IsCall

LEMMA SparseAttentionIsSound ==
  ASSUME NEW r \in Ranks
  PROVE  /\ \A p \in [hasBlockTable : BOOLEAN, isBSND : BOOLEAN] : Sound(LightningIndexerOperation(p))
         /\ \A p \in [hasBlockTable : BOOLEAN, isTND : BOOLEAN] : Sound(SparseFlashAttentionOperation(p))
         /\ Sound(MlaPreprocessV2Operation) /\ Sound(ReshapeDecodeKvCacheOperation) /\ Sound(XAttentionOperation(r))
<1>1. ASSUME NEW p \in [hasBlockTable : BOOLEAN, isBSND : BOOLEAN] PROVE Sound(LightningIndexerOperation(p))
  <2> DEFINE n == 5 + One(p.hasBlockTable)
             tail == <<IF p.hasBlockTable THEN 5 ELSE Null>>
             shapes == <<Full(IF p.isBSND THEN 4 ELSE 3)>>
  <2>1. n \in Nat /\ 5 <= n /\ tail \in Seq(Int) /\ 5 \in Nat
        /\ (\A k \in DOMAIN tail : tail[k] # Null => tail[k] \in 5 .. n - 1)
        /\ \A k, l \in DOMAIN tail : tail[k] = tail[l] /\ tail[k] # Null => k = l
    BY DEF One, Null
  <2>2. LightningIndexerOperation(p) = [Call(n, Upto(5) \o tail, shapes) EXCEPT !.aux = {0}]
    BY DEF LightningIndexerOperation
  <2>3. Shaped(shapes)
    BY FullShapes
  <2> HIDE DEF n, tail, shapes
  <2>4. Passes(Upto(5) \o tail, n)
    BY <2>1, UptoThen
  <2>5. IsCall(n, Upto(5) \o tail, shapes)
    BY <2>1, <2>3, <2>4 DEF IsCall
  <2> QED
    BY <2>2, <2>5, CallIsSound
<1>2. ASSUME NEW p \in [hasBlockTable : BOOLEAN, isTND : BOOLEAN] PROVE Sound(SparseFlashAttentionOperation(p))
  <2> DEFINE shapes == <<Full(IF p.isTND THEN 3 ELSE 4)>>
             table == <<0, 1, 2, 3, 4, 5, 6, 7, 8>>
             none == <<0, 1, 2, 3, Null, 5, 6, 7, 8>>
  <2>1. Shaped(shapes)
    BY FullShapes
  <2>2. Passes(table, 9)
    BY DEF Passes, PassesSome, Null
  <2>3. Passes(none, 9) /\ \A k \in DOMAIN none : none[k] # 4
    BY DEF Passes, PassesSome, Null
  <2>4. /\ p.hasBlockTable => SparseFlashAttentionOperation(p) = Call(9, table, shapes)
        /\ ~p.hasBlockTable => SparseFlashAttentionOperation(p) = [Call(9, none, shapes) EXCEPT !.ins[5] = Kept(-1)]
    BY DEF SparseFlashAttentionOperation
  <2> HIDE DEF shapes, table, none
  <2>5. IsCall(9, table, shapes) /\ IsCall(9, none, shapes)
    BY <2>1, <2>2, <2>3 DEF IsCall
  <2>6. 5 \in 1 .. 9 /\ -1 \in Int /\ \A k \in DOMAIN none : none[k] # 5 - 1
    BY <2>3
  <2>7. Sound(Call(9, table, shapes))
    BY <2>5, CallIsSound
  <2>8. Sound([Call(9, none, shapes) EXCEPT !.ins[5] = Kept(-1)])
    BY <2>5, <2>6, KeptIsSound
  <2> QED
    BY <2>4, <2>7, <2>8
<1>3. Sound(MlaPreprocessV2Operation)
  BY UptoIsCall, CallIsSound, FullShapes DEF MlaPreprocessV2Operation
<1>4. Sound(ReshapeDecodeKvCacheOperation)
  BY UptoIsCall, CallIsSound, FullShapes DEF ReshapeDecodeKvCacheOperation
<1>5. Sound(XAttentionOperation(r))
  <2> DEFINE tail == <<Null>>
  <2>1. tail \in Seq(Int) /\ \A k \in DOMAIN tail : tail[k] = Null
    BY DEF Null
  <2>2. XAttentionOperation(r) = Call(8, Upto(8) \o tail, <<Full(r)>>)
    BY DEF XAttentionOperation
  <2> HIDE DEF tail
  <2>3. Passes(Upto(8) \o tail, 8)
    <3>1. 8 \in Nat /\ 8 <= 8 /\ \A k \in DOMAIN tail : tail[k] # Null => tail[k] \in 8 .. 8 - 1
      BY <2>1
    <3>2. \A k, l \in DOMAIN tail : tail[k] = tail[l] /\ tail[k] # Null => k = l
      BY <2>1
    <3> QED
      BY <2>1, <3>1, <3>2, UptoThen
  <2>4. IsCall(8, Upto(8) \o tail, <<Full(r)>>)
    BY <2>3, FullShapes DEF IsCall
  <2> QED
    BY <2>2, <2>4, CallIsSound
<1> QED
  BY <1>1, <1>2, <1>3, <1>4, <1>5

LEMMA DequantRopeIsSound ==
  ASSUME NEW p \in [enableDequant : BOOLEAN]
  PROVE  Sound(DequantRopeQuantKvcacheOperation(p))
<1> DEFINE n == 10 + 2 * One(p.enableDequant)
           tail == <<IF p.enableDequant THEN 10 ELSE Null, Null, Null, IF p.enableDequant THEN 11 ELSE Null, Null>>
           shapes == <<Full(3), Full(3), Full(3)>>
           call == Upto(10) \o tail
           loose == {"sizeSplits"}
<1>1. n \in Nat /\ 10 <= n /\ tail \in Seq(Int) /\ 10 \in Nat
      /\ (\A k \in DOMAIN tail : tail[k] # Null => tail[k] \in 10 .. n - 1)
      /\ \A k, l \in DOMAIN tail : tail[k] = tail[l] /\ tail[k] # Null => k = l
  BY DEF One, Null
<1> DEFINE given == [Call(n, call, shapes) EXCEPT !.loose = loose]
<1>2. /\ DequantRopeQuantKvcacheOperation(p) = IF p.enableDequant THEN [given EXCEPT !.ins[12] = At(12)] ELSE given
      /\ p.enableDequant => n = 12
  BY DEF DequantRopeQuantKvcacheOperation, One
<1>3. Shaped(shapes)
  BY FullShapes
<1> HIDE DEF n, tail, shapes, loose
<1>4. IsCall(n, call, shapes)
  <2>1. Passes(call, n)
    BY <1>1, UptoThen
  <2> QED
    BY <1>1, <1>3, <2>1 DEF IsCall
<1> HIDE DEF call
<1>5. p.enableDequant => IsFree(n, 12, 12)
  BY <1>2 DEF IsFree
<1>6. CASE p.enableDequant
  <2>1. Sound([[Call(n, call, shapes) EXCEPT !.loose = loose] EXCEPT !.ins[12] = At(12)])
    BY <1>4, <1>5, <1>6, MovedIsSound
  <2> QED
    BY <1>2, <1>6, <2>1
<1>7. CASE ~p.enableDequant
  BY <1>2, <1>4, <1>7, CallIsSound
<1> QED
  BY <1>6, <1>7

\* The indices are the one tensor of a list.
LEMMA IndexputIsSound ==
  ASSUME NEW r \in Ranks
  PROVE  Sound(IndexputOperation(r))
<1> DEFINE slots == [InOrder(3) EXCEPT ![2] = InList(0, 0)]
           call == <<0, 1, 2>>
           lists == <<{1}>>
<1>1. /\ HasInputs(IndexputOperation(r), slots, call, lists) /\ HasOutputs(IndexputOperation(r), <<Full(r)>>)
  BY DEF IndexputOperation, InPlace, Call, HasInputs, HasOutputs
<1>2. /\ InOrder(3) \in Seq(Slots) /\ DOMAIN InOrder(3) = 1 .. 3 /\ Len(InOrder(3)) = 3
      /\ \A i \in 1 .. 3 : InOrder(3)[i] = At(i - 1)
  BY TensorsInOrder
<1>3. slots \in Seq(Slots) /\ DOMAIN slots = 1 .. 3
  BY <1>2, ListParts
<1>4. slots[1] = At(0) /\ slots[2] = InList(0, 0) /\ slots[3] = At(2)
  BY <1>2
<1>5. Passes(call, 3)
  BY DEF Passes, PassesSome, Null
<1>6. lists \in Seq(SUBSET Int) /\ DOMAIN lists = {1} /\ lists[1] = {1}
  OBVIOUS
<1> HIDE DEF slots, call, lists
<1>7. /\ slots[1].update /\ slots[2].update /\ slots[3].update
      /\ slots[1].list = -1 /\ slots[2].list = 0 /\ slots[3].list = -1
      /\ slots[1].idx = 0 /\ slots[3].idx = 2
  BY <1>4, AtParts, ListParts DEF NotInTensorList
<1>8. Tensors(slots) = 1 .. 3
  BY <1>3, <1>7 DEF Tensors
<1>9. \A i, j \in 1 .. 3 : slots[i].list = slots[j].list /\ slots[i].idx = slots[j].idx => i = j
  BY <1>7
<1>10. \A i \in 1 .. 3 : slots[i].list # NotInTensorList => slots[i].list + 1 \in DOMAIN lists
  BY <1>6, <1>7 DEF NotInTensorList
<1>11. \A l \in DOMAIN lists : lists[l] = {i - 1 : i \in {i \in 1 .. 3 : slots[i].list = l - 1}}
  <2>1. {i \in 1 .. 3 : slots[i].list = 0} = {2}
    BY <1>7
  <2> QED
    BY <1>6, <2>1
<1>12. SideIsSound(slots, call, lists)
  BY <1>3, <1>5, <1>6, <1>8, <1>9, <1>10, <1>11 DEF SideIsSound, Slots, Passes, PassesSome
<1> QED
  BY <1>1, <1>12, SoundByInputs, FullShapes

-----------------------------------------------------------------------------
(* Mixture of experts.                                                     *)
GmmTypes == {"NONE", "W8A8_CHANNEL", "W8A16_CHANNEL", "W4A16_CHANNEL", "W8A8_TOKEN", "W4A8_GROUP"}

LEMMA OneMorePasses ==
  ASSUME NEW m \in Nat, NEW args, Passes(args, m)
  PROVE  Passes(Append(args, m), m + 1)
<1>1. /\ args \in Seq(Int) /\ (\A k \in DOMAIN args : args[k] # Null => args[k] + 1 \in 1 .. m)
      /\ \A k, l \in DOMAIN args : args[k] = args[l] /\ args[k] # Null => k = l
  BY DEF Passes, PassesSome
<1> DEFINE call == Append(args, m)
<1>2. /\ call \in Seq(Int) /\ Len(call) = Len(args) + 1 /\ Len(args) \in Nat
      /\ (\A k \in 1 .. Len(args) : call[k] = args[k]) /\ call[Len(args) + 1] = m
  BY <1>1, AppendProperties
<1>3. DOMAIN call = 1 .. Len(args) + 1 /\ DOMAIN args = 1 .. Len(args)
  BY <1>1, <1>2
<1> HIDE DEF call
<1>4. \A k \in DOMAIN call : k = Len(args) + 1 \/ k \in DOMAIN args
  BY <1>2, <1>3
<1>5. \A k \in DOMAIN args : args[k] \in Int /\ (args[k] # Null => args[k] < m)
  BY <1>1
<1>6. \A k \in DOMAIN call : call[k] # Null => call[k] + 1 \in 1 .. m + 1
  <2> SUFFICES ASSUME NEW k \in DOMAIN call, call[k] # Null PROVE call[k] + 1 \in 1 .. m + 1
    OBVIOUS
  <2>1. CASE k \in DOMAIN args
    <3>1. call[k] = args[k] /\ args[k] + 1 \in 1 .. m
      BY <1>1, <1>2, <1>3, <2>1
    <3> QED
      BY <3>1
  <2>2. CASE k = Len(args) + 1
    BY <1>2, <2>2
  <2> QED
    BY <1>4, <2>1, <2>2
<1>7. ASSUME NEW k \in DOMAIN call, NEW l \in DOMAIN call, call[k] = call[l], call[k] # Null
      PROVE  k = l
  <2>1. CASE k \in DOMAIN args /\ l \in DOMAIN args
    BY <1>1, <1>2, <1>3, <1>7, <2>1
  <2>2. CASE k = Len(args) + 1 /\ l \in DOMAIN args
    BY <1>2, <1>3, <1>5, <1>7, <2>2
  <2>3. CASE l = Len(args) + 1 /\ k \in DOMAIN args
    BY <1>2, <1>3, <1>5, <1>7, <2>3
  <2> QED
    BY <1>4, <2>1, <2>2, <2>3
<1>8. Passes(call, m + 1)
  BY <1>2, <1>6, <1>7 DEF Passes, PassesSome
<1> QED
  BY <1>8 DEF call

\* Every tensor but the last in a list of its own.
LEMMA OneEachSide ==
  ASSUME NEW n \in Nat \ {0}, NEW idx \in Int, NEW call, Passes(call, n)
  PROVE  SideIsSound([i \in 1 .. n |-> IF i < n THEN InList(i - 1, 0) ELSE At(idx)], call, OneEach(n - 1))
<1> DEFINE slots == [i \in 1 .. n |-> IF i < n THEN InList(i - 1, 0) ELSE At(idx)]
           lists == OneEach(n - 1)
<1>1. slots \in Seq(Slots) /\ DOMAIN slots = 1 .. n
  <2>1. \A i \in 1 .. n : InList(i - 1, 0) \in Slots /\ At(idx) \in Slots
    BY AtParts, ListParts
  <2>2. slots \in [1 .. n -> Slots] /\ DOMAIN slots = 1 .. n
    BY <2>1
  <2> HIDE DEF slots
  <2> QED
    BY <2>2
<1>2. \A i \in 1 .. n : /\ i < n => slots[i] = InList(i - 1, 0)
                        /\ i = n => slots[i] = At(idx)
  OBVIOUS
<1>3. lists \in Seq(SUBSET Int) /\ DOMAIN lists = 1 .. n - 1 /\ \A l \in 1 .. n - 1 : lists[l] = {l - 1}
  <2>1. DOMAIN lists = 1 .. n - 1 /\ (\A l \in 1 .. n - 1 : lists[l] = {l - 1}) /\ n - 1 \in Nat
    BY DEF OneEach
  <2>2. \A l \in 1 .. n - 1 : {l - 1} \in SUBSET Int
    OBVIOUS
  <2>3. lists \in [1 .. n - 1 -> SUBSET Int]
    BY <2>2 DEF OneEach
  <2> HIDE DEF lists
  <2> QED
    BY <2>1, <2>3
<1> HIDE DEF slots, lists
<1>4. \A i \in 1 .. n : /\ slots[i].update
                        /\ i < n => slots[i].list = i - 1
                        /\ i = n => slots[i].list = -1
  BY <1>2, AtParts, ListParts DEF NotInTensorList
<1>5. Tensors(slots) = 1 .. n
  BY <1>1, <1>4 DEF Tensors
<1>6. \A i, j \in 1 .. n : slots[i].list = slots[j].list => i = j
  <2> SUFFICES ASSUME NEW i \in 1 .. n, NEW j \in 1 .. n, slots[i].list = slots[j].list PROVE i = j
    OBVIOUS
  <2>1. CASE i < n /\ j < n
    BY <1>4, <2>1
  <2>2. CASE i = n \/ j = n
    BY <1>4, <2>2
  <2> QED
    BY <2>1, <2>2
<1>7. \A i \in 1 .. n : slots[i].list # NotInTensorList => slots[i].list + 1 \in DOMAIN lists
  BY <1>3, <1>4 DEF NotInTensorList
<1>8. \A l \in DOMAIN lists : lists[l] = {i - 1 : i \in {i \in 1 .. n : slots[i].list = l - 1}}
  <2> SUFFICES ASSUME NEW l \in 1 .. n - 1
               PROVE  lists[l] = {i - 1 : i \in {i \in 1 .. n : slots[i].list = l - 1}}
    BY <1>3
  <2>1. {i \in 1 .. n : slots[i].list = l - 1} = {l}
    <3>1. l \in 1 .. n /\ slots[l].list = l - 1
      BY <1>4
    <3>2. \A i \in 1 .. n : slots[i].list = l - 1 => i = l
      BY <1>6, <3>1
    <3> QED
      BY <3>1, <3>2
  <2> QED
    BY <1>3, <2>1
<1>9. /\ call \in Seq(Int)
      /\ \A k \in DOMAIN call : call[k] # Null => call[k] + 1 \in 1 .. n
      /\ \A k, l \in DOMAIN call : call[k] = call[l] /\ call[k] # Null => k = l
  BY DEF Passes, PassesSome
<1>10. \A i, j \in 1 .. n : slots[i].list = slots[j].list /\ slots[i].idx = slots[j].idx => i = j
  BY <1>6
<1>11. SideIsSound(slots, call, lists)
  BY <1>1, <1>3, <1>5, <1>7, <1>8, <1>9, <1>10 DEF SideIsSound, Slots
<1> QED
  BY <1>11 DEF slots, lists

\* The one result of a grouped matmul, in a list.
LEMMA ListedResult ==
  /\ SideIsSound(<<InList(0, 0)>>, Upto(1), OneEach(1)) /\ AllGiven(Upto(1))
<1> DEFINE slots == <<InList(0, 0)>>
           lists == OneEach(1)
<1>1. slots \in Seq(Slots) /\ DOMAIN slots = {1} /\ slots[1] = InList(0, 0)
  BY ListParts
<1>2. lists \in Seq(SUBSET Int) /\ DOMAIN lists = {1} /\ lists[1] = {0}
  <2>1. lists = <<{0}>>
    BY DEF OneEach
  <2> QED
    BY <2>1
<1> HIDE DEF slots, lists
<1>3. slots[1].update /\ slots[1].list = 0
  BY <1>1, ListParts
<1>4. Tensors(slots) = {1}
  BY <1>1, <1>3 DEF Tensors
<1>5. Passes(Upto(1), 1) /\ AllGiven(Upto(1))
  BY PassesUpto
<1>6. /\ Upto(1) \in Seq(Int)
      /\ \A k \in DOMAIN Upto(1) : Upto(1)[k] # Null => Upto(1)[k] + 1 \in Tensors(slots)
      /\ \A k, l \in DOMAIN Upto(1) : Upto(1)[k] = Upto(1)[l] /\ Upto(1)[k] # Null => k = l
  <2>1. 1 .. 1 = {1}
    OBVIOUS
  <2> QED
    BY <1>4, <1>5, <2>1 DEF Passes, PassesSome
<1>7. \A l \in DOMAIN lists : lists[l] = {i - 1 : i \in {i \in Tensors(slots) : slots[i].list = l - 1}}
  <2>1. {i \in Tensors(slots) : slots[i].list = 0} = {1}
    BY <1>3, <1>4
  <2> QED
    BY <1>2, <2>1
<1>8. SideIsSound(slots, Upto(1), lists)
  BY <1>1, <1>2, <1>3, <1>4, <1>6, <1>7 DEF SideIsSound, Slots
<1> QED
  BY <1>5, <1>8 DEF slots, lists

LEMMA GroupedMatmulIsSound ==
  ASSUME NEW p \in [hasBias : BOOLEAN, indexGmm : BOOLEAN, quantType : GmmTypes],
         p.indexGmm => p.quantType = "W8A8_TOKEN" /\ ~p.hasBias
  PROVE  Sound(GroupedMatmulOperation(p))
<1> DEFINE n == 3 + One(p.hasBias) + (IF p.quantType = "NONE" THEN 0 ELSE 2)
           call == Append(GmmArguments(p), n - 1)
           idx == IF p.indexGmm THEN 4 ELSE 7
           ins == [i \in 1 .. n |-> IF i < n THEN InList(i - 1, 0) ELSE At(idx)]
           o == GroupedMatmulOperation(p)
<1>1. /\ o.ins = ins /\ o.call = call /\ o.lists = OneEach(n - 1)
      /\ o.outs = <<InList(0, 0)>> /\ o.gets = Upto(1) /\ o.outLists = OneEach(1) /\ o.shapes = <<Full(2)>>
  <2>1. Len(<<Full(2)>>) = 1
    OBVIOUS
  <2> QED
    BY <2>1 DEF GroupedMatmulOperation, Call
<1>2. n \in Nat \ {0} /\ idx \in Int
  BY DEF One
<1>3. Passes(GmmArguments(p), n - 1)
  <2>1. CASE p.quantType = "NONE"
    <3>1. GmmArguments(p)
            = <<0, 1, IF p.hasBias THEN 2 ELSE Null, Null, Null, Null, Null, Null>>
      BY <2>1 DEF GmmArguments
    <3>2. n - 1 = 2 + One(p.hasBias)
      BY <2>1 DEF One
    <3> QED
      BY <3>1, <3>2 DEF Passes, PassesSome, Null, One
  <2>2. CASE p.quantType = "W8A8_CHANNEL"
    <3>1. GmmArguments(p)
            = <<0, 1, IF p.hasBias THEN 2 ELSE Null, 2 + One(p.hasBias), 3 + One(p.hasBias), Null, Null, Null>>
      BY <2>2 DEF GmmArguments
    <3>2. n - 1 = 4 + One(p.hasBias)
      BY <2>2 DEF One
    <3> QED
      BY <3>1, <3>2 DEF Passes, PassesSome, Null, One
  <2>3. CASE p.quantType \in {"W8A16_CHANNEL", "W4A16_CHANNEL"}
    <3>1. GmmArguments(p)
            = <<0, 1, IF p.hasBias THEN 2 ELSE Null, Null, Null, 2 + One(p.hasBias), 3 + One(p.hasBias), Null>>
      BY <2>3 DEF GmmArguments
    <3>2. n - 1 = 4 + One(p.hasBias)
      BY <2>3 DEF One
    <3> QED
      BY <3>1, <3>2 DEF Passes, PassesSome, Null, One
  <2>4. CASE p.quantType = "W8A8_TOKEN" /\ p.indexGmm
    <3>1. GmmArguments(p) = <<0, 1, 2 + One(p.hasBias), 3 + One(p.hasBias)>>
      BY <2>4 DEF GmmArguments
    <3>2. n - 1 = 4 + One(p.hasBias)
      BY <2>4 DEF One
    <3> QED
      BY <2>4, <3>1, <3>2 DEF Passes, PassesSome, Null, One
  <2>5. CASE p.quantType \in {"W8A8_TOKEN", "W4A8_GROUP"} /\ ~p.indexGmm
    <3>1. GmmArguments(p)
            = <<0, 1, IF p.hasBias THEN 2 ELSE Null, 2 + One(p.hasBias), Null, Null, Null, 3 + One(p.hasBias)>>
      BY <2>5 DEF GmmArguments
    <3>2. n - 1 = 4 + One(p.hasBias)
      BY <2>5 DEF One
    <3> QED
      BY <3>1, <3>2 DEF Passes, PassesSome, Null, One
  <2> QED
    BY <2>1, <2>2, <2>3, <2>4, <2>5 DEF GmmTypes
<1>4. Passes(call, n)
  <2>1. n - 1 \in Nat /\ n = (n - 1) + 1
    BY DEF One
  <2> DEFINE m == n - 1
  <2> HIDE DEF n, m
  <2>2. Passes(Append(GmmArguments(p), m), m + 1)
    BY <1>3, <2>1, OneMorePasses DEF m
  <2> QED
    BY <2>1, <2>2 DEF m
<1> HIDE DEF o, n, call, idx
<1>5. SideIsSound(ins, call, OneEach(n - 1))
  BY <1>2, <1>4, OneEachSide
<1> HIDE DEF ins
<1>6. SideIsSound(o.ins, o.call, o.lists)
  BY <1>1, <1>5
<1>7. SideIsSound(o.outs, o.gets, o.outLists) /\ AllGiven(o.gets)
  BY <1>1, ListedResult
<1>8. Complete(o.shapes)
  BY <1>1, FullShapes DEF Shaped
<1>9. Sound(o)
  BY <1>6, <1>7, <1>8, SoundBySides
<1> QED
  BY <1>9 DEF o

LEMMA WeightNZIsSound == Sound(MoeGroupedMatmulWeightNZOperation)
<1> DEFINE o == MoeGroupedMatmulWeightNZOperation
           call == <<0, 1, Null, 2>>
           ins == [i \in 1 .. 3 |-> IF i < 3 THEN InList(i - 1, 0) ELSE At(7)]
<1>1. /\ o.ins = <<InList(0, 0), InList(1, 0), At(7)>> /\ o.call = call /\ o.lists = OneEach(2)
      /\ o.outs = <<InList(0, 0)>> /\ o.gets = Upto(1) /\ o.outLists = OneEach(1) /\ o.shapes = <<Full(2)>>
  <2>1. Len(<<Full(2)>>) = 1
    OBVIOUS
  <2> QED
    BY <2>1 DEF MoeGroupedMatmulWeightNZOperation, Call
<1>2. ins = <<InList(0, 0), InList(1, 0), At(7)>>
  OBVIOUS
<1>3. Passes(call, 3)
  BY DEF Passes, PassesSome, Null
<1> HIDE DEF o, call
<1>4. 3 \in Nat \ {0} /\ 7 \in Int /\ 3 - 1 = 2
  OBVIOUS
<1>5. SideIsSound(ins, call, OneEach(3 - 1))
  BY <1>3, <1>4, OneEachSide
<1> HIDE DEF ins
<1>6. SideIsSound(o.ins, o.call, o.lists)
  BY <1>1, <1>2, <1>4, <1>5
<1>7. SideIsSound(o.outs, o.gets, o.outLists) /\ AllGiven(o.gets)
  BY <1>1, ListedResult
<1>8. Complete(o.shapes)
  BY <1>1, FullShapes DEF Shaped
<1>9. Sound(o)
  BY <1>6, <1>7, <1>8, SoundBySides
<1> QED
  BY <1>9 DEF o

\* The slots of the two swiglu calls, one for each scale.
LEMMA SwigluIsSound == Sound(GroupedMatmulSwigluOperation) /\ Sound(MoeGroupedMatmulSwigluQuantOperation)
<1> DEFINE call == <<0, 1, Null, Null, 2, 3, 4>>
           quant == <<0, 1, 2, 3, 4>>
           slots == <<0, 1, 4, 5, 6>>
           shapes == <<Full(2), Full(1)>>
<1>1. [i \in 1 .. 5 |-> At(slots[i])] = SwigluSlots
  BY DEF SwigluSlots
<1>2. slots \in [1 .. 5 -> Int] /\ \A i, j \in 1 .. 5 : slots[i] = slots[j] => i = j
  OBVIOUS
<1>3. Passes(call, 5) /\ Passes(quant, 5)
  BY DEF Passes, PassesSome, Null
<1>4. /\ HasInputs(GroupedMatmulSwigluOperation, SwigluSlots, call, <<>>)
      /\ HasOutputs(GroupedMatmulSwigluOperation, shapes)
      /\ HasInputs(MoeGroupedMatmulSwigluQuantOperation, SwigluSlots, quant, <<>>)
      /\ HasOutputs(MoeGroupedMatmulSwigluQuantOperation, shapes)
  BY DEF GroupedMatmulSwigluOperation, MoeGroupedMatmulSwigluQuantOperation, Call, HasInputs, HasOutputs
<1> HIDE DEF call, quant, slots
<1>5. SideIsSound(SwigluSlots, call, <<>>) /\ SideIsSound(SwigluSlots, quant, <<>>)
  <2>1. SideIsSound([i \in 1 .. 5 |-> At(slots[i])], call, <<>>)
    BY <1>2, <1>3, SideNumbered
  <2>2. SideIsSound([i \in 1 .. 5 |-> At(slots[i])], quant, <<>>)
    BY <1>2, <1>3, SideNumbered
  <2> QED
    BY <1>1, <2>1, <2>2
<1>6. Shaped(shapes)
  BY FullShapes
<1> HIDE DEF shapes
<1>7. Sound(GroupedMatmulSwigluOperation)
  BY <1>4, <1>5, <1>6, SoundByInputs
<1>8. Sound(MoeGroupedMatmulSwigluQuantOperation)
  BY <1>4, <1>5, <1>6, SoundByInputs
<1> QED
  BY <1>7, <1>8

LEMMA DequantSwigluIsSound ==
  ASSUME NEW n \in {1, 3, 5}
  PROVE  Sound(DequantSwigluQuantOperation(n))
<1> DEFINE weightScale == IF n > 3 THEN 1 ELSE Null
           bias == IF n > 3 THEN 2 ELSE Null
           slots == CASE n = 3 -> <<0, 4, 5>> [] n = 5 -> <<0, 1, 3, 4, 5>> [] OTHER -> <<0>>
           call == <<0, weightScale, Null, bias, IF n > 1 THEN n - 2 ELSE Null, IF n > 1 THEN n - 1 ELSE Null, Null>>
           ins == [i \in 1 .. n |-> At(slots[i])]
           shapes == <<Full(2), Full(1)>>
<1>1. /\ HasInputs(DequantSwigluQuantOperation(n), ins, call, <<>>)
      /\ HasOutputs(DequantSwigluQuantOperation(n), shapes)
  BY DEF DequantSwigluQuantOperation, Call, HasInputs, HasOutputs
<1>2. Passes(call, n)
  BY DEF Passes, PassesSome, Null
<1>3. slots \in [1 .. n -> Int] /\ \A i, j \in 1 .. n : slots[i] = slots[j] => i = j
  <2>1. CASE n = 1
    BY <2>1
  <2>2. CASE n = 3
    BY <2>2
  <2>3. CASE n = 5
    BY <2>3
  <2> QED
    BY <2>1, <2>2, <2>3
<1>4. Shaped(shapes)
  BY FullShapes
<1> HIDE DEF slots, call, shapes
<1>5. n \in Nat
  OBVIOUS
<1>6. SideIsSound(ins, call, <<>>)
  BY <1>2, <1>3, <1>5, SideNumbered
<1> HIDE DEF ins
<1> QED
  BY <1>1, <1>4, <1>6, SoundByInputs

\* Dispatch: the third input in another slot, the fourth in none.
LEMMA DispatchIsSound ==
  ASSUME NEW p, p.quantSmooth = FALSE
  PROVE  Sound(MoeDistributeDispatchOperation(p)) /\ Sound(MoeDistributeDispatchV2Operation(p))
<1> DEFINE slots == [[InOrder(4) EXCEPT ![3] = At(4)] EXCEPT ![4] = Kept(3)]
           call == <<0, 1, Null, Null, 2>>
<1>1. /\ HasInputs(MoeDistributeDispatchOperation(p), slots, call, <<>>)
      /\ HasOutputs(MoeDistributeDispatchOperation(p), DispatchShapes)
  BY DEF MoeDistributeDispatchOperation, Call, HasInputs, HasOutputs, One
<1>2. /\ InOrder(4) \in Seq(Slots) /\ DOMAIN InOrder(4) = 1 .. 4 /\ Len(InOrder(4)) = 4
      /\ \A j \in 1 .. 4 : InOrder(4)[j] = At(j - 1)
  BY TensorsInOrder
<1>3. slots \in Seq(Slots) /\ DOMAIN slots = 1 .. 4
  BY <1>2, AtParts
<1>4. slots[1] = At(0) /\ slots[2] = At(1) /\ slots[3] = At(4) /\ slots[4] = Kept(3)
  BY <1>2
<1>5. PassesSome(call, 1 .. 3)
  BY DEF PassesSome, Null
<1> HIDE DEF slots, call
<1>6. /\ slots[1].update /\ slots[2].update /\ slots[3].update /\ ~slots[4].update
      /\ slots[1].idx = 0 /\ slots[2].idx = 1 /\ slots[3].idx = 4
      /\ slots[1].list = NotInTensorList /\ slots[2].list = NotInTensorList /\ slots[3].list = NotInTensorList
  BY <1>4, AtParts
<1>7. Tensors(slots) = 1 .. 3
  BY <1>3, <1>6 DEF Tensors
<1>8. SideIsSound(slots, call, <<>>)
  <2>1. /\ \A i \in Tensors(slots) : slots[i].list = NotInTensorList
        /\ \A i, j \in Tensors(slots) : slots[i].idx = slots[j].idx => i = j
    BY <1>6, <1>7
  <2> QED
    BY <1>3, <1>5, <1>7, <2>1, PlainSide
<1>9. Shaped(DispatchShapes)
  <2>1. \A n : Full(n).dims = 0 .. Full(n).rank - 1
    BY DEF Full
  <2> QED
    BY <2>1 DEF Shaped, Complete, DispatchShapes
<1> QED
  BY <1>1, <1>8, <1>9, SoundByInputs DEF MoeDistributeDispatchV2Operation

LEMMA NoMorePasses ==
  ASSUME NEW n \in Nat, NEW args, Passes(args, n)
  PROVE  Passes(Append(args, Null), n)
<1>1. /\ args \in Seq(Int) /\ (\A k \in DOMAIN args : args[k] # Null => args[k] + 1 \in 1 .. n)
      /\ \A k, l \in DOMAIN args : args[k] = args[l] /\ args[k] # Null => k = l
  BY DEF Passes, PassesSome
<1> DEFINE call == Append(args, Null)
<1>2. /\ call \in Seq(Int) /\ Len(call) = Len(args) + 1 /\ Len(args) \in Nat
      /\ (\A k \in 1 .. Len(args) : call[k] = args[k]) /\ call[Len(args) + 1] = Null
  BY <1>1, AppendProperties DEF Null
<1>3. DOMAIN call = 1 .. Len(args) + 1 /\ DOMAIN args = 1 .. Len(args)
  BY <1>1, <1>2
<1> HIDE DEF call
<1>4. \A k \in DOMAIN call : k = Len(args) + 1 \/ k \in DOMAIN args
  BY <1>2, <1>3
<1>5. \A k \in DOMAIN call : call[k] # Null => k \in DOMAIN args /\ call[k] = args[k]
  BY <1>2, <1>3, <1>4
<1>6. Passes(call, n)
  BY <1>1, <1>2, <1>5 DEF Passes, PassesSome
<1> QED
  BY <1>6 DEF call

LEMMA PairsJoined ==
  ASSUME NEW a \in Int, NEW b \in Int, NEW c \in Int, NEW d \in Int
  PROVE  <<a, b>> \o <<c, d>> = <<a, b, c, d>>
<1>1. /\ <<a, b>> \in Seq(Int) /\ <<c, d>> \in Seq(Int) /\ <<a, b, c, d>> \in Seq(Int)
      /\ Len(<<a, b>>) = 2 /\ Len(<<c, d>>) = 2 /\ Len(<<a, b, c, d>>) = 4
  OBVIOUS
<1>2. /\ <<a, b>> \o <<c, d>> \in Seq(Int) /\ Len(<<a, b>> \o <<c, d>>) = 4
      /\ \A i \in 1 .. 4 : (<<a, b>> \o <<c, d>>)[i] = IF i <= 2 THEN <<a, b>>[i] ELSE <<c, d>>[i - 2]
  BY <1>1, ConcatProperties
<1>3. \A i \in 1 .. 4 : (<<a, b>> \o <<c, d>>)[i] = <<a, b, c, d>>[i]
  BY <1>2
<1> QED
  BY <1>1, <1>2, <1>3, SeqEqual

LEMMA CombineIsSound == Sound(MoeDistributeCombineOperation) /\ Sound(MoeDistributeCombineV2Operation)
<1> DEFINE call == <<0, 1, 2, 3, 4, 5, Null, Null, Null, Null, 6>>
           longer == Append(call, Null)
           slots == [InOrder(7) EXCEPT ![7] = At(10)]
<1>1. /\ HasInputs(MoeDistributeCombineOperation, slots, call, <<>>)
      /\ HasOutputs(MoeDistributeCombineOperation, <<Full(2)>>)
      /\ HasInputs(MoeDistributeCombineV2Operation, slots, longer, <<>>)
      /\ HasOutputs(MoeDistributeCombineV2Operation, <<Full(2)>>)
  BY DEF MoeDistributeCombineOperation, MoeDistributeCombineV2Operation, Call, HasInputs, HasOutputs
<1>2. Passes(call, 7)
  BY DEF Passes, PassesSome, Null
<1>3. Passes(longer, 7)
  <2> HIDE DEF call
  <2> QED
    BY <1>2, NoMorePasses
<1> HIDE DEF call, longer
<1>4. 7 \in 1 .. 7 /\ 10 \in Int /\ \A j \in 1 .. 7 : j # 7 => j - 1 # 10
  OBVIOUS
<1>5. SideIsSound(slots, call, <<>>) /\ SideIsSound(slots, longer, <<>>)
  BY <1>2, <1>3, <1>4, SideWithMoved
<1> HIDE DEF slots
<1> QED
  BY <1>1, <1>5, SoundByInputs, FullShapes

LEMMA MoeIsSound ==
  ASSUME NEW r \in Ranks
  PROVE  /\ Sound(MoeInitRoutingOperation) /\ Sound(MoeInitRoutingQuantOperation) /\ Sound(MoeTopkSoftmaxOperation)
         /\ Sound(MoeTokenUnpermuteOperation) /\ Sound(MoeComputeExpertTokensOperation)
         /\ Sound(FinalizeRoutingOperation)
         /\ Sound(MoeFusedReducesumDivOperation(r))
         /\ \A p \in [expertTokensNumType : {1, 2}] : Sound(MoeInitRoutingV3Operation(p))
         /\ \A p \in [enableExpertMapping : BOOLEAN] : Sound(MoeFusedAddTopkOperation(p))
<1>1. Sound(MoeInitRoutingOperation)
  BY FullShapes, ThePlainCalls, CallIsSound DEF MoeInitRoutingOperation
<1>2. Sound(MoeInitRoutingQuantOperation)
  BY FullShapes, ThePlainCalls, CallIsSound DEF MoeInitRoutingQuantOperation
<1>3. Sound(MoeTopkSoftmaxOperation)
  BY FullShapes, ThePlainCalls, CallIsSound DEF MoeTopkSoftmaxOperation
<1>4. Sound(MoeTokenUnpermuteOperation)
  BY FullShapes, ThePlainCalls, CallIsSound DEF MoeTokenUnpermuteOperation
<1>5. Sound(MoeComputeExpertTokensOperation)
  BY FullShapes, ThePlainCalls, CallIsSound DEF MoeComputeExpertTokensOperation
<1>6. Sound(FinalizeRoutingOperation)
  BY FullShapes, UptoIsCall, CallIsSound DEF FinalizeRoutingOperation
<1>7. Sound(MoeFusedReducesumDivOperation(r))
  BY FullShapes, ThePlainCalls, CallIsSound DEF MoeFusedReducesumDivOperation
<1>8. ASSUME NEW p \in [expertTokensNumType : {1, 2}] PROVE Sound(MoeInitRoutingV3Operation(p))
  <2> DEFINE shapes == <<Full(2), Full(1), IF p.expertTokensNumType = 2 THEN Full(2) ELSE Full(1), Full(1)>>
  <2>1. Shaped(shapes)
    BY FullShapes
  <2>2. MoeInitRoutingV3Operation(p) = [Call(2, <<0, 1, Null, Null>>, shapes) EXCEPT !.loose = {"activeExpertRange"}]
    BY DEF MoeInitRoutingV3Operation
  <2> HIDE DEF shapes
  <2>3. IsCall(2, <<0, 1, Null, Null>>, shapes)
    BY <2>1, ThePlainCalls
  <2> QED
    BY <2>2, <2>3, CallIsSound
<1>9. ASSUME NEW p \in [enableExpertMapping : BOOLEAN] PROVE Sound(MoeFusedAddTopkOperation(p))
  <2> DEFINE shapes == <<Full(2), Full(2)>>
             mapped == <<0, 1>> \o <<2, 3>>
             plain == <<0, 1>> \o <<Null, Null>>
  <2>1. Shaped(shapes)
    BY FullShapes
  <2>2. /\ p.enableExpertMapping => MoeFusedAddTopkOperation(p) = Call(4, mapped, shapes)
        /\ ~p.enableExpertMapping => MoeFusedAddTopkOperation(p) = Call(2, plain, shapes)
    BY DEF MoeFusedAddTopkOperation, One
  <2>3. mapped = <<0, 1, 2, 3>> /\ plain = <<0, 1, Null, Null>>
    BY PairsJoined DEF Null
  <2>4. Passes(<<0, 1, 2, 3>>, 4) /\ Passes(<<0, 1, Null, Null>>, 2)
    BY DEF Passes, PassesSome, Null
  <2> HIDE DEF shapes, mapped, plain
  <2>5. IsCall(4, mapped, shapes) /\ IsCall(2, plain, shapes)
    BY <2>1, <2>3, <2>4 DEF IsCall
  <2> QED
    BY <2>2, <2>5, CallIsSound
<1> QED
  BY <1>1, <1>2, <1>3, <1>4, <1>5, <1>6, <1>7, <1>8, <1>9

-----------------------------------------------------------------------------
(* The whole table.                                                        *)
\* The operations of the table, of any rank and with every parameter their callers give: W8A8 takes no
\* bias of its own when the dequantisation has one, block tables come with a mask, dimensions are the
\* tensor's, an index grouped matmul has token scales, and nobody asks dispatch for quantSmooth.
KnownLinear ==
  {AclnnMatmulOperation(r) : r \in Ranks} \cup {MatmulAllreduceOperation(r) : r \in Ranks}
    \cup {MatmulOperation(p, r) : p \in [hasBias : BOOLEAN], r \in Ranks}
    \cup {W16A16Operation(p, 2) : p \in [hasBias : BOOLEAN]}
    \cup {W8A8Operation(p, 2) : p \in {p \in [hasBias : BOOLEAN, hasPerTokenScale : BOOLEAN,
                                              isOutDequantBias : BOOLEAN] : ~(p.hasBias /\ p.isOutDequantBias)}}
    \cup {W8A16Operation(p, r) : p \in [hasBias : BOOLEAN], r \in Ranks}
    \cup {W4A16Operation(p, r) : p \in [hasBias : BOOLEAN], r \in Ranks}
    \cup {W4A8Operation, QuantGMMDequantOperation}

OfRank(r) ==
  {AclnnRopeOperation(r), RmsNormOperation(r), AddRmsNormOperation(r), AddRmsNormQuantOperation(r),
   AddRmsNormDynamicQuantOperation(r), GeluOperation(r), SigmoidOperation(r), SwiGluOperation(r),
   CastOperation(r), StdOperation(r), VectorNormOperation(r), MinimumOperation(r), RepeatOperation(r),
   DynamicQuantOperation(r), InplaceNanToNumOperation(r), InplaceMaskedFillTensorOperation(r),
   IndexputOperation(r), ObfuscationCalculateOperation(r)}
AlongDimension(r) ==
  {ConcatOperation(p, r) : p \in [dim : 0 .. r - 1]} \cup {IndexSelectOperation(p, r) : p \in [dim : 0 .. r - 1]}
    \cup {SplitWithSizeOperation(p, r) : p \in [dim : 0 .. r - 1, num : Nat]}
OfAnyRank == UNION {OfRank(r) \cup AlongDimension(r) : r \in Ranks}
KnownElementwise ==
  OfAnyRank
    \cup {LayerNormOperation(p, r) : p \in [hasBias : BOOLEAN], r \in Ranks}
    \cup {ArgMaxOperation(p, r) : p \in [keepdim : BOOLEAN], r \in Ranks}
    \cup {MaxV2Operation(p, r) : p \in [keepdim : BOOLEAN], r \in Ranks}
    \cup {ScatterOperation(p, r) : p \in [inplace : BOOLEAN], r \in Ranks}
    \cup {LenOperation, ArgSortOperation(1), ObfuscationSetupOperation}

KnownAttention ==
  {AttnOperation(p, r) : p \in [isFA : BOOLEAN, hasKVQuant : BOOLEAN, hasQuantOffset : BOOLEAN], r \in Ranks}
    \cup {FusedInferAttentionV2Operation(p, r) :
            p \in {p \in [needMask : BOOLEAN, enablePa : BOOLEAN, isTND : BOOLEAN] : p.enablePa => p.needMask},
            r \in Ranks}
    \cup {FlashAttentionScoreOperation(p, r) : p \in [needPse : BOOLEAN, needMask : BOOLEAN], r \in Ranks}
    \cup {PromptFlashAttentionOperation(p, r) : p \in [needMask : BOOLEAN], r \in Ranks}
    \cup {MultiLatentAttentionOperation(p) :
            p \in [hasMask : BOOLEAN, isSpec : BOOLEAN, isInt8Nz : BOOLEAN, isRing : BOOLEAN]}
    \cup {LightningIndexerOperation(p) : p \in [hasBlockTable : BOOLEAN, isBSND : BOOLEAN]}
    \cup {SparseFlashAttentionOperation(p) : p \in [hasBlockTable : BOOLEAN, isTND : BOOLEAN]}
    \cup {XAttentionOperation(r) : r \in Ranks}
    \cup {DequantRopeQuantKvcacheOperation(p) : p \in [enableDequant : BOOLEAN]}
    \cup {MlaPreprocessV2Operation, ReshapeDecodeKvCacheOperation}

KnownMoe ==
  {GroupedMatmulOperation(p) :
     p \in {p \in [hasBias : BOOLEAN, indexGmm : BOOLEAN, quantType : GmmTypes] :
              p.indexGmm => p.quantType = "W8A8_TOKEN" /\ ~p.hasBias}}
    \cup {MoeGroupedMatmulWeightNZOperation, GroupedMatmulSwigluOperation, MoeGroupedMatmulSwigluQuantOperation}
    \cup {DequantSwigluQuantOperation(n) : n \in {1, 3, 5}}
    \cup {MoeDistributeDispatchOperation([quantSmooth |-> FALSE]), MoeDistributeCombineOperation,
          MoeDistributeDispatchV2Operation([quantSmooth |-> FALSE]), MoeDistributeCombineV2Operation}
    \cup {MoeInitRoutingOperation, MoeInitRoutingQuantOperation, MoeTopkSoftmaxOperation,
          MoeTokenUnpermuteOperation, MoeComputeExpertTokensOperation, FinalizeRoutingOperation}
    \cup {MoeInitRoutingV3Operation(p) : p \in [expertTokensNumType : {1, 2}]}
    \cup {MoeFusedAddTopkOperation(p) : p \in [enableExpertMapping : BOOLEAN]}
    \cup {MoeFusedReducesumDivOperation(r) : r \in Ranks}

KnownOperations == KnownLinear \cup KnownElementwise \cup KnownAttention \cup KnownMoe

LEMMA KnownLinearIsSound == \A o \in KnownLinear : Sound(o)
<1> SUFFICES ASSUME NEW o \in KnownLinear PROVE Sound(o)
  OBVIOUS
<1>0. 2 \in Ranks /\ [hasBias |-> TRUE] \in [hasBias : BOOLEAN]
  BY DEF Ranks
<1>1. CASE o \in {AclnnMatmulOperation(r) : r \in Ranks} \cup {MatmulAllreduceOperation(r) : r \in Ranks}
  BY <1>0, <1>1, LinearIsSound
<1>2. CASE o \in {MatmulOperation(p, r) : p \in [hasBias : BOOLEAN], r \in Ranks}
  BY <1>2, LinearIsSound
<1>3. CASE o \in {W16A16Operation(p, 2) : p \in [hasBias : BOOLEAN]}
  BY <1>0, <1>3, LinearIsSound
<1>4. CASE o \in {W8A8Operation(p, 2) : p \in {p \in [hasBias : BOOLEAN, hasPerTokenScale : BOOLEAN,
                                                      isOutDequantBias : BOOLEAN] : ~(p.hasBias /\ p.isOutDequantBias)}}
  BY <1>4, W8A8IsSound
<1>5. CASE o \in {W8A16Operation(p, r) : p \in [hasBias : BOOLEAN], r \in Ranks}
  BY <1>5, LinearIsSound
<1>6. CASE o \in {W4A16Operation(p, r) : p \in [hasBias : BOOLEAN], r \in Ranks}
  BY <1>6, LinearIsSound
<1>7. CASE o \in {W4A8Operation, QuantGMMDequantOperation}
  BY <1>0, <1>7, LinearIsSound
<1> QED
  BY <1>1, <1>2, <1>3, <1>4, <1>5, <1>6, <1>7 DEF KnownLinear

LEMMA KnownElementwiseIsSound == \A o \in KnownElementwise : Sound(o)
<1> SUFFICES ASSUME NEW o \in KnownElementwise PROVE Sound(o)
  OBVIOUS
<1>0. 2 \in Ranks
  BY DEF Ranks
<1>1. CASE o \in OfAnyRank
  <2>1. PICK r \in Ranks : o \in OfRank(r) \/ o \in AlongDimension(r)
    BY <1>1 DEF OfAnyRank
  <2>2. CASE o \in OfRank(r)
    BY <2>2, ElementwiseIsSound, IndexputIsSound DEF OfRank
  <2>3. CASE o \in AlongDimension(r)
    BY <2>3, AlongDimensionIsSound DEF AlongDimension
  <2> QED
    BY <2>1, <2>2, <2>3
<1>2. CASE o \in {LayerNormOperation(p, r) : p \in [hasBias : BOOLEAN], r \in Ranks}
  BY <1>2, ChosenIsSound
<1>3. CASE o \in {ArgMaxOperation(p, r) : p \in [keepdim : BOOLEAN], r \in Ranks}
  BY <1>3, ChosenIsSound
<1>4. CASE o \in {MaxV2Operation(p, r) : p \in [keepdim : BOOLEAN], r \in Ranks}
  BY <1>4, ChosenIsSound
<1>5. CASE o \in {ScatterOperation(p, r) : p \in [inplace : BOOLEAN], r \in Ranks}
  BY <1>5, ChosenIsSound
<1>6. CASE o \in {LenOperation, ArgSortOperation(1), ObfuscationSetupOperation}
  BY <1>0, <1>6, ElementwiseIsSound
<1> QED
  BY <1>1, <1>2, <1>3, <1>4, <1>5, <1>6 DEF KnownElementwise

LEMMA KnownAttentionIsSound == \A o \in KnownAttention : Sound(o)
<1> SUFFICES ASSUME NEW o \in KnownAttention PROVE Sound(o)
  OBVIOUS
<1>0. 2 \in Ranks
  BY DEF Ranks
<1>1. CASE o \in {AttnOperation(p, r) : p \in [isFA : BOOLEAN, hasKVQuant : BOOLEAN, hasQuantOffset : BOOLEAN],
                                        r \in Ranks}
  BY <1>1, AttnIsSound
<1>2. CASE o \in {FusedInferAttentionV2Operation(p, r) :
            p \in {p \in [needMask : BOOLEAN, enablePa : BOOLEAN, isTND : BOOLEAN] : p.enablePa => p.needMask},
            r \in Ranks}
  BY <1>2, FusedInferIsSound
<1>3. CASE o \in {FlashAttentionScoreOperation(p, r) : p \in [needPse : BOOLEAN, needMask : BOOLEAN], r \in Ranks}
  BY <1>3, FlashAttentionScoreIsSound
<1>4. CASE o \in {PromptFlashAttentionOperation(p, r) : p \in [needMask : BOOLEAN], r \in Ranks}
  BY <1>4, PromptFlashAttentionIsSound
<1>5. CASE o \in {MultiLatentAttentionOperation(p) :
                    p \in [hasMask : BOOLEAN, isSpec : BOOLEAN, isInt8Nz : BOOLEAN, isRing : BOOLEAN]}
  BY <1>5, MultiLatentIsSound
<1>6. CASE o \in {LightningIndexerOperation(p) : p \in [hasBlockTable : BOOLEAN, isBSND : BOOLEAN]}
  BY <1>0, <1>6, SparseAttentionIsSound
<1>7. CASE o \in {SparseFlashAttentionOperation(p) : p \in [hasBlockTable : BOOLEAN, isTND : BOOLEAN]}
  BY <1>0, <1>7, SparseAttentionIsSound
<1>8. CASE o \in {XAttentionOperation(r) : r \in Ranks}
  BY <1>8, SparseAttentionIsSound
<1>9. CASE o \in {DequantRopeQuantKvcacheOperation(p) : p \in [enableDequant : BOOLEAN]}
  BY <1>9, DequantRopeIsSound
<1>10. CASE o \in {MlaPreprocessV2Operation, ReshapeDecodeKvCacheOperation}
  BY <1>0, <1>10, SparseAttentionIsSound
<1> QED
  BY <1>1, <1>2, <1>3, <1>4, <1>5, <1>6, <1>7, <1>8, <1>9, <1>10 DEF KnownAttention

LEMMA KnownMoeIsSound == \A o \in KnownMoe : Sound(o)
<1> SUFFICES ASSUME NEW o \in KnownMoe PROVE Sound(o)
  OBVIOUS
<1>0. 2 \in Ranks
  BY DEF Ranks
<1>1. CASE o \in {GroupedMatmulOperation(p) :
                    p \in {p \in [hasBias : BOOLEAN, indexGmm : BOOLEAN, quantType : GmmTypes] :
                             p.indexGmm => p.quantType = "W8A8_TOKEN" /\ ~p.hasBias}}
  BY <1>1, GroupedMatmulIsSound
<1>2. CASE o \in {MoeGroupedMatmulWeightNZOperation, GroupedMatmulSwigluOperation, MoeGroupedMatmulSwigluQuantOperation}
  BY <1>2, WeightNZIsSound, SwigluIsSound
<1>3. CASE o \in {DequantSwigluQuantOperation(n) : n \in {1, 3, 5}}
  BY <1>3, DequantSwigluIsSound
<1>4. CASE o \in {MoeDistributeDispatchOperation([quantSmooth |-> FALSE]), MoeDistributeCombineOperation,
                  MoeDistributeDispatchV2Operation([quantSmooth |-> FALSE]), MoeDistributeCombineV2Operation}
  <2>1. [quantSmooth |-> FALSE].quantSmooth = FALSE
    OBVIOUS
  <2>2. /\ Sound(MoeDistributeDispatchOperation([quantSmooth |-> FALSE]))
        /\ Sound(MoeDistributeDispatchV2Operation([quantSmooth |-> FALSE]))
    BY <2>1, DispatchIsSound
  <2> QED
    BY <1>4, <2>2, CombineIsSound
<1>5. CASE o \in {MoeInitRoutingOperation, MoeInitRoutingQuantOperation, MoeTopkSoftmaxOperation,
                  MoeTokenUnpermuteOperation, MoeComputeExpertTokensOperation, FinalizeRoutingOperation}
  BY <1>0, <1>5, MoeIsSound
<1>6. CASE o \in {MoeInitRoutingV3Operation(p) : p \in [expertTokensNumType : {1, 2}]}
  BY <1>0, <1>6, MoeIsSound
<1>7. CASE o \in {MoeFusedAddTopkOperation(p) : p \in [enableExpertMapping : BOOLEAN]}
  BY <1>0, <1>7, MoeIsSound
<1>8. CASE o \in {MoeFusedReducesumDivOperation(r) : r \in Ranks}
  BY <1>8, MoeIsSound
<1> QED
  BY <1>1, <1>2, <1>3, <1>4, <1>5, <1>6, <1>7, <1>8 DEF KnownMoe

\* Every operation of src/operations/aclnn/ops, whatever its parameters and however many dimensions its
\* tensors have: each tensor of its call has a slot of its own (CreateAclNNVariantPack), a list holds the
\* tensors whose slots name it, and InferShape gives every output all its dimensions.
THEOREM OperationsAreSound == \A o \in KnownOperations : WellNumbered(o) /\ Complete(o.shapes)
<1>1. \A o \in KnownOperations : Sound(o)
  BY KnownLinearIsSound, KnownElementwiseIsSound, KnownAttentionIsSound, KnownMoeIsSound DEF KnownOperations
<1> QED
  BY <1>1 DEF Sound

LEMMA KnownTable == ASSUME Operations \subseteq KnownOperations PROVE TableIsSound
BY OperationsAreSound DEF TableIsSound

\* The operation that is run is one of them.
THEOREM OperationStaysSound == ASSUME Operations \subseteq KnownOperations PROVE Spec => []OperationIsSound
<1>1. IInv => OperationIsSound
  <2>1. IInv => op \in KnownOperations
    BY DEF IInv
  <2> QED
    BY <2>1, OperationsAreSound DEF OperationIsSound, ShapesAreComplete, Complete
<1> QED
  BY <1>1, KnownTable, Invariance, PTL

\* Nothing is asked of the table any more: whichever of these operations is set up and executed, any
\* number of times, every call has the addresses and the host data of its own pack, and every acl object
\* is released once.
THEOREM KnownOperationsRunWell ==
  ASSUME Operations \subseteq KnownOperations
  PROVE  Spec => [](ArgumentsAreCurrent /\ HostDataIsCurrent /\ ReleasedOnce)
<1>1. IInv => ArgumentsAreCurrent /\ HostDataIsCurrent /\ ReleasedOnce
  BY DEF IInv
<1> QED
  BY <1>1, KnownTable, Invariance, PTL
=============================================================================
