------------------------------ MODULE AclNNOps ------------------------------
(***************************************************************************)
(* One AclNN operation between its Setups and its Executes: what its cache  *)
(* object makes for the aclnn call, when it makes it again, and which       *)
(* addresses and host data the call runs with.  AclNNOpTable says how each  *)
(* operation differs.  The operation is the only holder of its executor     *)
(* here; AclNNExecutorCache has the sharing.                                *)
(***************************************************************************)
EXTENDS AclNNOpTable

CONSTANTS
  Operations,   \* records of AclNNOpTable
  Shapes,       \* the descriptions of a variant pack
  HostData,     \* what the host inputs hold
  MaxUses       \* Setups modelled

ASSUME MaxUsesAssumption == MaxUses \in Nat

VARIABLES
  op,        \* the operation
  cache,     \* its AclNNOpCache
  pack,      \* the variant pack of the last Setup
  uses,      \* Setups so far; also the addresses of the device tensors
  objects,   \* acl objects alive, each <<the Setup that made it, kind, name>>
  twice,     \* acl objects released more than once
  launched,  \* what the last call ran with
  failed     \* the Setups that failed after they made their tensors

vars == <<op, cache, pack, uses, objects, twice, launched, failed>>

None == [none |-> TRUE]
EmptyCache == [executor |-> FALSE, repeatable |-> FALSE, made |-> 0, pack |-> None,
               arguments |-> <<>>, results |-> <<>>]

\* The device address of a tensor in the n-th variant pack.
Address(tensors, n) == [k \in DOMAIN tensors |-> <<tensors[k], n>>]

Init ==
  /\ op \in Operations
  /\ cache = EmptyCache
  /\ pack = None
  /\ uses = 0
  /\ objects = {}
  /\ twice = {}
  /\ launched = None
  /\ failed = {}
-----------------------------------------------------------------------------
Tensors(slots) == {i \in DOMAIN slots : slots[i].update}
Listed(lists) == UNION {lists[l] : l \in DOMAIN lists}

\* CreateAclNNVariantPack: the tensors, then the lists that take them up,
\* and what SetAclNNWorkspaceExecutor makes for the call.
Made(n) ==
  {<<n, "in", i - 1>> : i \in Tensors(op.ins)} \cup {<<n, "out", i - 1>> : i \in Tensors(op.outs)}
    \cup {<<n, "inList", l>> : l \in {l \in DOMAIN op.lists : op.lists[l] # {}}}
    \cup {<<n, "outList", l>> : l \in DOMAIN op.outLists}
    \cup {<<n, "array", i>> : i \in op.host \ op.unrecorded}
    \cup {<<n, "aux", a>> : a \in op.aux} \cup {<<n, "loose", x>> : x \in op.loose}

\* Mutant: every tensor is released on its own, the listed ones too.
OnTheirOwnListed(n, side, slots) == {<<n, side, i - 1>> : i \in Tensors(slots)}
OnTheirOwn(n, side, slots) ==
  {<<n, side, i - 1>> : i \in {i \in Tensors(slots) : slots[i].list = NotInTensorList}}
WithTheirList(n, side, lists) == {<<n, side, i>> : i \in Listed(lists)}

\* AclNNOpCache::Destroy, for the last holder: the objects left, and those
\* released twice.  A list releases its tensors with it.  Without an executor
\* it returns at once.
Destroy ==
  LET n == cache.made
      alone == OnTheirOwn(n, "in", op.ins) \cup OnTheirOwn(n, "out", op.outs)
      listed == WithTheirList(n, "in", op.lists) \cup WithTheirList(n, "out", op.outLists)
      others == {o \in Made(n) : o[2] \in {"inList", "outList", "array", "aux"}}
      released == alone \cup listed \cup others
  IN  IF ~cache.executor THEN [objects |-> objects, twice |-> twice]
      ELSE [objects |-> objects \ released,
            twice |-> twice \cup (alone \cap listed) \cup (released \ objects)]

\* Mutant: the host data is not compared.
IsHostDataEqualNever(p) == TRUE
IsHostDataEqual(p) ==
  \A i \in op.host : i \notin op.unrecorded /\ cache.pack.host[i] = p.host[i]

\* An input without a description never equals one that has it.
HasDescriptions == \A i \in DOMAIN op.ins : op.ins[i].idx # -1
IsVariankPackEqual(p) == cache.pack.shape = p.shape /\ HasDescriptions /\ IsHostDataEqual(p)
Hit(p) == cache.repeatable /\ IsVariankPackEqual(p)

\* The address an argument gets from UpdateAclNNVariantPack: it sets the
\* parameter of the tensor's slot, once for each tensor, in their order.
Refreshed(old, slots, tensors, n) ==
  LET SameSlot(i) == {j \in Tensors(slots) : slots[j].list = slots[i].list /\ slots[j].idx = slots[i].idx}
      IsFirst(k) == \A l \in 1 .. k - 1 : tensors[l] # tensors[k]
      LastOf(i) == CHOOSE j \in SameSlot(i) : \A l \in SameSlot(i) : l <= j
      Reaches(k) == tensors[k] # Null /\ tensors[k] + 1 \in Tensors(slots) /\ IsFirst(k)
  IN  [k \in DOMAIN tensors |-> IF Reaches(k) THEN <<LastOf(tensors[k] + 1) - 1, n>> ELSE old[k]]
-----------------------------------------------------------------------------
\* The variant packs a Setup may be given.
GivenPacks == [shape : Shapes, host : [op.host -> HostData]]

SetupHit ==
  /\ uses < MaxUses
  /\ \E p \in GivenPacks : Hit(p) /\ pack' = p
  /\ uses' = uses + 1
  /\ UNCHANGED <<op, cache, objects, twice, launched, failed>>

\* A miss: the old cache object is destroyed, then CreateAclNNOpCache makes
\* the tensors and the executor, whether or not CANN makes it repeatable.
SetupCreates ==
  /\ uses < MaxUses
  /\ uses' = uses + 1
  /\ \E p \in GivenPacks, repeatable \in BOOLEAN :
       /\ ~Hit(p)
       /\ pack' = p
       /\ cache' = [executor |-> TRUE, repeatable |-> repeatable, made |-> uses', pack |-> p,
                    arguments |-> Address(op.call, uses'), results |-> Address(op.gets, uses')]
  /\ objects' = Destroy.objects \cup Made(uses')
  /\ twice' = Destroy.twice
  /\ UNCHANGED <<op, launched, failed>>

\* A miss, but the aclnn call fails: what was made for it stays, the cache
\* object has no executor for Destroy to start from.
SetupFails ==
  /\ uses < MaxUses
  /\ uses' = uses + 1
  /\ \E p \in GivenPacks : ~Hit(p)
  /\ pack' = None
  /\ cache' = EmptyCache
  /\ objects' = Destroy.objects \cup Made(uses')
  /\ twice' = Destroy.twice
  /\ failed' = failed \cup {uses'}
  /\ UNCHANGED <<op, launched>>

\* Execute follows a Setup that succeeded; the tensors are where they are in
\* that variant pack.
Execute ==
  /\ pack # None
  /\ LET arguments == Refreshed(cache.arguments, op.ins, op.call, uses)
         results == Refreshed(cache.results, op.outs, op.gets, uses)
     IN  /\ cache' = [cache EXCEPT !.arguments = arguments, !.results = results]
         /\ launched' = [arguments |-> arguments, results |-> results, host |-> cache.pack.host,
                         use |-> uses, given |-> pack]
  /\ pack' = None
  /\ UNCHANGED <<op, uses, objects, twice, failed>>

\* ~AclNNOperation
Destruct ==
  /\ pack = None
  /\ cache # EmptyCache
  /\ cache' = EmptyCache
  /\ objects' = Destroy.objects
  /\ twice' = Destroy.twice
  /\ UNCHANGED <<op, pack, uses, launched, failed>>

Next == SetupHit \/ SetupCreates \/ SetupFails \/ Execute \/ Destruct
Spec == Init /\ [][Next]_vars
-----------------------------------------------------------------------------
\* How the tensors of one side are numbered: no two have one slot, every tensor
\* of the call has one and is passed once, and a list holds just the tensors
\* whose slots name it.
SideIsSound(slots, tensors, lists) ==
  /\ slots \in Seq([list : Int, idx : Int, update : BOOLEAN])
  /\ tensors \in Seq(Int)
  /\ lists \in Seq(SUBSET Int)
  /\ \A i, j \in Tensors(slots) : slots[i].list = slots[j].list /\ slots[i].idx = slots[j].idx => i = j
  /\ \A k \in DOMAIN tensors : tensors[k] # Null => tensors[k] + 1 \in Tensors(slots)
  /\ \A k, l \in DOMAIN tensors : tensors[k] = tensors[l] /\ tensors[k] # Null => k = l
  /\ \A i \in Tensors(slots) : slots[i].list # NotInTensorList => slots[i].list + 1 \in DOMAIN lists
  /\ \A l \in DOMAIN lists : lists[l] = {i - 1 : i \in {i \in Tensors(slots) : slots[i].list = l - 1}}

WellNumbered(o) ==
  /\ SideIsSound(o.ins, o.call, o.lists) /\ SideIsSound(o.outs, o.gets, o.outLists)
  /\ \A k \in DOMAIN o.gets : o.gets[k] # Null

\* Every call runs with the tensors of its own variant pack: each argument and
\* each result has the address that this pack has for it, whenever and for
\* whichever pack the executor was made (UpdateAclNNVariantPack, through
\* tensorListidx and tensorIdx).
ArgumentsAreCurrent ==
  launched # None =>
    /\ \A k \in DOMAIN op.call : op.call[k] # Null => launched.arguments[k] = <<op.call[k], launched.use>>
    /\ \A k \in DOMAIN op.gets : launched.results[k] = <<op.gets[k], launched.use>>

\* An executor is used again only for the host data (sequence lengths) that it
\* was made with: Execute cannot change them.
HostDataIsCurrent == launched # None => launched.host = launched.given.host

\* Destroy releases every acl object that CreateAclNNVariantPack made exactly
\* once, those in tensor lists through their list: nothing is left of a cache
\* object that had an executor, but the lists, arrays and scalars that
\* SetAclNNWorkspaceExecutor does not hand to the cache.
ReleasedOnce ==
  /\ twice = {}
  /\ (cache.executor => Made(cache.made) \subseteq objects)
  /\ \A o \in objects : o[2] = "loose" \/ o[1] = cache.made \/ o[1] \in failed

\* InferShape gives an output all the dimensions of its rank, and no other:
\* the variant pack, and with it the comparison of Setup, never depends on
\* a dimension that nobody wrote.
ShapesAreComplete ==
  \A k \in DOMAIN op.shapes : op.shapes[k].dims = 0 .. op.shapes[k].rank - 1

\* What each operation's source says of it fits together: the slots that it
\* numbers by hand in CreateAclNNVariantPack, the arguments of its call and its
\* tensor lists; and the dimensions of its outputs.
OperationIsSound == WellNumbered(op) /\ ShapesAreComplete
=============================================================================
