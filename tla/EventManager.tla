---------------------------- MODULE EventManager ----------------------------
(***************************************************************************)
(* core/base/event_manager.cpp: the process-wide factory of the RECORD and *)
(* WAIT operations that order work on several streams.  The two operations *)
(* of a pair are created by calls that do not know each other: one says    *)
(* PUSH, the other POP, and both name a pipe key.  The manager must give   *)
(* both the same aclrtEvent although either call may come first: a POP     *)
(* that finds no event leaves an operation without one, which a later PUSH *)
(* completes through atb::UpdateOperationParam.                            *)
(*                                                                         *)
(* An event is named by its key and its rank among the events of that key. *)
(* One thread builds at a time.  `opParam' in EventInternal refers to a    *)
(* pair that has left its queue; a pair is trivially destroyed and nothing *)
(* allocates before the last use, so what it reads is the pair.            *)
(***************************************************************************)
EXTENDS Naturals, Sequences, FiniteSets

CONSTANTS Keys,     \* the pipe keys in use
          MaxOps    \* bound: operations created

ASSUME KeysAssumption == MaxOps \in Nat

VARIABLES ops,               \* the operations in the order of their creation
          eventQueues,       \* per key, the events no POP has taken yet
          opsWithoutEvent,   \* per key, the indices of operations that lack an event
          pushed, popped     \* history: PUSH and POP calls per key

managerVars == <<ops, eventQueues, opsWithoutEvent, pushed, popped>>

Types   == {"RECORD", "WAIT"}
Unbound == <<>>
Events  == Keys \X Nat

\* What one call leaves behind: its arguments, its rank among the calls with its
\* key and action, and the event of its operation.
Operation(action, type, key, rank, event) ==
    [action |-> action, type |-> type, key |-> key, rank |-> rank, event |-> event]
Operations == [action : {"PUSH", "POP"}, type : Types, key : Keys,
               rank : Nat, event : Events \cup {Unbound}]

ManagerInit ==
    /\ ops = <<>>
    /\ eventQueues = [k \in Keys |-> <<>>]
    /\ opsWithoutEvent = [k \in Keys |-> <<>>]
    /\ pushed = [k \in Keys |-> 0]
    /\ popped = [k \in Keys |-> 0]

\* The queue after CreateAndPushEvent(key).
Fresh(key) == <<key, pushed[key] + 1>>
PushedAsFirst(key) == <<Fresh(key)>> \o eventQueues[key]
Pushed(key) == Append(eventQueues[key], Fresh(key))

\* Whether a PUSH finds an operation to complete, and the operations that still wait
\* once it has completed the oldest.
NoneLacksEvent(key) == FALSE
SomeLackEvent(key) == opsWithoutEvent[key] # <<>>
OthersWaiting(key) == Tail(opsWithoutEvent[key])

\* PUSH: a new event joins the queue; if an operation waits for an event, the
\* oldest one gets the oldest event of the queue.
PushEvent(type, key) ==
    /\ Len(ops) < MaxOps
    /\ pushed' = [pushed EXCEPT ![key] = @ + 1]
    /\ LET op == Operation("PUSH", type, key, pushed[key] + 1, Fresh(key))
       IN  \/ /\ ~SomeLackEvent(key)
              /\ eventQueues' = [eventQueues EXCEPT ![key] = Pushed(key)]
              /\ ops' = Append(ops, op)
              /\ UNCHANGED opsWithoutEvent
           \/ /\ SomeLackEvent(key)
              /\ eventQueues' = [eventQueues EXCEPT ![key] = Tail(Pushed(key))]
              /\ opsWithoutEvent' = [opsWithoutEvent EXCEPT ![key] = OthersWaiting(key)]
              /\ ops' = Append([ops EXCEPT ![Head(opsWithoutEvent[key])].event =
                                    Head(Pushed(key))], op)
    /\ UNCHANGED popped

\* POP with an event at hand.
PopEvent(type, key) ==
    /\ Len(ops) < MaxOps
    /\ eventQueues[key] # <<>>
    /\ ops' = Append(ops, Operation("POP", type, key, popped[key] + 1,
                                    Head(eventQueues[key])))
    /\ eventQueues' = [eventQueues EXCEPT ![key] = Tail(@)]
    /\ popped' = [popped EXCEPT ![key] = @ + 1]
    /\ UNCHANGED <<opsWithoutEvent, pushed>>

\* POP that times out: the operation is created without an event and remembered.
DeferEvent(type, key) ==
    /\ Len(ops) < MaxOps
    /\ eventQueues[key] = <<>>
    /\ ops' = Append(ops, Operation("POP", type, key, popped[key] + 1, Unbound))
    /\ opsWithoutEvent' = [opsWithoutEvent EXCEPT ![key] = Append(@, Len(ops) + 1)]
    /\ popped' = [popped EXCEPT ![key] = @ + 1]
    /\ UNCHANGED <<eventQueues, pushed>>

EventInternal(type, key) ==
    PushEvent(type, key) \/ PopEvent(type, key) \/ DeferEvent(type, key)

ManagerNext == \E type \in Types, key \in Keys : EventInternal(type, key)

ManagerSpec == ManagerInit /\ [][ManagerNext]_managerVars
-----------------------------------------------------------------------------
ManagerTypeOK ==
    /\ ops \in Seq(Operations)
    /\ eventQueues \in [Keys -> Seq(Events)]
    /\ opsWithoutEvent \in [Keys -> Seq(Nat)]
    /\ pushed \in [Keys -> Nat]
    /\ popped \in [Keys -> Nat]

\* The n-th PUSH and the n-th POP of a key hold the same event and no other two
\* operations share one, whichever of the two was called first.  The graph builders
\* rely on it: a RECORD and its WAIT are created in different functions, often in
\* different layers, and only the order of the calls ties them together.
PairedInOrder ==
    \A i, j \in DOMAIN ops :
        /\ i # j
        /\ ops[i].event # Unbound
        /\ ops[i].event = ops[j].event
        => /\ ops[i].action # ops[j].action
           /\ ops[i].key = ops[j].key
           /\ ops[i].rank = ops[j].rank

\* No operation is left without an event once as many PUSH calls as POP calls have
\* been made: the rank-th PUSH has completed the rank-th POP.
BoundWhenPushed ==
    \A i \in DOMAIN ops :
        ops[i].rank <= pushed[ops[i].key] => ops[i].event # Unbound
=============================================================================
