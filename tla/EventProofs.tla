---------------------------- MODULE EventProofs ----------------------------
(***************************************************************************)
(* Three parts.  First the pairing promise of EventManager, for any number   *)
(* of keys and calls.  The invariants of the run are not inductive: they   *)
(* speak of operations, and what a call does to an operation depends on    *)
(* the two queues.  ManagerInv adds what the queues hold: the events       *)
(* popped + 1 .. pushed of a key when PUSH is ahead, the operations        *)
(* pushed + 1 .. popped when POP is ahead.                                 *)
(*                                                                         *)
(* Then EventGraph, for every graph whose events tie it together           *)
(* (WellTied) and any number of executions of it.  A stream is in some lap *)
(* of its nodes, Off(s) of which it has run in this lap; an event is       *)
(* raised while its RECORD is one lap ahead of its WAIT.                   *)
(*                                                                         *)
(* Last, every graph that the builders make ties its events together: those *)
(* of the base models with enableDap, whatever the number of layers and    *)
(* communications, and those of the two-stream prefill layers, whatever    *)
(* layers follow each other.  Each node has a label, 8 n + r for the node r *)
(* of round or half-batch n, and the builder is followed call by call to   *)
(* show that each stream holds the labels it must in increasing order.     *)
(***************************************************************************)
EXTENDS EventManager, EventGraph, WellFoundedInduction, TLAPS

CONSTANTS MaxLayers, MaxComms    \* the bounds of DecoderModelDap, any numbers
CONSTANTS MicroLayers            \* the sequences of layers that MicroBatchLayer builds

\* The graphs of the base models with enableDap.
Dap == INSTANCE DecoderModelDap WITH Keys <- {"compute", "comm", "end"}, FlashComm <- {FALSE}

\* The graphs of the layers that split the batch in two halves.
Micro == INSTANCE MicroBatchLayer
    WITH Keys <- {"cc_start", "comm_control", "compute_control"}, Layers <- MicroLayers

\* The events that no POP has taken, in the order of their ranks.
QueueInv ==
    \A k \in Keys : opsWithoutEvent[k] = <<>> =>
        /\ pushed[k] = popped[k] + Len(eventQueues[k])
        /\ \A n \in 1 .. Len(eventQueues[k]) : eventQueues[k][n] = <<k, popped[k] + n>>

\* The operations that no PUSH has completed, in the order of their ranks.
WaitingInv ==
    \A k \in Keys : opsWithoutEvent[k] # <<>> =>
        /\ eventQueues[k] = <<>>
        /\ popped[k] = pushed[k] + Len(opsWithoutEvent[k])
        /\ \A n \in 1 .. Len(opsWithoutEvent[k]) :
              /\ opsWithoutEvent[k][n] \in 1 .. Len(ops)
              /\ ops[opsWithoutEvent[k][n]].action = "POP"
              /\ ops[opsWithoutEvent[k][n]].key = k
              /\ ops[opsWithoutEvent[k][n]].rank = pushed[k] + n

\* What an operation knows: its rank among the calls made so far, and its event, which
\* is the one of its rank, or none if it is a POP that no PUSH has reached.
OpsInv ==
    \A i \in 1 .. Len(ops) :
        /\ ops[i].rank <= pushed[ops[i].key] => ops[i].event = <<ops[i].key, ops[i].rank>>
        /\ pushed[ops[i].key] < ops[i].rank => ops[i].event = Unbound
        /\ ops[i].action = "PUSH" => ops[i].rank <= pushed[ops[i].key]
        /\ ops[i].action = "POP" => ops[i].rank <= popped[ops[i].key]

\* No two calls with the same key and action have the same rank.
RanksInv ==
    \A i, j \in 1 .. Len(ops) :
        (/\ ops[i].action = ops[j].action
         /\ ops[i].key = ops[j].key
         /\ ops[i].rank = ops[j].rank) => i = j

ManagerInv == ManagerTypeOK /\ QueueInv /\ WaitingInv /\ OpsInv /\ RanksInv
-----------------------------------------------------------------------------
\* The initial state satisfies the inductive invariant.
LEMMA InitInv == ManagerInit => ManagerInv
  BY DEF ManagerInit, ManagerInv, ManagerTypeOK, QueueInv, WaitingInv, OpsInv, RanksInv, Operations, Events

\* Append leaves the old elements in place and adds the new one at the end.
LEMMA AppendElements ==
  ASSUME NEW S, NEW s \in Seq(S), NEW e \in S
  PROVE  /\ Append(s, e) \in Seq(S)
         /\ Len(Append(s, e)) = Len(s) + 1
         /\ \A i \in 1 .. Len(s) : Append(s, e)[i] = s[i]
         /\ Append(s, e)[Len(s) + 1] = e
  OBVIOUS

\* Tail drops the first element and moves the others down by one.
LEMMA TailElements ==
  ASSUME NEW S, NEW s \in Seq(S), s # <<>>
  PROVE  /\ Tail(s) \in Seq(S)
         /\ Len(s) \in Nat \ {0}
         /\ Len(Tail(s)) = Len(s) - 1
         /\ \A n \in 1 .. Len(s) - 1 : Tail(s)[n] = s[n + 1]
         /\ Head(s) = s[1]
  OBVIOUS

\* Taking one from l adds one to a.
LEMMA OneLess ==
  ASSUME NEW a \in Nat, NEW l \in Nat, NEW r \in Nat, NEW p, p = a + l, r = l - 1
  PROVE  p = (a + 1) + r
  OBVIOUS

\* One may be added to either of two numbers.
LEMMA OneCallMore ==
  ASSUME NEW a \in Nat, NEW n \in Nat
  PROVE  a + (n + 1) = (a + 1) + n
  OBVIOUS

\* The elements of a sequence of operations are operations.
LEMMA OpTyped ==
  ASSUME ManagerTypeOK, NEW i \in 1 .. Len(ops)
  PROVE  /\ ops[i] \in Operations
         /\ ops[i].action \in {"PUSH", "POP"} /\ ops[i].key \in Keys
         /\ ops[i].rank \in Nat
<1>1. ops[i] \in Operations
  BY DEF ManagerTypeOK
<1> QED
  BY <1>1 DEF Operations

\* Ranks stay distinct when a call adds an operation whose rank is above all ranks of
\* its key and action, whatever happens to the events of the others.
LEMMA RanksKept ==
  ASSUME ManagerTypeOK, RanksInv, NEW op \in Operations,
         Len(ops') = Len(ops) + 1, ops'[Len(ops) + 1] = op,
         \A i \in 1 .. Len(ops) : /\ ops'[i].action = ops[i].action
                                  /\ ops'[i].key = ops[i].key
                                  /\ ops'[i].rank = ops[i].rank,
         \A i \in 1 .. Len(ops) :
             (ops[i].action = op.action /\ ops[i].key = op.key) => ops[i].rank < op.rank
  PROVE  RanksInv'
<1> SUFFICES ASSUME NEW i \in 1 .. Len(ops'), NEW j \in 1 .. Len(ops'),
                    ops'[i].action = ops'[j].action,
                    ops'[i].key = ops'[j].key,
                    ops'[i].rank = ops'[j].rank
             PROVE  i = j
  BY DEF RanksInv
<1>0. Len(ops) \in Nat
  BY DEF ManagerTypeOK
<1>1. CASE i \in 1 .. Len(ops) /\ j \in 1 .. Len(ops)
  BY <1>1 DEF RanksInv
<1>2. CASE i \in 1 .. Len(ops) /\ j = Len(ops) + 1
  BY <1>2, <1>0, OpTyped
<1>3. CASE i = Len(ops) + 1 /\ j \in 1 .. Len(ops)
  BY <1>3, <1>0, OpTyped
<1>4. CASE i = Len(ops) + 1 /\ j = Len(ops) + 1
  BY <1>4
<1> QED
  BY <1>0, <1>1, <1>2, <1>3, <1>4

\* PUSH with nothing to complete keeps it.
LEMMA PushPlain ==
  ASSUME ManagerInv, NEW type \in Types, NEW key \in Keys, PushEvent(type, key),
         ~SomeLackEvent(key)
  PROVE  ManagerInv'
<1> DEFINE op == Operation("PUSH", type, key, pushed[key] + 1, Fresh(key))
<1>1. /\ ops' = Append(ops, op)
      /\ eventQueues' = [eventQueues EXCEPT ![key] = Append(@, Fresh(key))]
      /\ pushed' = [pushed EXCEPT ![key] = @ + 1]
      /\ UNCHANGED <<opsWithoutEvent, popped>>
  BY DEF PushEvent, Pushed, ManagerInv, ManagerTypeOK
<1>2. op \in Operations /\ Fresh(key) \in Events
  BY DEF ManagerInv, ManagerTypeOK, Operation, Operations, Events, Fresh
<1>3. ManagerTypeOK'
  BY <1>1, <1>2 DEF ManagerInv, ManagerTypeOK
<1>4. QueueInv'
  <2> SUFFICES ASSUME NEW k \in Keys, opsWithoutEvent'[k] = <<>>
               PROVE  /\ pushed'[k] = popped'[k] + Len(eventQueues'[k])
                      /\ \A n \in 1 .. Len(eventQueues'[k]) :
                            eventQueues'[k][n] = <<k, popped'[k] + n>>
    BY DEF QueueInv
  <2>1. CASE k = key
    <3>1. /\ eventQueues[k] \in Seq(Events)
          /\ pushed[k] = popped[k] + Len(eventQueues[k])
          /\ \A n \in 1 .. Len(eventQueues[k]) : eventQueues[k][n] = <<k, popped[k] + n>>
      BY <1>1 DEF ManagerInv, ManagerTypeOK, QueueInv
    <3>2. eventQueues'[k] = Append(eventQueues[k], <<k, pushed[k] + 1>>)
      BY <1>1, <2>1 DEF ManagerInv, ManagerTypeOK, Fresh
    <3>3. /\ Len(eventQueues'[k]) = Len(eventQueues[k]) + 1
          /\ \A n \in 1 .. Len(eventQueues[k]) : eventQueues'[k][n] = eventQueues[k][n]
          /\ eventQueues'[k][Len(eventQueues[k]) + 1] = <<k, pushed[k] + 1>>
      BY <1>2, <2>1, <3>1, <3>2, AppendElements DEF Fresh
    <3>4. pushed'[k] = pushed[k] + 1 /\ popped'[k] = popped[k]
          /\ popped[k] \in Nat /\ Len(eventQueues[k]) \in Nat
      BY <1>1, <2>1, <3>1 DEF ManagerInv, ManagerTypeOK
    <3>5. ASSUME NEW n \in 1 .. Len(eventQueues'[k])
          PROVE  eventQueues'[k][n] = <<k, popped'[k] + n>>
      <4>1. CASE n \in 1 .. Len(eventQueues[k])
        BY <4>1, <3>1, <3>3, <3>4
      <4>2. CASE n = Len(eventQueues[k]) + 1
        BY <4>2, <3>1, <3>3, <3>4
      <4> QED
        BY <4>1, <4>2, <3>3, <3>4
    <3>6. pushed'[k] = popped'[k] + Len(eventQueues'[k])
      BY <3>1, <3>3, <3>4
    <3> QED
      BY <3>5, <3>6
  <2>2. CASE k # key
    BY <1>1, <2>2 DEF ManagerInv, ManagerTypeOK, QueueInv
  <2> QED
    BY <2>1, <2>2
<1>6. /\ Len(ops') = Len(ops) + 1
      /\ \A i \in 1 .. Len(ops) : ops'[i] = ops[i]
      /\ ops'[Len(ops) + 1] = op
      /\ Len(ops) \in Nat
  BY <1>1, <1>2, AppendElements DEF ManagerInv, ManagerTypeOK
<1>5. WaitingInv'
  <2> SUFFICES ASSUME NEW k \in Keys, opsWithoutEvent[k] # <<>>
               PROVE  /\ eventQueues'[k] = <<>>
                      /\ popped[k] = pushed'[k] + Len(opsWithoutEvent[k])
                      /\ \A n \in 1 .. Len(opsWithoutEvent[k]) :
                            /\ opsWithoutEvent[k][n] \in 1 .. Len(ops')
                            /\ ops'[opsWithoutEvent[k][n]].action = "POP"
                            /\ ops'[opsWithoutEvent[k][n]].key = k
                            /\ ops'[opsWithoutEvent[k][n]].rank = pushed'[k] + n
    BY <1>1 DEF WaitingInv
  <2>1. k # key
    BY DEF SomeLackEvent
  <2>2. eventQueues'[k] = eventQueues[k] /\ pushed'[k] = pushed[k]
    BY <1>1, <2>1 DEF ManagerInv, ManagerTypeOK
  <2> QED
    BY <1>6, <2>2 DEF ManagerInv, WaitingInv
<1>7. popped[key] <= pushed[key] /\ pushed[key] \in Nat /\ popped[key] \in Nat
  BY DEF ManagerInv, ManagerTypeOK, QueueInv, SomeLackEvent
<1>8. OpsInv'
  <2> SUFFICES ASSUME NEW i \in 1 .. Len(ops')
               PROVE  /\ ops'[i].rank <= pushed'[ops'[i].key]
                            => ops'[i].event = <<ops'[i].key, ops'[i].rank>>
                      /\ pushed'[ops'[i].key] < ops'[i].rank => ops'[i].event = Unbound
                      /\ ops'[i].action = "PUSH" => ops'[i].rank <= pushed'[ops'[i].key]
                      /\ ops'[i].action = "POP" => ops'[i].rank <= popped'[ops'[i].key]
    BY DEF OpsInv
  <2>1. CASE i \in 1 .. Len(ops)
    <3>1. ops[i].action \in {"PUSH", "POP"} /\ ops[i].key \in Keys /\ ops[i].rank \in Nat
      BY <2>1, OpTyped DEF ManagerInv
    <3>2. ops[i].key = key => ops[i].rank <= pushed[key]
      BY <2>1, <3>1, <1>7 DEF ManagerInv, OpsInv
    <3>3. /\ pushed[ops[i].key] \in Nat
          /\ pushed'[ops[i].key] = IF ops[i].key = key THEN pushed[key] + 1
                                                        ELSE pushed[ops[i].key]
          /\ popped'[ops[i].key] = popped[ops[i].key]
      BY <3>1, <1>1 DEF ManagerInv, ManagerTypeOK
    <3>4. /\ ops[i].rank <= pushed[ops[i].key] => ops[i].event = <<ops[i].key, ops[i].rank>>
          /\ pushed[ops[i].key] < ops[i].rank => ops[i].event = Unbound
          /\ ops[i].action = "PUSH" => ops[i].rank <= pushed[ops[i].key]
          /\ ops[i].action = "POP" => ops[i].rank <= popped[ops[i].key]
      BY <2>1 DEF ManagerInv, OpsInv
    <3>5. ops'[i] = ops[i]
      BY <2>1, <1>6
    <3>6. CASE ops[i].key = key
      <4>1. pushed'[key] = pushed[key] + 1 /\ popped'[key] = popped[key]
        BY <3>3, <3>6
      <4>2. ops[i].rank <= pushed'[key] /\ ~(pushed'[key] < ops[i].rank)
        BY <1>7, <3>1, <3>2, <3>6, <4>1
      <4> QED
        BY <3>2, <3>4, <3>5, <3>6, <4>1, <4>2
    <3>7. CASE ops[i].key # key
      BY <3>3, <3>4, <3>5, <3>7
    <3> QED
      BY <3>6, <3>7
  <2>2. CASE i = Len(ops) + 1
    BY <2>2, <1>1, <1>6, <1>7 DEF Operation, Fresh, ManagerInv, ManagerTypeOK
  <2> QED
    BY <2>1, <2>2, <1>6
<1>9. RanksInv'
  <2>1. \A i \in 1 .. Len(ops) :
            (ops[i].action = op.action /\ ops[i].key = op.key) => ops[i].rank < op.rank
    <3> SUFFICES ASSUME NEW i \in 1 .. Len(ops), ops[i].action = "PUSH", ops[i].key = key
                 PROVE  ops[i].rank < pushed[key] + 1
      BY DEF Operation
    <3> QED
      BY <1>7, OpTyped DEF ManagerInv, OpsInv
  <2> QED
    BY <1>2, <1>6, <2>1, RanksKept DEF ManagerInv
<1> QED
  BY <1>3, <1>4, <1>5, <1>8, <1>9 DEF ManagerInv

\* PUSH that completes the oldest operation without an event keeps it.
LEMMA PushCompletes ==
  ASSUME ManagerInv, NEW type \in Types, NEW key \in Keys, PushEvent(type, key),
         SomeLackEvent(key)
  PROVE  ManagerInv'
<1> DEFINE op == Operation("PUSH", type, key, pushed[key] + 1, Fresh(key))
           w == opsWithoutEvent[key]
           first == w[1]
<1>1. /\ w \in Seq(Nat) /\ w # <<>> /\ Len(w) \in Nat \ {0}
      /\ pushed[key] \in Nat /\ popped[key] \in Nat
      /\ eventQueues[key] = <<>>
      /\ popped[key] = pushed[key] + Len(w)
      /\ first \in 1 .. Len(ops)
      /\ ops[first].action = "POP"
      /\ ops[first].key = key
      /\ ops[first].rank = pushed[key] + 1
  <2>1. w \in Seq(Nat) /\ pushed[key] \in Nat /\ popped[key] \in Nat
    BY DEF ManagerInv, ManagerTypeOK
  <2>2. w # <<>>
    BY DEF SomeLackEvent
  <2>3. Len(w) \in Nat \ {0} /\ 1 \in 1 .. Len(w)
    BY ONLY <2>1, <2>2
  <2>4. /\ eventQueues[key] = <<>> /\ popped[key] = pushed[key] + Len(w)
        /\ \A n \in 1 .. Len(w) : /\ w[n] \in 1 .. Len(ops)
                                  /\ ops[w[n]].action = "POP"
                                  /\ ops[w[n]].key = key
                                  /\ ops[w[n]].rank = pushed[key] + n
    BY <2>2 DEF ManagerInv, WaitingInv
  <2> QED
    BY ONLY <2>1, <2>2, <2>3, <2>4
<1>2. /\ ops' = Append([ops EXCEPT ![first].event = Fresh(key)], op)
      /\ eventQueues' = [eventQueues EXCEPT ![key] = <<>>]
      /\ opsWithoutEvent' = [opsWithoutEvent EXCEPT ![key] = Tail(w)]
      /\ pushed' = [pushed EXCEPT ![key] = @ + 1]
      /\ UNCHANGED popped
  <2>1. Pushed(key) = <<Fresh(key)>>
    BY <1>1 DEF Pushed
  <2>2. Head(Pushed(key)) = Fresh(key) /\ Tail(Pushed(key)) = <<>>
    BY <2>1
  <2>3. Head(w) = first
    BY <1>1
  <2> QED
    BY <2>2, <2>3 DEF PushEvent, OthersWaiting
<1>3. op \in Operations /\ Fresh(key) \in Events
  <2>1. pushed[key] + 1 \in Nat \ {0}
    BY <1>1
  <2>2. Fresh(key) \in Events
    BY <2>1 DEF Events, Fresh
  <2> QED
    BY <2>1, <2>2 DEF Operation, Operations
<1>4. /\ [ops EXCEPT ![first].event = Fresh(key)] \in Seq(Operations)
      /\ Len([ops EXCEPT ![first].event = Fresh(key)]) = Len(ops)
  <2>1. ops \in Seq(Operations) /\ ops[first] \in Operations
    <3>1. ops \in Seq(Operations) /\ first \in 1 .. Len(ops)
      BY <1>1 DEF ManagerInv, ManagerTypeOK
    <3> HIDE DEF first
    <3> QED
      BY ONLY <3>1
  <2>2. [ops[first] EXCEPT !.event = Fresh(key)] \in Operations
    BY <2>1, <1>3 DEF Operations
  <2> QED
    BY <1>1, <2>1, <2>2
<1>5. /\ ops' \in Seq(Operations)
      /\ Len(ops') = Len(ops) + 1
      /\ ops'[Len(ops) + 1] = op
      /\ Len(ops) \in Nat
      /\ \A i \in 1 .. Len(ops) :
            ops'[i] = [ops EXCEPT ![first].event = Fresh(key)][i]
  BY <1>2, <1>3, <1>4, AppendElements DEF ManagerInv, ManagerTypeOK
<1>6. ASSUME NEW i \in 1 .. Len(ops)
      PROVE  /\ ops'[i].action = ops[i].action
             /\ ops'[i].key = ops[i].key
             /\ ops'[i].rank = ops[i].rank
             /\ ops'[i].event = IF i = first THEN <<key, pushed[key] + 1>> ELSE ops[i].event
  <2>1. ops \in Seq(Operations) /\ ops[i] \in Operations
    BY <1>1 DEF ManagerInv, ManagerTypeOK
  <2>2. ops'[i] = IF i = first THEN [ops[i] EXCEPT !.event = Fresh(key)] ELSE ops[i]
    <3>1. DOMAIN ops = 1 .. Len(ops)
      BY <2>1
    <3> QED
      BY <1>1, <1>5, <3>1
  <2> QED
    BY <2>1, <2>2 DEF Operations, Fresh
<1>8. PICK rest : /\ rest = Tail(w)
                  /\ rest \in Seq(Nat)
                  /\ Len(rest) = Len(w) - 1
                  /\ \A n \in 1 .. Len(w) - 1 : rest[n] = w[n + 1]
  <2>1. /\ Tail(w) \in Seq(Nat) /\ Len(Tail(w)) = Len(w) - 1
        /\ \A n \in 1 .. Len(w) - 1 : Tail(w)[n] = w[n + 1]
    BY <1>1, TailElements
  <2> QED
    BY <2>1
<1>82. Len(rest) \in Nat /\ popped[key] = (pushed[key] + 1) + Len(rest)
  <2>1. Len(w) \in Nat /\ Len(rest) \in Nat /\ Len(rest) = Len(w) - 1
    BY <1>1, <1>8
  <2>2. pushed[key] \in Nat /\ popped[key] = pushed[key] + Len(w)
    BY <1>1
  <2> QED
    BY ONLY <2>1, <2>2, OneLess
<1>81. opsWithoutEvent' = [opsWithoutEvent EXCEPT ![key] = rest]
  BY <1>2, <1>8
<1>7. ManagerTypeOK'
  <2>1. /\ eventQueues \in [Keys -> Seq(Events)] /\ opsWithoutEvent \in [Keys -> Seq(Nat)]
        /\ pushed \in [Keys -> Nat] /\ popped \in [Keys -> Nat]
    BY DEF ManagerInv, ManagerTypeOK
  <2>2. eventQueues' \in [Keys -> Seq(Events)]
    BY <1>2, <2>1
  <2>3. opsWithoutEvent' \in [Keys -> Seq(Nat)]
    BY <1>8, <1>81, <2>1
  <2>4. pushed' \in [Keys -> Nat] /\ popped' \in [Keys -> Nat]
    BY <1>2, <2>1
  <2> QED
    BY <1>5, <2>2, <2>3, <2>4 DEF ManagerTypeOK
<1>9. QueueInv'
  <2> SUFFICES ASSUME NEW k \in Keys, opsWithoutEvent'[k] = <<>>
               PROVE  /\ pushed'[k] = popped'[k] + Len(eventQueues'[k])
                      /\ \A n \in 1 .. Len(eventQueues'[k]) :
                            eventQueues'[k][n] = <<k, popped'[k] + n>>
    BY DEF QueueInv
  <2>1. CASE k = key
    <3>1. rest = <<>> /\ eventQueues'[k] = <<>> /\ pushed'[k] = pushed[key] + 1
      BY <1>2, <1>81, <2>1 DEF ManagerInv, ManagerTypeOK
    <3>2. Len(w) = 1
      <4>1. Len(rest) = 0
        BY <3>1
      <4> QED
        BY <1>1, <1>8, <4>1
    <3> QED
      BY <1>1, <1>2, <2>1, <3>1, <3>2
  <2>2. CASE k # key
    BY <1>2, <2>2 DEF ManagerInv, ManagerTypeOK, QueueInv
  <2> QED
    BY <2>1, <2>2
<1>10. WaitingInv'
  <2> SUFFICES ASSUME NEW k \in Keys, opsWithoutEvent'[k] # <<>>
               PROVE  /\ eventQueues'[k] = <<>>
                      /\ popped[k] = pushed'[k] + Len(opsWithoutEvent'[k])
                      /\ \A n \in 1 .. Len(opsWithoutEvent'[k]) :
                            /\ opsWithoutEvent'[k][n] \in 1 .. Len(ops')
                            /\ ops'[opsWithoutEvent'[k][n]].action = "POP"
                            /\ ops'[opsWithoutEvent'[k][n]].key = k
                            /\ ops'[opsWithoutEvent'[k][n]].rank = pushed'[k] + n
    BY <1>2 DEF WaitingInv
  <2>1. CASE k = key
    <3>1. /\ opsWithoutEvent'[k] = rest /\ eventQueues'[k] = <<>>
          /\ pushed'[k] = pushed[key] + 1
      BY <1>2, <1>81, <2>1 DEF ManagerInv, ManagerTypeOK
    <3>2. popped[k] = pushed'[k] + Len(opsWithoutEvent'[k])
      BY <1>82, <2>1, <3>1
    <3>3. ASSUME NEW n \in 1 .. Len(opsWithoutEvent'[k])
          PROVE  /\ opsWithoutEvent'[k][n] \in 1 .. Len(ops')
                 /\ ops'[opsWithoutEvent'[k][n]].action = "POP"
                 /\ ops'[opsWithoutEvent'[k][n]].key = k
                 /\ ops'[opsWithoutEvent'[k][n]].rank = pushed'[k] + n
      <4>1. n + 1 \in 1 .. Len(w) /\ opsWithoutEvent'[k][n] = w[n + 1]
        BY <1>1, <1>8, <3>1
      <4>2. /\ w[n + 1] \in 1 .. Len(ops)
            /\ ops[w[n + 1]].action = "POP"
            /\ ops[w[n + 1]].key = k
            /\ ops[w[n + 1]].rank = pushed[key] + (n + 1)
        BY <4>1, <1>1, <2>1 DEF ManagerInv, WaitingInv
      <4>3. pushed'[k] + n = pushed[key] + (n + 1)
        <5>1. n \in Nat /\ pushed[key] \in Nat
          BY <1>1, <1>82, <3>1
        <5> QED
          BY <3>1, <5>1
      <4> QED
        BY <4>1, <4>2, <4>3, <1>5, <1>6
    <3> QED
      BY <3>1, <3>2, <3>3
  <2>2. CASE k # key
    <3>1. /\ opsWithoutEvent'[k] = opsWithoutEvent[k]
          /\ eventQueues'[k] = eventQueues[k] /\ pushed'[k] = pushed[k]
      BY <1>2, <2>2 DEF ManagerInv, ManagerTypeOK
    <3>2. popped[k] = pushed'[k] + Len(opsWithoutEvent'[k]) /\ eventQueues'[k] = <<>>
      BY <3>1 DEF ManagerInv, WaitingInv
    <3>3. ASSUME NEW n \in 1 .. Len(opsWithoutEvent'[k])
          PROVE  /\ opsWithoutEvent'[k][n] \in 1 .. Len(ops')
                 /\ ops'[opsWithoutEvent'[k][n]].action = "POP"
                 /\ ops'[opsWithoutEvent'[k][n]].key = k
                 /\ ops'[opsWithoutEvent'[k][n]].rank = pushed'[k] + n
      <4>1. PICK j : j = opsWithoutEvent[k][n]
        OBVIOUS
      <4>2. /\ j \in 1 .. Len(ops)
            /\ ops[j].action = "POP" /\ ops[j].key = k /\ ops[j].rank = pushed[k] + n
        BY <3>1, <4>1 DEF ManagerInv, WaitingInv
      <4>3. /\ j \in 1 .. Len(ops')
            /\ ops'[j].action = "POP" /\ ops'[j].key = k /\ ops'[j].rank = pushed[k] + n
        BY <1>5, <1>6, <4>2
      <4> QED
        BY <3>1, <4>1, <4>3
    <3> QED
      BY <3>2, <3>3
  <2> QED
    BY <2>1, <2>2
<1>11. OpsInv'
  <2> SUFFICES ASSUME NEW i \in 1 .. Len(ops')
               PROVE  /\ ops'[i].rank <= pushed'[ops'[i].key]
                            => ops'[i].event = <<ops'[i].key, ops'[i].rank>>
                      /\ pushed'[ops'[i].key] < ops'[i].rank => ops'[i].event = Unbound
                      /\ ops'[i].action = "PUSH" => ops'[i].rank <= pushed'[ops'[i].key]
                      /\ ops'[i].action = "POP" => ops'[i].rank <= popped'[ops'[i].key]
    BY DEF OpsInv
  <2>1. CASE i \in 1 .. Len(ops)
    <3>1. ops[i].action \in {"PUSH", "POP"} /\ ops[i].key \in Keys /\ ops[i].rank \in Nat
      BY <2>1, OpTyped DEF ManagerInv
    <3>2. /\ pushed[ops[i].key] \in Nat
          /\ pushed'[ops[i].key] = IF ops[i].key = key THEN pushed[key] + 1
                                                        ELSE pushed[ops[i].key]
          /\ popped'[ops[i].key] = popped[ops[i].key]
      BY <3>1, <1>2 DEF ManagerInv, ManagerTypeOK
    <3>3. (ops[i].key = key /\ ops[i].rank = pushed[key] + 1) => i = first
      <4>1. ASSUME ops[i].key = key, ops[i].rank = pushed[key] + 1
            PROVE  ops[i].action = "POP"
        <5>1. ops[i].action = "PUSH" => ops[i].rank <= pushed[key]
          BY <2>1, <4>1 DEF ManagerInv, OpsInv
        <5>2. ~(ops[i].rank <= pushed[key])
          BY <1>1, <4>1
        <5> QED
          BY <3>1, <5>1, <5>2
      <4> QED
        BY <4>1, <1>1, <2>1 DEF ManagerInv, RanksInv
    <3>4. CASE i = first
      <4>1. /\ ops'[i].key = key /\ ops'[i].rank = pushed[key] + 1
            /\ ops'[i].action = "POP" /\ ops'[i].event = <<key, pushed[key] + 1>>
        BY <1>1, <1>6, <3>4
      <4>2. pushed'[key] = pushed[key] + 1 /\ popped'[key] = popped[key]
        BY <1>1, <3>2, <3>4
      <4>3. pushed[key] + 1 <= popped[key]
        BY <1>1
      <4> QED
        BY <1>1, <4>1, <4>2, <4>3
    <3>5. CASE i # first
      <4>1. /\ ops'[i].key = ops[i].key /\ ops'[i].rank = ops[i].rank
            /\ ops'[i].action = ops[i].action /\ ops'[i].event = ops[i].event
        BY <1>6, <2>1, <3>5
      <4>2. /\ ops[i].rank <= pushed[ops[i].key] => ops[i].event = <<ops[i].key, ops[i].rank>>
            /\ pushed[ops[i].key] < ops[i].rank => ops[i].event = Unbound
            /\ ops[i].action = "PUSH" => ops[i].rank <= pushed[ops[i].key]
            /\ ops[i].action = "POP" => ops[i].rank <= popped[ops[i].key]
        BY <2>1 DEF ManagerInv, OpsInv
      <4>3. CASE ops[i].key = key
        <5>1. pushed'[key] = pushed[key] + 1 /\ popped'[key] = popped[key]
          BY <3>2, <4>3
        <5>2. ops[i].rank # pushed[key] + 1
          BY <3>3, <3>5, <4>3
        <5>3. pushed[key] \in Nat /\ ops[i].rank \in Nat
          BY <1>1, <3>1
        <5>4. ops[i].rank <= pushed'[key] => ops[i].rank <= pushed[key]
          BY <5>1, <5>2, <5>3
        <5>5. ops[i].rank <= pushed[key] => ops[i].rank <= pushed'[key]
          BY <5>1, <5>3
        <5>6. pushed'[key] < ops[i].rank => pushed[key] < ops[i].rank
          BY <5>1, <5>3
        <5> QED
          BY <4>1, <4>2, <4>3, <5>1, <5>4, <5>5, <5>6
      <4>4. CASE ops[i].key # key
        BY <3>1, <3>2, <4>1, <4>2, <4>4
      <4> QED
        BY <4>3, <4>4
    <3> QED
      BY <3>4, <3>5
  <2>2. CASE i = Len(ops) + 1
    <3>1. ops'[i] = op /\ pushed'[key] = pushed[key] + 1
      BY <2>2, <1>2, <1>5 DEF ManagerInv, ManagerTypeOK
    <3> QED
      BY <3>1, <1>1 DEF Operation, Fresh
  <2> QED
    BY <2>1, <2>2, <1>5
<1>12. RanksInv'
  <2>1. \A i \in 1 .. Len(ops) :
            (ops[i].action = op.action /\ ops[i].key = op.key) => ops[i].rank < op.rank
    <3> SUFFICES ASSUME NEW i \in 1 .. Len(ops), ops[i].action = "PUSH", ops[i].key = key
                 PROVE  ops[i].rank < pushed[key] + 1
      BY DEF Operation
    <3> QED
      BY <1>1, OpTyped DEF ManagerInv, OpsInv
  <2> QED
    BY <1>3, <1>5, <1>6, <2>1, RanksKept DEF ManagerInv
<1> QED
  BY <1>7, <1>9, <1>10, <1>11, <1>12 DEF ManagerInv

\* POP that takes an event keeps it.
LEMMA PopKeeps ==
  ASSUME ManagerInv, NEW type \in Types, NEW key \in Keys, PopEvent(type, key)
  PROVE  ManagerInv'
<1> DEFINE q == eventQueues[key]
           op == Operation("POP", type, key, popped[key] + 1, Head(q))
<1>1. /\ q \in Seq(Events) /\ q # <<>>
      /\ pushed[key] \in Nat /\ popped[key] \in Nat
      /\ opsWithoutEvent[key] = <<>>
      /\ pushed[key] = popped[key] + Len(q)
      /\ \A n \in 1 .. Len(q) : q[n] = <<key, popped[key] + n>>
  <2>1. /\ q \in Seq(Events) /\ q # <<>>
        /\ pushed[key] \in Nat /\ popped[key] \in Nat
    BY DEF ManagerInv, ManagerTypeOK, PopEvent
  <2>2. opsWithoutEvent[key] = <<>>
    BY <2>1 DEF ManagerInv, WaitingInv
  <2> QED
    BY <2>1, <2>2 DEF ManagerInv, QueueInv
<1>2. PICK rest : /\ rest = Tail(q)
                  /\ rest \in Seq(Events)
                  /\ Len(q) \in Nat \ {0}
                  /\ Len(rest) = Len(q) - 1
                  /\ \A n \in 1 .. Len(q) - 1 : rest[n] = q[n + 1]
                  /\ Head(q) = q[1]
  BY <1>1, TailElements
<1>3. /\ Head(q) = <<key, popped[key] + 1>>
      /\ popped[key] + 1 <= pushed[key]
  BY <1>1, <1>2
<1>4. Len(rest) \in Nat /\ pushed[key] = (popped[key] + 1) + Len(rest)
  <2>1. Len(q) \in Nat /\ Len(rest) \in Nat /\ Len(rest) = Len(q) - 1
    BY <1>1, <1>2
  <2>2. popped[key] \in Nat /\ pushed[key] = popped[key] + Len(q)
    BY <1>1
  <2> QED
    BY ONLY <2>1, <2>2, OneLess
<1>5. /\ ops' = Append(ops, op)
      /\ eventQueues' = [eventQueues EXCEPT ![key] = rest]
      /\ popped' = [popped EXCEPT ![key] = @ + 1]
      /\ UNCHANGED <<opsWithoutEvent, pushed>>
  BY <1>2 DEF PopEvent
<1>6. op \in Operations
  BY <1>1, <1>3 DEF Operation, Operations, Events
<1>7. ManagerTypeOK'
  BY <1>2, <1>5, <1>6 DEF ManagerInv, ManagerTypeOK
<1>8. /\ Len(ops') = Len(ops) + 1
      /\ \A i \in 1 .. Len(ops) : ops'[i] = ops[i]
      /\ ops'[Len(ops) + 1] = op
      /\ Len(ops) \in Nat
  BY <1>5, <1>6, AppendElements DEF ManagerInv, ManagerTypeOK
<1>9. QueueInv'
  <2> SUFFICES ASSUME NEW k \in Keys, opsWithoutEvent[k] = <<>>
               PROVE  /\ pushed[k] = popped'[k] + Len(eventQueues'[k])
                      /\ \A n \in 1 .. Len(eventQueues'[k]) :
                            eventQueues'[k][n] = <<k, popped'[k] + n>>
    BY <1>5 DEF QueueInv
  <2>1. CASE k = key
    <3>1. eventQueues'[k] = rest /\ popped'[k] = popped[key] + 1
      BY <1>5, <2>1 DEF ManagerInv, ManagerTypeOK
    <3>2. ASSUME NEW n \in 1 .. Len(rest)
          PROVE  rest[n] = <<key, (popped[key] + 1) + n>>
      <4>1. n \in Nat /\ n \in 1 .. Len(q) - 1 /\ n + 1 \in 1 .. Len(q)
        BY <1>2, <1>4
      <4>4. popped[key] \in Nat /\ n \in Nat
        BY <1>1, <4>1
      <4>2. popped[key] + (n + 1) = (popped[key] + 1) + n
        BY ONLY <4>4, OneCallMore
      <4>3. rest[n] = <<key, popped[key] + (n + 1)>>
        BY <1>1, <1>2, <4>1
      <4> QED
        BY <4>2, <4>3
    <3> QED
      BY <1>4, <2>1, <3>1, <3>2
  <2>2. CASE k # key
    BY <1>5, <2>2 DEF ManagerInv, ManagerTypeOK, QueueInv
  <2> QED
    BY <2>1, <2>2
<1>10. WaitingInv'
  <2> SUFFICES ASSUME NEW k \in Keys, opsWithoutEvent[k] # <<>>
               PROVE  /\ eventQueues'[k] = <<>>
                      /\ popped'[k] = pushed[k] + Len(opsWithoutEvent[k])
                      /\ \A n \in 1 .. Len(opsWithoutEvent[k]) :
                            /\ opsWithoutEvent[k][n] \in 1 .. Len(ops')
                            /\ ops'[opsWithoutEvent[k][n]].action = "POP"
                            /\ ops'[opsWithoutEvent[k][n]].key = k
                            /\ ops'[opsWithoutEvent[k][n]].rank = pushed[k] + n
    BY <1>5 DEF WaitingInv
  <2>1. k # key
    BY <1>1
  <2>2. eventQueues'[k] = eventQueues[k] /\ popped'[k] = popped[k]
    BY <1>5, <2>1 DEF ManagerInv, ManagerTypeOK
  <2>3. /\ eventQueues[k] = <<>>
        /\ popped[k] = pushed[k] + Len(opsWithoutEvent[k])
        /\ \A n \in 1 .. Len(opsWithoutEvent[k]) :
              /\ opsWithoutEvent[k][n] \in 1 .. Len(ops)
              /\ ops[opsWithoutEvent[k][n]].action = "POP"
              /\ ops[opsWithoutEvent[k][n]].key = k
              /\ ops[opsWithoutEvent[k][n]].rank = pushed[k] + n
    BY DEF ManagerInv, WaitingInv
  <2> QED
    BY <1>8, <2>2, <2>3
<1>11. OpsInv'
  <2> SUFFICES ASSUME NEW i \in 1 .. Len(ops')
               PROVE  /\ ops'[i].rank <= pushed[ops'[i].key]
                            => ops'[i].event = <<ops'[i].key, ops'[i].rank>>
                      /\ pushed[ops'[i].key] < ops'[i].rank => ops'[i].event = Unbound
                      /\ ops'[i].action = "PUSH" => ops'[i].rank <= pushed[ops'[i].key]
                      /\ ops'[i].action = "POP" => ops'[i].rank <= popped'[ops'[i].key]
    BY <1>5 DEF OpsInv
  <2>1. CASE i \in 1 .. Len(ops)
    <3>1. ops[i].key \in Keys /\ ops[i].rank \in Nat
      BY <2>1, OpTyped DEF ManagerInv
    <3>2. /\ popped[ops[i].key] \in Nat
          /\ popped'[ops[i].key] = IF ops[i].key = key THEN popped[ops[i].key] + 1
                                                        ELSE popped[ops[i].key]
      BY <3>1, <1>5 DEF ManagerInv, ManagerTypeOK
    <3>3. /\ ops[i].rank <= pushed[ops[i].key] => ops[i].event = <<ops[i].key, ops[i].rank>>
          /\ pushed[ops[i].key] < ops[i].rank => ops[i].event = Unbound
          /\ ops[i].action = "PUSH" => ops[i].rank <= pushed[ops[i].key]
          /\ ops[i].action = "POP" => ops[i].rank <= popped[ops[i].key]
      BY <2>1 DEF ManagerInv, OpsInv
    <3>4. ops'[i] = ops[i]
      BY <2>1, <1>8
    <3>5. popped[ops[i].key] <= popped'[ops[i].key] /\ popped'[ops[i].key] \in Nat
      BY <3>2
    <3>6. ops[i].rank <= popped[ops[i].key] => ops[i].rank <= popped'[ops[i].key]
      BY <3>1, <3>2, <3>5
    <3> QED
      BY <3>3, <3>4, <3>6
  <2>2. CASE i = Len(ops) + 1
    <3>1. ops'[i] = op /\ popped'[key] = popped[key] + 1
      BY <2>2, <1>5, <1>8 DEF ManagerInv, ManagerTypeOK
    <3> QED
      BY <3>1, <1>1, <1>3 DEF Operation
  <2> QED
    BY <2>1, <2>2, <1>8
<1>12. RanksInv'
  <2>1. \A i \in 1 .. Len(ops) :
            (ops[i].action = op.action /\ ops[i].key = op.key) => ops[i].rank < op.rank
    <3> SUFFICES ASSUME NEW i \in 1 .. Len(ops), ops[i].action = "POP", ops[i].key = key
                 PROVE  ops[i].rank < popped[key] + 1
      BY DEF Operation
    <3> QED
      BY <1>1, OpTyped DEF ManagerInv, OpsInv
  <2> QED
    BY <1>6, <1>8, <2>1, RanksKept DEF ManagerInv
<1> QED
  BY <1>7, <1>9, <1>10, <1>11, <1>12 DEF ManagerInv

\* POP that finds no event keeps it.
LEMMA DeferKeeps ==
  ASSUME ManagerInv, NEW type \in Types, NEW key \in Keys, DeferEvent(type, key)
  PROVE  ManagerInv'
<1> DEFINE w == opsWithoutEvent[key]
           op == Operation("POP", type, key, popped[key] + 1, Unbound)
<1>1. /\ w \in Seq(Nat) /\ Len(w) \in Nat
      /\ pushed[key] \in Nat /\ popped[key] \in Nat
      /\ eventQueues[key] = <<>>
      /\ popped[key] = pushed[key] + Len(w)
  <2>1. w \in Seq(Nat) /\ Len(w) \in Nat /\ pushed[key] \in Nat /\ popped[key] \in Nat
        /\ eventQueues[key] = <<>>
    BY DEF ManagerInv, ManagerTypeOK, DeferEvent
  <2>2. CASE w = <<>>
    BY <2>1, <2>2 DEF ManagerInv, QueueInv
  <2>3. CASE w # <<>>
    BY <2>1, <2>3 DEF ManagerInv, WaitingInv
  <2> QED
    BY <2>1, <2>2, <2>3
<1>2. /\ ops' = Append(ops, op)
      /\ opsWithoutEvent' = [opsWithoutEvent EXCEPT ![key] = Append(w, Len(ops) + 1)]
      /\ popped' = [popped EXCEPT ![key] = @ + 1]
      /\ UNCHANGED <<eventQueues, pushed>>
  BY DEF DeferEvent
<1>3. op \in Operations
  BY <1>1 DEF Operation, Operations
<1>4. /\ Len(ops') = Len(ops) + 1
      /\ \A i \in 1 .. Len(ops) : ops'[i] = ops[i]
      /\ ops'[Len(ops) + 1] = op
      /\ Len(ops) \in Nat
      /\ ops' \in Seq(Operations)
  BY <1>2, <1>3, AppendElements DEF ManagerInv, ManagerTypeOK
<1>5. PICK more : /\ more = Append(w, Len(ops) + 1)
                  /\ more \in Seq(Nat)
                  /\ Len(more) = Len(w) + 1
                  /\ \A n \in 1 .. Len(w) : more[n] = w[n]
                  /\ more[Len(w) + 1] = Len(ops) + 1
  <2>1. Len(ops) + 1 \in Nat
    BY <1>4
  <2>2. /\ Append(w, Len(ops) + 1) \in Seq(Nat)
        /\ Len(Append(w, Len(ops) + 1)) = Len(w) + 1
        /\ \A n \in 1 .. Len(w) : Append(w, Len(ops) + 1)[n] = w[n]
        /\ Append(w, Len(ops) + 1)[Len(w) + 1] = Len(ops) + 1
    BY ONLY <1>1, <2>1, AppendElements
  <2> QED
    BY ONLY <2>2
<1>6. opsWithoutEvent' = [opsWithoutEvent EXCEPT ![key] = more]
  BY <1>2, <1>5
<1>7. ManagerTypeOK'
  BY <1>2, <1>4, <1>5, <1>6 DEF ManagerInv, ManagerTypeOK
<1>8. QueueInv'
  <2> SUFFICES ASSUME NEW k \in Keys, opsWithoutEvent'[k] = <<>>
               PROVE  /\ pushed[k] = popped'[k] + Len(eventQueues[k])
                      /\ \A n \in 1 .. Len(eventQueues[k]) :
                            eventQueues[k][n] = <<k, popped'[k] + n>>
    BY <1>2 DEF QueueInv
  <2>1. k # key
    <3>1. opsWithoutEvent'[key] = more
      BY <1>6 DEF ManagerInv, ManagerTypeOK
    <3>2. more # <<>>
      BY <1>1, <1>5
    <3> QED
      BY <3>1, <3>2
  <2> QED
    BY <1>2, <1>6, <2>1 DEF ManagerInv, ManagerTypeOK, QueueInv
<1>9. WaitingInv'
  <2> SUFFICES ASSUME NEW k \in Keys, opsWithoutEvent'[k] # <<>>
               PROVE  /\ eventQueues[k] = <<>>
                      /\ popped'[k] = pushed[k] + Len(opsWithoutEvent'[k])
                      /\ \A n \in 1 .. Len(opsWithoutEvent'[k]) :
                            /\ opsWithoutEvent'[k][n] \in 1 .. Len(ops')
                            /\ ops'[opsWithoutEvent'[k][n]].action = "POP"
                            /\ ops'[opsWithoutEvent'[k][n]].key = k
                            /\ ops'[opsWithoutEvent'[k][n]].rank = pushed[k] + n
    BY <1>2 DEF WaitingInv
  <2>1. CASE k = key
    <3>1. opsWithoutEvent'[k] = more /\ popped'[k] = popped[key] + 1
      BY <1>2, <1>6, <2>1 DEF ManagerInv, ManagerTypeOK
    <3>2. popped'[k] = pushed[k] + Len(opsWithoutEvent'[k])
      BY <1>1, <1>5, <2>1, <3>1
    <3>3. ASSUME NEW n \in 1 .. Len(more)
          PROVE  /\ more[n] \in 1 .. Len(ops')
                 /\ ops'[more[n]].action = "POP"
                 /\ ops'[more[n]].key = key
                 /\ ops'[more[n]].rank = pushed[key] + n
      <4>1. CASE n \in 1 .. Len(w)
        <5>1. w # <<>>
          BY <1>1, <4>1
        <5>2. /\ w[n] \in 1 .. Len(ops)
              /\ ops[w[n]].action = "POP"
              /\ ops[w[n]].key = key
              /\ ops[w[n]].rank = pushed[key] + n
          BY <4>1, <5>1 DEF ManagerInv, WaitingInv
        <5> QED
          BY <1>4, <1>5, <4>1, <5>2
      <4>2. CASE n = Len(w) + 1
        <5>1. more[n] = Len(ops) + 1 /\ ops'[more[n]] = op
          BY <1>4, <1>5, <4>2
        <5>2. popped[key] + 1 = pushed[key] + n
          BY <1>1, <4>2
        <5>3. op.action = "POP" /\ op.key = key /\ op.rank = pushed[key] + n
          BY <5>2 DEF Operation
        <5>4. more[n] \in 1 .. Len(ops')
          BY <1>4, <5>1
        <5>5. /\ ops'[more[n]].action = "POP"
              /\ ops'[more[n]].key = key
              /\ ops'[more[n]].rank = pushed[key] + n
          BY ONLY <5>1, <5>3
        <5> QED
          BY ONLY <5>4, <5>5
      <4> QED
        BY <1>1, <1>5, <4>1, <4>2
    <3>4. eventQueues[k] = <<>>
      BY <1>1, <2>1
    <3>5. \A n \in 1 .. Len(opsWithoutEvent'[k]) :
                            /\ opsWithoutEvent'[k][n] \in 1 .. Len(ops')
                            /\ ops'[opsWithoutEvent'[k][n]].action = "POP"
                            /\ ops'[opsWithoutEvent'[k][n]].key = k
                            /\ ops'[opsWithoutEvent'[k][n]].rank = pushed[k] + n
      BY ONLY <2>1, <3>1, <3>3
    <3> QED
      BY ONLY <3>2, <3>4, <3>5
  <2>2. CASE k # key
    <3>1. opsWithoutEvent'[k] = opsWithoutEvent[k] /\ popped'[k] = popped[k]
      BY <1>2, <2>2 DEF ManagerInv, ManagerTypeOK
    <3> QED
      BY <1>4, <3>1 DEF ManagerInv, WaitingInv
  <2> QED
    BY <2>1, <2>2
<1>10. OpsInv'
  <2> SUFFICES ASSUME NEW i \in 1 .. Len(ops')
               PROVE  /\ ops'[i].rank <= pushed[ops'[i].key]
                            => ops'[i].event = <<ops'[i].key, ops'[i].rank>>
                      /\ pushed[ops'[i].key] < ops'[i].rank => ops'[i].event = Unbound
                      /\ ops'[i].action = "PUSH" => ops'[i].rank <= pushed[ops'[i].key]
                      /\ ops'[i].action = "POP" => ops'[i].rank <= popped'[ops'[i].key]
    BY <1>2 DEF OpsInv
  <2>1. CASE i \in 1 .. Len(ops)
    <3>1. ops[i].key \in Keys /\ ops[i].rank \in Nat
      BY <2>1, OpTyped DEF ManagerInv
    <3>2. /\ popped[ops[i].key] \in Nat
          /\ popped'[ops[i].key] = IF ops[i].key = key THEN popped[ops[i].key] + 1
                                                        ELSE popped[ops[i].key]
      BY <3>1, <1>2 DEF ManagerInv, ManagerTypeOK
    <3>3. ops'[i] = ops[i]
      BY <2>1, <1>4
    <3>4. /\ ops[i].rank <= pushed[ops[i].key] => ops[i].event = <<ops[i].key, ops[i].rank>>
          /\ pushed[ops[i].key] < ops[i].rank => ops[i].event = Unbound
          /\ ops[i].action = "PUSH" => ops[i].rank <= pushed[ops[i].key]
          /\ ops[i].action = "POP" => ops[i].rank <= popped[ops[i].key]
      BY <2>1 DEF ManagerInv, OpsInv
    <3>5. popped[ops[i].key] <= popped'[ops[i].key]
      BY <3>2
    <3>6. ops[i].action = "POP" => ops[i].rank <= popped'[ops[i].key]
      BY <3>1, <3>2, <3>4, <3>5
    <3> QED
      BY <3>3, <3>4, <3>6
  <2>2. CASE i = Len(ops) + 1
    <3>1. ops'[i] = op /\ popped'[key] = popped[key] + 1
      BY <2>2, <1>2, <1>4 DEF ManagerInv, ManagerTypeOK
    <3>2. pushed[key] < popped[key] + 1
      BY <1>1
    <3> QED
      BY <3>1, <3>2, <1>1 DEF Operation
  <2> QED
    BY <2>1, <2>2, <1>4
<1>11. RanksInv'
  <2>1. \A i \in 1 .. Len(ops) :
            (ops[i].action = op.action /\ ops[i].key = op.key) => ops[i].rank < op.rank
    <3> SUFFICES ASSUME NEW i \in 1 .. Len(ops), ops[i].action = "POP", ops[i].key = key
                 PROVE  ops[i].rank < popped[key] + 1
      BY DEF Operation
    <3> QED
      BY <1>1, OpTyped DEF ManagerInv, OpsInv
  <2> QED
    BY <1>3, <1>4, <2>1, RanksKept DEF ManagerInv
<1> QED
  BY <1>7, <1>8, <1>9, <1>10, <1>11 DEF ManagerInv

\* The inductive invariant holds in every reachable state.
LEMMA Invariant == ManagerSpec => []ManagerInv
<1>1. ManagerInv /\ [ManagerNext]_managerVars => ManagerInv'
  <2> SUFFICES ASSUME ManagerInv, [ManagerNext]_managerVars PROVE ManagerInv'
    OBVIOUS
  <2>1. CASE ManagerNext
    <3>1. PICK type \in Types, key \in Keys : EventInternal(type, key)
      BY <2>1 DEF ManagerNext
    <3>2. CASE PushEvent(type, key)
      BY <3>2, PushPlain, PushCompletes
    <3>3. CASE PopEvent(type, key)
      BY <3>3, PopKeeps
    <3>4. CASE DeferEvent(type, key)
      BY <3>4, DeferKeeps
    <3> QED
      BY <3>1, <3>2, <3>3, <3>4 DEF EventInternal
  <2>2. CASE UNCHANGED managerVars
    BY <2>2 DEF managerVars, ManagerInv, ManagerTypeOK, QueueInv, WaitingInv, OpsInv, RanksInv
  <2> QED
    BY <2>1, <2>2
<1> QED
  BY <1>1, InitInv, PTL DEF ManagerSpec

\* Every variable of EventManager keeps its type, for any keys and any number of calls.
THEOREM ManagerTypeCorrect == ManagerSpec => []ManagerTypeOK
  BY Invariant, PTL DEF ManagerInv

\* The event of an operation tells its key and its rank, so that two operations with the
\* same event are a PUSH and a POP of the same rank: the calls of a key pair up in
\* their order.
THEOREM Pairing == ManagerSpec => []PairedInOrder
<1>1. ManagerInv => PairedInOrder
  <2> SUFFICES ASSUME ManagerInv, NEW i \in DOMAIN ops, NEW j \in DOMAIN ops,
                      i # j, ops[i].event # Unbound, ops[i].event = ops[j].event
               PROVE  /\ ops[i].action # ops[j].action
                      /\ ops[i].key = ops[j].key
                      /\ ops[i].rank = ops[j].rank
    BY DEF PairedInOrder
  <2>1. i \in 1 .. Len(ops) /\ j \in 1 .. Len(ops)
    BY DEF ManagerInv, ManagerTypeOK
  <2>2. ASSUME NEW m \in 1 .. Len(ops), ops[m].event # Unbound
        PROVE  ops[m].event = <<ops[m].key, ops[m].rank>>
    <3>1. ops[m].rank \in Nat /\ pushed[ops[m].key] \in Nat
      BY OpTyped DEF ManagerInv, ManagerTypeOK
    <3> QED
      BY <2>2, <3>1 DEF ManagerInv, OpsInv
  <2>3. <<ops[i].key, ops[i].rank>> = <<ops[j].key, ops[j].rank>>
    BY <2>1, <2>2
  <2> QED
    BY <2>1, <2>3 DEF ManagerInv, RanksInv
<1> QED
  BY <1>1, Invariant, PTL

\* A POP holds its event from the moment the PUSH of its rank has been called, also when
\* the POP came first.
THEOREM Binding == ManagerSpec => []BoundWhenPushed
<1>1. ManagerInv => BoundWhenPushed
  <2> SUFFICES ASSUME ManagerInv, NEW i \in DOMAIN ops, ops[i].rank <= pushed[ops[i].key]
               PROVE  ops[i].event # Unbound
    BY DEF BoundWhenPushed
  <2>1. i \in 1 .. Len(ops)
    BY DEF ManagerInv, ManagerTypeOK
  <2>2. ops[i].event = <<ops[i].key, ops[i].rank>>
    BY <2>1 DEF ManagerInv, OpsInv
  <2> QED
    BY <2>2 DEF Unbound
<1> QED
  BY <1>1, Invariant, PTL

-----------------------------------------------------------------------------
(* Graphs of tasks and events on their streams.                            *)

LEMMA Division ==
  ASSUME NEW L \in Nat, L > 0, NEW p \in Nat
  PROVE  p \div L \in Nat /\ (p % L) \in 0 .. L - 1 /\ p = L * (p \div L) + (p % L)
OBVIOUS

LEMMA LessTimes ==
  ASSUME NEW L \in Nat, L > 0, NEW q \in Nat, NEW k \in Nat, q < k
  PROVE  L * q + L <= L * k
<1>1. PICK d \in Nat : k = q + 1 + d
  <2>1. k - q - 1 \in Nat /\ k = q + 1 + (k - q - 1) OBVIOUS
  <2> QED BY <2>1
<1>2. L * k = L * q + L + L * d
  BY <1>1
<1>3. L * d \in Nat /\ L * q \in Nat OBVIOUS
<1> QED BY <1>2, <1>3

LEMMA Quotient ==
  ASSUME NEW L \in Nat, L > 0, NEW p \in Nat, NEW q \in Nat, NEW r \in 0 .. L - 1, p = L * q + r
  PROVE  p \div L = q /\ p % L = r
<1>1. p \div L \in Nat /\ p % L \in 0 .. L - 1 /\ p = L * (p \div L) + (p % L)
  BY Division
<1>2. L * (p \div L) \in Nat /\ L * q \in Nat
  BY <1>1
<1>3. ~(q < p \div L)
  <2> SUFFICES ASSUME q < p \div L PROVE FALSE OBVIOUS
  <2>1. L * q + L <= L * (p \div L) BY <1>1, LessTimes
  <2> QED BY <1>1, <1>2, <2>1
<1>4. ~(p \div L < q)
  <2> SUFFICES ASSUME p \div L < q PROVE FALSE OBVIOUS
  <2>1. L * (p \div L) + L <= L * q BY <1>1, LessTimes
  <2> QED BY <1>1, <1>2, <2>1
<1>5. p \div L = q BY <1>1, <1>3, <1>4
<1> QED BY <1>1, <1>2, <1>5

LEMMA NextPlace ==
  ASSUME NEW L \in Nat, L > 0, NEW p \in Nat
  PROVE  IF p % L = L - 1 THEN (p + 1) \div L = p \div L + 1 /\ (p + 1) % L = 0
         ELSE (p + 1) \div L = p \div L /\ (p + 1) % L = (p % L) + 1
<1>1. p \div L \in Nat /\ p % L \in 0 .. L - 1 /\ p = L * (p \div L) + (p % L)
  BY Division
<1>2. L * (p \div L) \in Nat /\ L * (p \div L + 1) = L * (p \div L) + L
  BY <1>1
<1>3. CASE p % L = L - 1
  <2>1. p + 1 = L * (p \div L + 1) + 0 /\ 0 \in 0 .. L - 1 /\ p \div L + 1 \in Nat /\ p + 1 \in Nat
    BY <1>1, <1>2, <1>3
  <2> QED BY <1>3, <2>1, Quotient
<1>4. CASE p % L # L - 1
  <2>1. p + 1 = L * (p \div L) + ((p % L) + 1) /\ (p % L) + 1 \in 0 .. L - 1 /\ p + 1 \in Nat
    BY <1>1, <1>2, <1>4
  <2> QED BY <1>1, <1>4, <2>1, Quotient
<1> QED BY <1>3, <1>4

LEMMA PassedPlace ==
  ASSUME NEW L \in Nat, L > 0, NEW p \in Nat, NEW k \in Nat, NEW n \in 1 .. L
  PROVE  p >= k * L + n <=> p \div L > k \/ (p \div L = k /\ p % L >= n)
<1> DEFINE q == p \div L
           r == p % L
<1>1. q \in Nat /\ r \in 0 .. L - 1 /\ p = L * q + r
  BY Division
<1> HIDE DEF q, r
<1>2. L * q \in Nat /\ L * k \in Nat /\ k * L = L * k
  BY <1>1
<1>3. CASE q = k
  BY <1>1, <1>2, <1>3 DEF q, r
<1>4. CASE q < k
  <2>1. L * q + L <= L * k BY <1>1, <1>4, LessTimes
  <2>2. ~(p >= L * k + n) BY <1>1, <1>2, <2>1
  <2>3. ~(q > k \/ (q = k /\ r >= n)) BY <1>1, <1>4
  <2> QED BY <1>2, <2>2, <2>3 DEF q, r
<1>5. CASE k < q
  <2>1. L * k + L <= L * q BY <1>1, <1>5, LessTimes
  <2>2. p >= L * k + n BY <1>1, <1>2, <2>1
  <2>3. q > k BY <1>1, <1>5
  <2> QED BY <1>2, <2>2, <2>3 DEF q, r
<1> QED BY <1>1, <1>3, <1>4, <1>5

LEMMA EndPlace ==
  ASSUME NEW L \in Nat, L > 0, NEW p \in Nat, NEW k \in Nat, p <= k * L
  PROVE  IF p = k * L THEN p \div L = k /\ p % L = 0 ELSE p \div L < k
<1>1. p \div L \in Nat /\ p % L \in 0 .. L - 1 /\ p = L * (p \div L) + (p % L)
  BY Division
<1>2. L * (p \div L) \in Nat /\ L * k \in Nat /\ k * L = L * k
  BY <1>1
<1>3. CASE p = k * L
  <2>1. p = L * k + 0 /\ 0 \in 0 .. L - 1 BY <1>2, <1>3
  <2> QED BY <1>3, <2>1, Quotient
<1>4. CASE p # k * L
  <2>1. p \div L # k BY <1>1, <1>2, <1>4
  <2>2. ~(k < p \div L)
    <3> SUFFICES ASSUME k < p \div L PROVE FALSE OBVIOUS
    <3>1. L * k + L <= L * (p \div L) BY <1>1, LessTimes
    <3> QED BY <1>1, <1>2, <3>1
  <2> QED BY <1>1, <1>4, <2>1, <2>2
<1> QED BY <1>3, <1>4
LEMMA FirstPlace == ASSUME NEW L \in Nat, L > 0 PROVE 0 \div L = 0 /\ 0 % L = 0
<1>1. 0 = L * 0 + 0 /\ 0 \in 0 .. L - 1 /\ 0 \in Nat
  OBVIOUS
<1>2. \A q \in Nat, r \in 0 .. L - 1 : 0 = L * q + r => 0 \div L = q /\ 0 % L = r
  BY Quotient
<1> QED
  BY <1>1, <1>2

-----------------------------------------------------------------------------
Off(s) == pos[s] % Len(graph[s])

\* How often stream s has run its i-th node.
Times(s, i) == Round(s) + (IF i <= Off(s) THEN 1 ELSE 0)

\* The event from node a of stream s to node b of the other one.
InTurn(s, a, b) ==
  /\ Times(1 - s, b) <= Times(s, a)
  /\ Times(s, a) <= Times(1 - s, b) + 1
  /\ graph[s][a].event \in raised <=> Times(s, a) = Times(1 - s, b) + 1
EventsInTurn ==
  \A s \in Streams : \A a \in DOMAIN graph[s], b \in DOMAIN graph[1 - s] :
    Signal(graph, s, a, 1 - s, b) => InTurn(s, a, b)

IInv == TypeOK /\ EventsInTurn

\* A stream is in a lap, or it has no nodes.
LEMMA Place ==
  ASSUME TypeOK, WellTied(graph), NEW s \in Streams
  PROVE  /\ Len(graph[s]) \in Nat /\ DOMAIN graph[s] = 1 .. Len(graph[s]) /\ pos[s] \in Nat
         /\ Len(graph[s]) > 0 => Round(s) \in Nat /\ Off(s) \in 0 .. Len(graph[s]) - 1
         /\ ~Ended(s) => Len(graph[s]) > 0 /\ Round(s) < Rounds
         /\ Ended(s) /\ Len(graph[s]) > 0 => Round(s) = Rounds /\ Off(s) = 0
<1>1. Len(graph[s]) \in Nat /\ DOMAIN graph[s] = 1 .. Len(graph[s]) /\ pos[s] \in Nat /\ Rounds \in Nat
  BY EventGraphAssumption DEF TypeOK, WellTied, Paired
<1>2. pos[s] <= Rounds * Len(graph[s]) /\ (Ended(s) <=> pos[s] = Rounds * Len(graph[s]))
  BY DEF TypeOK, Ended, LastPos
<1>3. CASE Len(graph[s]) = 0
  <2>1. Rounds * Len(graph[s]) = 0
    BY <1>1, <1>3
  <2> QED
    BY <1>1, <1>2, <1>3, <2>1
<1>4. CASE Len(graph[s]) > 0
  <2>1. Round(s) \in Nat /\ Off(s) \in 0 .. Len(graph[s]) - 1
    BY <1>1, <1>4, Division DEF Round, Off
  <2>2. IF pos[s] = Rounds * Len(graph[s]) THEN Round(s) = Rounds /\ Off(s) = 0 ELSE Round(s) < Rounds
    BY <1>1, <1>2, <1>4, EndPlace DEF Round, Off
  <2> QED
    BY <1>1, <1>2, <1>4, <2>1, <2>2
<1> QED
  BY <1>1, <1>3, <1>4

LEMMA TimesFacts ==
  ASSUME TypeOK, WellTied(graph), NEW s \in Streams, NEW i \in DOMAIN graph[s]
  PROVE  /\ i \in Nat /\ i > 0 /\ Round(s) \in Nat /\ Off(s) \in Nat
         /\ Times(s, i) = IF i <= Off(s) THEN Round(s) + 1 ELSE Round(s)
         /\ Times(s, i) \in Nat
BY Place DEF Times

LEMMA NextNode ==
  ASSUME TypeOK, WellTied(graph), NEW s \in Streams, ~Ended(s)
  PROVE  /\ Off(s) + 1 \in DOMAIN graph[s] /\ Reached(s) = graph[s][Off(s) + 1]
         /\ Off(s) \in Nat /\ Off(s) = (Off(s) + 1) - 1 /\ Times(s, Off(s) + 1) = Round(s)
<1>1. /\ Len(graph[s]) \in Nat /\ DOMAIN graph[s] = 1 .. Len(graph[s]) /\ Len(graph[s]) > 0
      /\ Off(s) \in 0 .. Len(graph[s]) - 1
  BY Place
<1>2. Reached(s) = graph[s][Off(s) + 1]
  BY DEF Reached, Off
<1>3. Times(s, Off(s) + 1) = Round(s)
  BY <1>1, Place DEF Times
<1> QED
  BY <1>1, <1>2, <1>3

\* A stream that goes on has run the node it had reached once more, and nothing else.
LEMMA OneMore ==
  ASSUME TypeOK, WellTied(graph), NEW s \in Streams, Advance(s)
  PROVE  /\ Off(s) + 1 \in DOMAIN graph[s] /\ Reached(s) = graph[s][Off(s) + 1] /\ graph' = graph
         /\ Times(s, Off(s) + 1) = Round(s)
         /\ \A i \in DOMAIN graph[s] :
              Times(s, i)' = IF i = Off(s) + 1 THEN Times(s, i) + 1 ELSE Times(s, i)
         /\ \A i : Times(1 - s, i)' = Times(1 - s, i)
<1>1. ~Ended(s) /\ pos' = [pos EXCEPT ![s] = @ + 1] /\ graph' = graph
  BY DEF Advance
<1>2. /\ Len(graph[s]) \in Nat /\ DOMAIN graph[s] = 1 .. Len(graph[s]) /\ pos[s] \in Nat /\ Len(graph[s]) > 0
      /\ Round(s) \in Nat /\ Off(s) \in 0 .. Len(graph[s]) - 1
  BY <1>1, Place
<1>3. pos'[s] = pos[s] + 1 /\ pos'[1 - s] = pos[1 - s]
  BY <1>1 DEF TypeOK, Streams
<1>4. IF Off(s) = Len(graph[s]) - 1 THEN Round(s)' = Round(s) + 1 /\ Off(s)' = 0
      ELSE Round(s)' = Round(s) /\ Off(s)' = Off(s) + 1
  BY <1>1, <1>2, <1>3, NextPlace DEF Round, Off
<1>5. Off(s) + 1 \in DOMAIN graph[s] /\ Reached(s) = graph[s][Off(s) + 1]
  BY <1>2 DEF Reached, Off
<1>6. Times(s, Off(s) + 1) = Round(s)
  BY <1>2 DEF Times
<1>7. ASSUME NEW i \in DOMAIN graph[s]
      PROVE  Times(s, i)' = IF i = Off(s) + 1 THEN Times(s, i) + 1 ELSE Times(s, i)
  BY <1>2, <1>4, <1>7 DEF Times
<1>8. \A i : Times(1 - s, i)' = Times(1 - s, i)
  BY <1>1, <1>3 DEF Times, Round, Off
<1> QED
  BY <1>1, <1>5, <1>6, <1>7, <1>8

\* What an event says about the nodes before its RECORD and after its WAIT.
LEMMA BeforeHolds ==
  ASSUME IInv, WellTied(graph), NEW s \in Streams, NEW t \in Streams, s # t, NEW i \in DOMAIN graph[s],
         NEW j \in DOMAIN graph[t], Before(graph, s, i, t, j), Off(t) = j - 1
  PROVE  Times(s, i) > Round(t)
<1>1. t = 1 - s
  BY DEF Streams
<1>2. PICK a \in DOMAIN graph[s], b \in DOMAIN graph[t] : Signal(graph, s, a, t, b) /\ i < a /\ b < j
  BY DEF Before
<1>3. Times(t, b) <= Times(s, a)
  BY <1>1, <1>2 DEF IInv, EventsInTurn, InTurn
<1> QED
  BY <1>1, <1>2, <1>3, TimesFacts DEF IInv

LEMMA BeforeNextHolds ==
  ASSUME IInv, WellTied(graph), NEW s \in Streams, NEW t \in Streams, s # t, NEW i \in DOMAIN graph[s],
         NEW j \in DOMAIN graph[t], BeforeNext(graph, s, i, t, j), Off(t) = j - 1
  PROVE  Times(s, i) >= Round(t)
<1>1. t = 1 - s
  BY DEF Streams
<1>2. PICK a \in DOMAIN graph[s], b \in DOMAIN graph[t] : Signal(graph, s, a, t, b) /\ (i < a \/ b < j)
  BY DEF BeforeNext
<1>3. Times(t, b) <= Times(s, a)
  BY <1>1, <1>2 DEF IInv, EventsInTurn, InTurn
<1> QED
  BY <1>1, <1>2, <1>3, TimesFacts DEF IInv

\* A RECORD that is reached finds its event waited for.
LEMMA NotRaised ==
  ASSUME IInv, WellTied(graph), NEW s \in Streams, NEW a \in DOMAIN graph[s],
         NEW b \in DOMAIN graph[1 - s], Signal(graph, s, a, 1 - s, b), Off(s) = a - 1
  PROVE  graph[s][a].event \notin raised /\ Times(s, a) = Times(1 - s, b)
<1>1. 1 - s \in Streams /\ 1 - s # s
  BY DEF Streams
<1>2. BeforeNext(graph, 1 - s, b, s, a)
  BY DEF WellTied, Answered
<1>3. Times(1 - s, b) >= Round(s)
  BY <1>1, <1>2, BeforeNextHolds
<1>4. Times(s, a) = Round(s) /\ Times(s, a) \in Nat /\ Times(1 - s, b) \in Nat
  BY <1>1, TimesFacts DEF IInv
<1>5. InTurn(s, a, b)
  BY DEF IInv, EventsInTurn
<1> QED
  BY <1>3, <1>4, <1>5 DEF InTurn

\* An event has no other nodes than its RECORD and its WAIT.
LEMMA OthersKeepEvent ==
  ASSUME WellTied(graph), NEW s \in Streams, Advance(s), Reached(s) = graph[s][Off(s) + 1],
         Off(s) + 1 \in DOMAIN graph[s],
         NEW u \in Streams, NEW a \in DOMAIN graph[u], NEW b \in DOMAIN graph[1 - u],
         Signal(graph, u, a, 1 - u, b), u = s => a # Off(s) + 1, u = 1 - s => b # Off(s) + 1
  PROVE  graph[u][a].event \in raised' <=> graph[u][a].event \in raised
<1> DEFINE e == graph[u][a].event
           n == Reached(s)
<1>1. /\ 1 - u \in Streams /\ u # 1 - u /\ (s = u \/ (s = 1 - u /\ u = 1 - s))
      /\ graph[u][a].kind = "RECORD" /\ graph[1 - u][b].kind = "WAIT" /\ graph[1 - u][b].event = e
  BY DEF Streams, Signal
<1>4. \A v, x \in Streams : \A i \in DOMAIN graph[v], j \in DOMAIN graph[x] :
         (/\ graph[v][i].kind \in {"RECORD", "WAIT"}
          /\ graph[x][j].kind = graph[v][i].kind
          /\ graph[x][j].event = graph[v][i].event) => v = x /\ i = j
  BY DEF WellTied, Paired
<1>2. ~(n.kind = "RECORD" /\ n.event = e)
  BY <1>1, <1>4
<1>3. ~(n.kind = "WAIT" /\ n.event = e)
  BY <1>1, <1>4
<1> QED
  BY <1>2, <1>3 DEF Advance, FinishTask, Record, Wait

LEMMA EventsStep ==
  ASSUME IInv, WellTied(graph), NEW s \in Streams, Advance(s)
  PROVE  EventsInTurn'
<1>1. /\ Off(s) + 1 \in DOMAIN graph[s] /\ Reached(s) = graph[s][Off(s) + 1] /\ graph' = graph
      /\ \A i \in DOMAIN graph[s] :
           Times(s, i)' = IF i = Off(s) + 1 THEN Times(s, i) + 1 ELSE Times(s, i)
      /\ \A i : Times(1 - s, i)' = Times(1 - s, i)
  BY OneMore DEF IInv
<1>2. SUFFICES ASSUME NEW u \in Streams, NEW a \in DOMAIN graph[u], NEW b \in DOMAIN graph[1 - u],
                      Signal(graph, u, a, 1 - u, b)
               PROVE  InTurn(u, a, b)'
  BY <1>1 DEF EventsInTurn, Signal
<1> DEFINE e == graph[u][a].event
<1>3. /\ 1 - u \in Streams /\ u # 1 - u /\ u = 1 - (1 - u) /\ (u = s \/ u = 1 - s)
      /\ graph[u][a].kind = "RECORD" /\ graph[1 - u][b].kind = "WAIT" /\ graph[1 - u][b].event = e
  BY <1>2 DEF Streams, Signal
<1>4. InTurn(u, a, b) /\ Times(u, a) \in Nat /\ Times(1 - u, b) \in Nat
  BY <1>2, <1>3, TimesFacts DEF IInv, EventsInTurn
<1>5. CASE u = s /\ a = Off(s) + 1
  <2>1. e \notin raised /\ Times(s, a) = Times(1 - s, b)
    <3>1. Off(s) = a - 1
      BY <1>3, <1>5, TimesFacts DEF IInv
    <3> QED
      BY <1>2, <1>5, <3>1, NotRaised
  <2>2. e \in raised'
    BY <1>1, <1>2, <1>3, <1>5 DEF Advance, FinishTask, Running, Record, Wait, WellTied, Paired
  <2>3. Times(s, a)' = Times(s, a) + 1 /\ Times(1 - s, b)' = Times(1 - s, b) /\ graph' = graph
    BY <1>1, <1>2, <1>5
  <2> QED
    BY <1>4, <1>5, <2>1, <2>2, <2>3 DEF InTurn
<1>6. CASE u = 1 - s /\ b = Off(s) + 1
  <2>1. 1 - u = s
    BY <1>3, <1>6 DEF Streams
  <2>2. Reached(s).kind = "WAIT" /\ Reached(s).event = e /\ e # NoEvent
    BY <1>1, <1>2, <1>3, <1>6, <2>1 DEF WellTied, Paired
  <2>3. e \in raised /\ e \notin raised'
    BY <2>2 DEF Advance, FinishTask, Running, Record, Wait
  <2>4. Times(s, b)' = Times(s, b) + 1 /\ Times(1 - s, a)' = Times(1 - s, a) /\ graph' = graph
    BY <1>1, <1>2, <1>6, <2>1
  <2> QED
    BY <1>4, <1>6, <2>1, <2>3, <2>4 DEF InTurn
<1>7. CASE (u = s => a # Off(s) + 1) /\ (u = 1 - s => b # Off(s) + 1)
  <2>1. e \in raised' <=> e \in raised
    BY <1>1, <1>2, <1>7, OthersKeepEvent
  <2>2. Times(u, a)' = Times(u, a) /\ Times(1 - u, b)' = Times(1 - u, b) /\ graph' = graph
    <3>1. CASE u = s
      BY <1>1, <1>2, <1>7, <3>1
    <3>2. CASE u = 1 - s
      <4>1. 1 - u = s
        BY <1>3, <3>2 DEF Streams
      <4> QED
        BY <1>1, <1>2, <1>7, <3>2, <4>1
    <3> QED
      BY <1>1, <1>3, <3>1, <3>2
  <2> QED
    BY <1>4, <2>1, <2>2 DEF InTurn
<1> QED
  BY <1>3, <1>5, <1>6, <1>7

LEMMA TypesStep ==
  ASSUME IInv, WellTied(graph), NEW s \in Streams, Advance(s)
  PROVE  TypeOK'
<1>1. /\ Off(s) + 1 \in DOMAIN graph[s] /\ Reached(s) = graph[s][Off(s) + 1] /\ graph' = graph
      /\ pos \in [Streams -> Nat] /\ pos' = [pos EXCEPT ![s] = @ + 1] /\ ~Ended(s)
  BY OneMore DEF IInv, TypeOK, Advance
<1>2. graph' \in Graphs /\ pos' \in [Streams -> Nat]
  BY <1>1 DEF IInv, TypeOK
<1>3. ASSUME NEW t \in Streams
      PROVE  (pos[t] <= LastPos(t))'
  <2>1. Rounds * Len(graph[t]) \in Nat /\ pos[t] <= Rounds * Len(graph[t])
    BY Place, EventGraphAssumption DEF IInv, TypeOK, LastPos
  <2>2. pos[s] # Rounds * Len(graph[s])
    BY <1>1 DEF Ended, LastPos
  <2> QED
    BY <1>1, <2>1, <2>2 DEF LastPos
<1>4. raised' \subseteq EventsOf("RECORD")'
  <2>1. EventsOf("RECORD")' = EventsOf("RECORD")
    BY <1>1 DEF EventsOf, NodesOf, Nodes
  <2>2. Reached(s).kind = "RECORD" => Reached(s).event \in EventsOf("RECORD")
    <3> SUFFICES ASSUME Reached(s).kind = "RECORD" PROVE Reached(s).event \in EventsOf("RECORD")
      OBVIOUS
    <3>1. <<s, Off(s) + 1>> \in Nodes
      BY <1>1 DEF Nodes
    <3>2. <<s, Off(s) + 1>> \in NodesOf("RECORD")
      BY <1>1, <3>1 DEF NodesOf
    <3> QED
      BY <1>1, <3>2 DEF EventsOf
  <2> QED
    BY <2>1, <2>2 DEF IInv, TypeOK, Advance, FinishTask, Record, Wait
<1> QED
  BY <1>2, <1>3, <1>4 DEF TypeOK

LEMMA Start ==
  ASSUME Init, WellTied(graph)
  PROVE  IInv
<1>1. \A s \in Streams : Len(graph[s]) \in Nat /\ DOMAIN graph[s] = 1 .. Len(graph[s]) /\ pos[s] = 0
  BY DEF Init, WellTied, Paired
<1>2. TypeOK
  <2>1. \A s \in Streams : pos[s] <= LastPos(s)
    <3> SUFFICES ASSUME NEW s \in Streams PROVE pos[s] <= LastPos(s)
      OBVIOUS
    <3>1. Rounds * Len(graph[s]) \in Nat
      BY <1>1, EventGraphAssumption
    <3> QED
      BY <1>1, <3>1 DEF LastPos
  <2> QED
    BY <2>1 DEF Init, TypeOK
<1>3. ASSUME NEW s \in Streams, NEW a \in DOMAIN graph[s], NEW b \in DOMAIN graph[1 - s],
             Signal(graph, s, a, 1 - s, b)
      PROVE  InTurn(s, a, b)
  <2>1. 1 - s \in Streams
    BY DEF Streams
  <2>2. \A t \in Streams : \A i \in DOMAIN graph[t] : Times(t, i) = 0
    <3> SUFFICES ASSUME NEW t \in Streams, NEW i \in DOMAIN graph[t] PROVE Times(t, i) = 0
      OBVIOUS
    <3>1. Len(graph[t]) \in Nat /\ i \in 1 .. Len(graph[t]) /\ pos[t] = 0 /\ 0 = Len(graph[t]) * 0 + 0
      BY <1>1
    <3>2. Len(graph[t]) > 0 /\ 0 \in 0 .. Len(graph[t]) - 1
      BY <3>1
    <3>3. Round(t) = 0 /\ Off(t) = 0
      BY <3>1, <3>2, FirstPlace DEF Round, Off
    <3> QED
      BY <3>1, <3>3 DEF Times
  <2> QED
    BY <2>1, <2>2 DEF InTurn, Init
<1> QED
  BY <1>2, <1>3 DEF IInv, EventsInTurn

-----------------------------------------------------------------------------
LEMMA Turns ==
  ASSUME IInv, WellTied(graph)
  PROVE  BatchesTakeTurns
<1> SUFFICES ASSUME NEW s \in Streams, NEW t \in Streams, s # t, Running(s), Running(t),
                    Reached(s).unit = Reached(t).unit
             PROVE  FALSE
  BY DEF BatchesTakeTurns
<1> DEFINE i == Off(s) + 1
           j == Off(t) + 1
<1>1. t = 1 - s /\ s = 1 - t
  BY DEF Streams
<1>2. /\ i \in DOMAIN graph[s] /\ Reached(s) = graph[s][i] /\ i - 1 = Off(s)
      /\ j \in DOMAIN graph[t] /\ Reached(t) = graph[t][j] /\ j - 1 = Off(t)
  BY NextNode DEF IInv, Running
<1>3. Separated(graph, s, i, t, j) \/ Separated(graph, t, j, s, i)
  BY <1>1, <1>2 DEF WellTied, UnitsShared, Running
<1>4. Times(s, i) = Round(s) /\ Times(t, j) = Round(t) /\ Round(s) \in Nat /\ Round(t) \in Nat
  BY <1>2, TimesFacts DEF IInv
<1>5. ASSUME Separated(graph, s, i, t, j)
      PROVE  FALSE
  <2>1. Times(s, i) > Round(t)
    BY <1>2, <1>5, BeforeHolds DEF Separated
  <2>2. Times(t, j) >= Round(s)
    BY <1>2, <1>5, BeforeNextHolds DEF Separated
  <2> QED
    BY <1>4, <2>1, <2>2
<1>6. ASSUME Separated(graph, t, j, s, i)
      PROVE  FALSE
  <2>1. Times(t, j) > Round(s)
    BY <1>2, <1>6, BeforeHolds DEF Separated
  <2>2. Times(s, i) >= Round(t)
    BY <1>2, <1>6, BeforeNextHolds DEF Separated
  <2> QED
    BY <1>4, <2>1, <2>2
<1> QED
  BY <1>3, <1>5, <1>6

LEMMA Flows ==
  ASSUME IInv, WellTied(graph)
  PROVE  DataFlowKept
<1> SUFFICES ASSUME NEW s \in Streams, Running(s), NEW t \in Streams, NEW n \in DOMAIN graph[t],
                    graph[t][n].kind = "task", graph[t][n].data = Reached(s).data,
                    graph[t][n].place < Reached(s).place
             PROVE  DoneFor(s, t, n)
  BY DEF DataFlowKept, NodesOf, Nodes
<1> DEFINE j == Off(s) + 1
<1>1. j \in DOMAIN graph[s] /\ Reached(s) = graph[s][j] /\ j - 1 = Off(s) /\ graph[s][j].kind = "task"
  BY NextNode DEF IInv, Running
<1>2. IF t = s THEN n < j ELSE Before(graph, t, n, s, j)
  BY <1>1 DEF WellTied, DataOrdered
<1>3. Times(t, n) > Round(s)
  <2>1. CASE t = s
    BY <1>1, <1>2, <2>1, TimesFacts DEF IInv
  <2>2. CASE t # s
    <3>1. Before(graph, t, n, s, j)
      BY <1>2, <2>2
    <3> QED
      BY <1>1, <2>2, <3>1, BeforeHolds
  <2> QED
    BY <2>1, <2>2
<1>4. /\ Len(graph[t]) \in Nat /\ n \in 1 .. Len(graph[t]) /\ pos[t] \in Nat
      /\ Round(s) \in Nat /\ Round(t) \in Nat /\ Off(t) \in Nat
      /\ Times(t, n) = IF n <= Off(t) THEN Round(t) + 1 ELSE Round(t)
  BY <1>1, Place, TimesFacts DEF IInv
<1>5. Round(t) > Round(s) \/ (Round(t) = Round(s) /\ Off(t) >= n)
  BY <1>3, <1>4
<1>6. /\ Len(graph[t]) > 0 /\ Round(t) = pos[t] \div Len(graph[t]) /\ Off(t) = pos[t] % Len(graph[t])
  BY <1>4 DEF Round, Off
<1>7. pos[t] >= Round(s) * Len(graph[t]) + n
      <=> pos[t] \div Len(graph[t]) > Round(s) \/ (pos[t] \div Len(graph[t]) = Round(s) /\ pos[t] % Len(graph[t]) >= n)
  <2>1. Len(graph[t]) \in Nat /\ Len(graph[t]) > 0 /\ pos[t] \in Nat /\ Round(s) \in Nat /\ n \in 1 .. Len(graph[t])
    BY <1>4, <1>6
  <2> QED
    BY ONLY <2>1, PassedPlace
<1>8. pos[t] >= Round(s) * Len(graph[t]) + n
  BY <1>5, <1>6, <1>7
<1> QED
  BY <1>8 DEF DoneFor

LEMMA Kept ==
  ASSUME IInv, WellTied(graph)
  PROVE  SignalsAreKept
<1> SUFFICES ASSUME NEW s \in Streams, ~Ended(s), Reached(s).kind = "RECORD"
             PROVE  Reached(s).event \notin raised
  BY DEF SignalsAreKept
<1> DEFINE a == Off(s) + 1
<1>1. a \in DOMAIN graph[s] /\ Reached(s) = graph[s][a] /\ Off(s) = a - 1
  BY NextNode, Place DEF IInv
<1>2. PICK b \in DOMAIN graph[1 - s] : Signal(graph, s, a, 1 - s, b)
  BY <1>1 DEF WellTied, Paired
<1> QED
  BY <1>1, <1>2, NotRaised

\* Some stream can go on: at a task, at a RECORD, or at a WAIT whose event is raised.
CanGoOn(s) == ~Ended(s) /\ (Reached(s).kind = "WAIT" => Reached(s).event \in raised)
NotStuck == (\E s \in Streams : ~Ended(s)) => \E s \in Streams : CanGoOn(s)

LEMMA Goes ==
  ASSUME IInv, WellTied(graph)
  PROVE  NotStuck
<1> SUFFICES ASSUME NEW s \in Streams, ~Ended(s), \A u \in Streams : ~CanGoOn(u)
             PROVE  FALSE
  BY DEF NotStuck
<1> DEFINE t == 1 - s
           d == Off(s) + 1
<1>1. t \in Streams /\ s = 1 - t
  BY DEF Streams
<1>2. Reached(s).kind = "WAIT" /\ Reached(s).event \notin raised
  BY DEF CanGoOn
<1>3. d \in DOMAIN graph[s] /\ Reached(s) = graph[s][d] /\ Round(s) < Rounds /\ Off(s) \in Nat
  BY NextNode, Place DEF IInv
<1>4. PICK c \in DOMAIN graph[t] : Signal(graph, t, c, s, d)
  BY <1>2, <1>3 DEF WellTied, Paired
<1>5. Times(t, c) = Times(s, d) /\ Times(s, d) = Round(s) /\ Round(s) \in Nat /\ Round(t) \in Nat
  <2>1. InTurn(t, c, d) /\ graph[t][c].event = Reached(s).event
    BY <1>1, <1>3, <1>4 DEF IInv, EventsInTurn, Signal
  <2> QED
    BY <1>1, <1>2, <1>3, <2>1, TimesFacts DEF IInv, InTurn
<1>6. ~Ended(t)
  <2> SUFFICES ASSUME Ended(t) PROVE FALSE
    OBVIOUS
  <2>1. Round(t) = Rounds /\ Off(t) = 0 /\ c \in Nat /\ c > 0
    BY <1>1, <1>4, Place, TimesFacts DEF IInv
  <2> QED
    BY <1>3, <1>4, <1>5, <2>1, EventGraphAssumption DEF Times
<1> DEFINE b == Off(t) + 1
<1>7. Reached(t).kind = "WAIT" /\ Reached(t).event \notin raised
  BY <1>1, <1>6 DEF CanGoOn
<1>8. b \in DOMAIN graph[t] /\ Reached(t) = graph[t][b] /\ Off(t) \in Nat
  BY <1>1, <1>6, NextNode DEF IInv
<1>9. PICK a \in DOMAIN graph[s] : Signal(graph, s, a, t, b)
  BY <1>1, <1>7, <1>8 DEF WellTied, Paired
<1>10. Times(s, a) = Times(t, b) /\ Times(t, b) = Round(t)
  <2>1. InTurn(s, a, b) /\ graph[s][a].event = Reached(t).event
    BY <1>1, <1>8, <1>9 DEF IInv, EventsInTurn, Signal
  <2> QED
    BY <1>1, <1>7, <1>8, <1>9, <2>1, TimesFacts DEF IInv, InTurn
<1>11. a < d \/ c < b
  BY <1>3, <1>4, <1>8, <1>9 DEF WellTied, Uncrossed
<1>12. /\ Times(s, a) = IF a <= Off(s) THEN Round(s) + 1 ELSE Round(s)
       /\ Times(t, c) = IF c <= Off(t) THEN Round(t) + 1 ELSE Round(t)
       /\ a \in Nat /\ c \in Nat
  BY <1>1, <1>4, <1>9, TimesFacts DEF IInv
<1> QED
  BY <1>3, <1>5, <1>8, <1>10, <1>11, <1>12

-----------------------------------------------------------------------------
\* All graphs are tied together by their events.
Tied == \A g \in Graphs : WellTied(g)

\* However often the graph is run: a WAIT or RECORD of a stream comes as often as those before it in
\* the graph, or once less, and every signal a stream took was sent.
THEOREM Invariance == ASSUME Tied PROVE Spec => []IInv
<1>1. Init => IInv
  BY Start DEF Init, Tied
<1>2. IInv /\ [Next]_vars => IInv'
  <2> SUFFICES ASSUME IInv, [Next]_vars PROVE IInv'
    OBVIOUS
  <2>1. WellTied(graph)
    BY DEF IInv, TypeOK, Tied
  <2>2. CASE Next
    BY <2>1, <2>2, EventsStep, TypesStep DEF Next, IInv
  <2>3. CASE UNCHANGED vars
    <3>1. TypeOK'
      BY <2>3 DEF vars, IInv, TypeOK, EventsOf, NodesOf, Nodes, LastPos
    <3>2. EventsInTurn'
      BY <2>3 DEF vars, IInv, EventsInTurn, InTurn, Times, Round, Off
    <3> QED
      BY <3>1, <3>2 DEF IInv
  <2> QED
    BY <2>2, <2>3
<1> QED
  BY <1>1, <1>2, PTL DEF Spec

LEMMA Graph == ASSUME Tied PROVE IInv => WellTied(graph)
BY DEF IInv, TypeOK, Tied

\* However often a graph is run, a RECORD never raises an event that is still raised: an
\* event in the other direction (Answered) keeps the streams within a lap of each other.
THEOREM SignalsStay == ASSUME Tied PROVE Spec => []SignalsAreKept
<1>1. IInv => SignalsAreKept
  BY Graph, Kept
<1> QED
  BY <1>1, Invariance, PTL

\* However often a graph is run, the streams never use the computing units or the network at
\* the same time.
THEOREM BatchesAlternate == ASSUME Tied PROVE Spec => []BatchesTakeTurns
<1>1. IInv => BatchesTakeTurns
  BY Graph, Turns
<1> QED
  BY <1>1, Invariance, PTL

\* However often a graph is run, a task starts after all earlier tasks on the same data.
THEOREM DataFlows == ASSUME Tied PROVE Spec => []DataFlowKept
<1>1. IInv => DataFlowKept
  BY Graph, Flows
<1> QED
  BY <1>1, Invariance, PTL

\* Until all executions have ended some stream can go on: the streams never wait for each other
\* in a circle.
THEOREM NeverStuck == ASSUME Tied PROVE Spec => []NotStuck
<1>1. IInv => NotStuck
  BY Graph, Goes
<1> QED
  BY <1>1, Invariance, PTL
-----------------------------------------------------------------------------
\* The graphs of DecoderModelDap.  Every node of a stream has a label, a number that says what it is
\* and where it belongs.  The labels grow along a stream, and an event is known by its label, so
\* that the builders' calls can be followed one by one and what ties the graph is arithmetic.

\* The nodes that the builders append.
NodesFor(K) ==
    [kind : {"task"}, data : {0, 1}, unit : {"compute", "comm"}, place : Nat]
      \cup [kind : {"RECORD", "WAIT"}, event : K \X Nat]

\* The order of a stream: every node has a label and the labels never go down.  An event has a label
\* of its own, one of `has', and all of these occur; a task has a place that later tasks exceed.
Labelled(q, lab, has, top, size) ==
    /\ lab \in Seq(Nat) /\ Len(lab) = Len(q)
    /\ \A i \in 1 .. Len(q) :
         /\ lab[i] <= top
         /\ q[i].kind # "task" => lab[i] \in has
         /\ q[i].kind = "task" => q[i].place <= size
    /\ \A i, j \in 1 .. Len(q) : i < j =>
         /\ lab[i] <= lab[j]
         /\ lab[i] = lab[j] => q[i].kind = "task" /\ q[j].kind = "task"
         /\ q[i].kind = "task" /\ q[j].kind = "task" => q[i].place < q[j].place
    /\ \A l \in has : \E i \in 1 .. Len(q) : lab[i] = l /\ q[i].kind # "task"

\* Some more events is the events and some more.
LEMMA LabelledEvent ==
  ASSUME NEW K, NEW q \in Seq(NodesFor(K)), NEW lab, NEW has \in SUBSET Nat, NEW top \in Nat, NEW size \in Nat,
         Labelled(q, lab, has, top, size),
         NEW l \in Nat, top < l, NEW x \in NodesFor(K), x.kind # "task"
  PROVE  Labelled(Append(q, x), Append(lab, l), has \cup {l}, l, size + 1)
<1> DEFINE q2 == Append(q, x)
           lab2 == Append(lab, l)
           n == Len(q)
<1>1. /\ n \in Nat /\ q2 \in Seq(NodesFor(K)) /\ Len(q2) = n + 1 /\ q2[n + 1] = x
      /\ \A i \in 1 .. n : q2[i] = q[i] /\ q[i] \in NodesFor(K)
  BY AppendElements
<1>2. /\ lab2 \in Seq(Nat) /\ Len(lab2) = n + 1 /\ lab2[n + 1] = l
      /\ \A i \in 1 .. n : lab2[i] = lab[i] /\ lab[i] \in Nat
  <2>1. lab \in Seq(Nat) /\ Len(lab) = n
    BY DEF Labelled
  <2> QED
    BY <2>1, AppendElements
<1> HIDE DEF q2, lab2, n
<1>3. \A i \in 1 .. n + 1 : i \in 1 .. n \/ i = n + 1
  BY <1>1
<1>4. /\ \A i \in 1 .. n : lab[i] <= top /\ (q[i].kind # "task" => lab[i] \in has)
      /\ \A i \in 1 .. n : q[i].kind = "task" => q[i].place <= size /\ q[i].place \in Nat
  BY <1>1 DEF Labelled, n, NodesFor
<1>9. \A i, j \in 1 .. n : i < j =>
         /\ lab[i] <= lab[j]
         /\ lab[i] = lab[j] => q[i].kind = "task" /\ q[j].kind = "task"
         /\ q[i].kind = "task" /\ q[j].kind = "task" => q[i].place < q[j].place
  BY DEF Labelled, n
<1>10. \A h \in has : \E i \in 1 .. n : lab[i] = h /\ q[i].kind # "task"
  BY DEF Labelled, n
<1>8. /\ n \in Nat /\ q2[n + 1] = x /\ lab2[n + 1] = l
      /\ \A i \in 1 .. n : q2[i] = q[i] /\ lab2[i] = lab[i] /\ lab[i] \in Nat
  BY <1>1, <1>2
<1>5. \A i \in 1 .. n + 1 :
         /\ lab2[i] <= l
         /\ q2[i].kind # "task" => lab2[i] \in has \cup {l}
         /\ q2[i].kind = "task" => q2[i].place <= size + 1
  <2> SUFFICES ASSUME NEW i \in 1 .. n + 1
               PROVE  /\ lab2[i] <= l
                      /\ q2[i].kind # "task" => lab2[i] \in has \cup {l}
                      /\ q2[i].kind = "task" => q2[i].place <= size + 1
    OBVIOUS
  <2>1. CASE i \in 1 .. n
    <3>1. lab2[i] = lab[i] /\ q2[i] = q[i] /\ lab[i] \in Nat
      BY <1>8, <2>1
    <3>2. lab[i] <= top /\ (q[i].kind # "task" => lab[i] \in has)
      BY <1>4, <2>1
    <3>3. q[i].kind = "task" => q[i].place <= size + 1
      BY <1>4, <2>1
    <3> QED
      BY <3>1, <3>2, <3>3
  <2>2. CASE i = n + 1
    BY <1>8, <2>2
  <2> QED
    BY <1>3, <2>1, <2>2
<1>6. \A i, j \in 1 .. n + 1 : i < j =>
         /\ lab2[i] <= lab2[j]
         /\ lab2[i] = lab2[j] => q2[i].kind = "task" /\ q2[j].kind = "task"
         /\ q2[i].kind = "task" /\ q2[j].kind = "task" => q2[i].place < q2[j].place
  <2> SUFFICES ASSUME NEW i \in 1 .. n + 1, NEW j \in 1 .. n + 1, i < j
               PROVE  /\ lab2[i] <= lab2[j]
                      /\ lab2[i] = lab2[j] => q2[i].kind = "task" /\ q2[j].kind = "task"
                      /\ q2[i].kind = "task" /\ q2[j].kind = "task" => q2[i].place < q2[j].place
    OBVIOUS
  <2>1. i \in 1 .. n
    BY <1>8
  <2>2. CASE j \in 1 .. n
    <3>1. /\ lab2[i] = lab[i] /\ lab2[j] = lab[j] /\ q2[i] = q[i] /\ q2[j] = q[j]
      BY <1>8, <2>1, <2>2
    <3> QED
      BY <1>9, <2>1, <2>2, <3>1
  <2>3. CASE j = n + 1
    BY <1>8, <1>4, <2>1, <2>3
  <2> QED
    BY <1>3, <2>2, <2>3
<1>7. \A h \in has \cup {l} : \E i \in 1 .. n + 1 : lab2[i] = h /\ q2[i].kind # "task"
  <2> SUFFICES ASSUME NEW h \in has \cup {l} PROVE \E i \in 1 .. n + 1 : lab2[i] = h /\ q2[i].kind # "task"
    OBVIOUS
  <2>1. CASE h = l
    BY <1>8, <2>1
  <2>2. CASE h \in has
    <3>1. PICK i \in 1 .. n : lab[i] = h /\ q[i].kind # "task"
      BY <1>10, <2>2
    <3>2. i \in 1 .. n + 1 /\ lab2[i] = h /\ q2[i].kind # "task"
      BY <1>8, <3>1
    <3> QED
      BY <3>2
  <2> QED
    BY <2>1, <2>2
<1> QED
  BY <1>1, <1>2, <1>5, <1>6, <1>7 DEF Labelled, q2, lab2

LEMMA LabelledTask ==
  ASSUME NEW K, NEW q \in Seq(NodesFor(K)), NEW lab, NEW has \in SUBSET Nat, NEW top \in Nat, NEW size \in Nat,
         Labelled(q, lab, has, top, size),
         NEW l \in Nat, top <= l, l \notin has, NEW x \in NodesFor(K), x.kind = "task", x.place = size + 1
  PROVE  Labelled(Append(q, x), Append(lab, l), has, l, size + 1)
<1> DEFINE q2 == Append(q, x)
           lab2 == Append(lab, l)
           n == Len(q)
<1>1. /\ n \in Nat /\ q2 \in Seq(NodesFor(K)) /\ Len(q2) = n + 1 /\ q2[n + 1] = x
      /\ \A i \in 1 .. n : q2[i] = q[i] /\ q[i] \in NodesFor(K)
  BY AppendElements
<1>2. /\ lab2 \in Seq(Nat) /\ Len(lab2) = n + 1 /\ lab2[n + 1] = l
      /\ \A i \in 1 .. n : lab2[i] = lab[i] /\ lab[i] \in Nat
  <2>1. lab \in Seq(Nat) /\ Len(lab) = n
    BY DEF Labelled
  <2> QED
    BY <2>1, AppendElements
<1> HIDE DEF q2, lab2, n
<1>3. \A i \in 1 .. n + 1 : i \in 1 .. n \/ i = n + 1
  BY <1>1
<1>4. /\ \A i \in 1 .. n : lab[i] <= top /\ (q[i].kind # "task" => lab[i] \in has)
      /\ \A i \in 1 .. n : q[i].kind = "task" => q[i].place <= size /\ q[i].place \in Nat
  BY <1>1 DEF Labelled, n, NodesFor
<1>9. \A i, j \in 1 .. n : i < j =>
         /\ lab[i] <= lab[j]
         /\ lab[i] = lab[j] => q[i].kind = "task" /\ q[j].kind = "task"
         /\ q[i].kind = "task" /\ q[j].kind = "task" => q[i].place < q[j].place
  BY DEF Labelled, n
<1>10. \A h \in has : \E i \in 1 .. n : lab[i] = h /\ q[i].kind # "task"
  BY DEF Labelled, n
<1>8. /\ n \in Nat /\ q2[n + 1] = x /\ lab2[n + 1] = l
      /\ \A i \in 1 .. n : q2[i] = q[i] /\ lab2[i] = lab[i] /\ lab[i] \in Nat
  BY <1>1, <1>2
<1>5. \A i \in 1 .. n + 1 :
         /\ lab2[i] <= l
         /\ q2[i].kind # "task" => lab2[i] \in has
         /\ q2[i].kind = "task" => q2[i].place <= size + 1
  <2> SUFFICES ASSUME NEW i \in 1 .. n + 1
               PROVE  /\ lab2[i] <= l
                      /\ q2[i].kind # "task" => lab2[i] \in has
                      /\ q2[i].kind = "task" => q2[i].place <= size + 1
    OBVIOUS
  <2>1. CASE i \in 1 .. n
    <3>1. q2[i] = q[i] /\ lab2[i] = lab[i] /\ lab[i] \in Nat
      BY <1>8, <2>1
    <3>2. /\ lab[i] <= top /\ (q[i].kind # "task" => lab[i] \in has)
          /\ q[i].kind = "task" => q[i].place <= size /\ q[i].place \in Nat
      BY <1>4, <2>1
    <3> QED
      BY <3>1, <3>2
  <2>2. CASE i = n + 1
    BY <1>8, <2>2
  <2> QED
    BY <1>3, <2>1, <2>2
<1>6. \A i, j \in 1 .. n + 1 : i < j =>
         /\ lab2[i] <= lab2[j]
         /\ lab2[i] = lab2[j] => q2[i].kind = "task" /\ q2[j].kind = "task"
         /\ q2[i].kind = "task" /\ q2[j].kind = "task" => q2[i].place < q2[j].place
  <2> SUFFICES ASSUME NEW i \in 1 .. n + 1, NEW j \in 1 .. n + 1, i < j
               PROVE  /\ lab2[i] <= lab2[j]
                      /\ lab2[i] = lab2[j] => q2[i].kind = "task" /\ q2[j].kind = "task"
                      /\ q2[i].kind = "task" /\ q2[j].kind = "task" => q2[i].place < q2[j].place
    OBVIOUS
  <2>1. i \in 1 .. n
    BY <1>8
  <2>2. CASE j \in 1 .. n
    <3>1. /\ lab2[i] = lab[i] /\ lab2[j] = lab[j] /\ q2[i] = q[i] /\ q2[j] = q[j]
      BY <1>8, <2>1, <2>2
    <3> QED
      BY <1>9, <2>1, <2>2, <3>1
  <2>3. CASE j = n + 1
    <3>1. /\ lab2[i] = lab[i] /\ lab2[j] = l /\ q2[i] = q[i] /\ q2[j] = x /\ lab[i] \in Nat
      BY <1>8, <2>1, <2>3
    <3>2. lab[i] <= top /\ (q[i].kind # "task" => lab[i] \in has)
      BY <1>4, <2>1
    <3>3. lab2[i] = lab2[j] => q2[i].kind = "task" /\ q2[j].kind = "task"
      BY <3>1, <3>2
    <3>4. q2[i].kind = "task" => q2[i].place < q2[j].place
      BY <1>4, <2>1, <3>1
    <3> QED
      BY <3>1, <3>2, <3>3, <3>4
  <2> QED
    BY <1>3, <2>2, <2>3
<1>7. \A h \in has : \E i \in 1 .. n + 1 : lab2[i] = h /\ q2[i].kind # "task"
  <2> SUFFICES ASSUME NEW h \in has PROVE \E i \in 1 .. n + 1 : lab2[i] = h /\ q2[i].kind # "task"
    OBVIOUS
  <2>1. PICK i \in 1 .. n : lab[i] = h /\ q[i].kind # "task"
    BY <1>10
  <2>2. i \in 1 .. n + 1 /\ lab2[i] = h /\ q2[i].kind # "task"
    BY <1>8, <2>1
  <2> QED
    BY <2>2
<1>11. Labelled(q2, lab2, has, l, size + 1)
  BY <1>1, <1>2, <1>5, <1>6, <1>7 DEF Labelled
<1> QED
  BY <1>11 DEF q2, lab2

\* How labels tie a graph: `sends' has, per stream, the labels of the two nodes of every event that
\* the stream records for the other one, and `lab' the label of every node.
TiedByLabels(g, lab, sends) ==
    /\ \A s \in Streams : /\ Len(g[s]) \in Nat /\ DOMAIN g[s] = 1 .. Len(g[s])
                          /\ \A i \in 1 .. Len(g[s]) : lab[s][i] \in Nat
    /\ \A s \in Streams : \A i, j \in 1 .. Len(g[s]) : lab[s][i] < lab[s][j] => i < j
    /\ \A s \in Streams : sends[s] \subseteq Nat \X Nat
    /\ \A s \in Streams : \A a \in 1 .. Len(g[s]), b \in 1 .. Len(g[1 - s]) :
         Signal(g, s, a, 1 - s, b) => <<lab[s][a], lab[1 - s][b]>> \in sends[s]
    /\ \A s \in Streams : \A e \in sends[s] :
         \E a \in 1 .. Len(g[s]), b \in 1 .. Len(g[1 - s]) :
            Signal(g, s, a, 1 - s, b) /\ lab[s][a] = e[1] /\ lab[1 - s][b] = e[2]

\* An event between two labels orders the nodes before the one and after the other.
LEMMA BeforeByLabels ==
  ASSUME NEW g, NEW lab, NEW sends, TiedByLabels(g, lab, sends), NEW s \in Streams,
         NEW i \in 1 .. Len(g[s]), NEW j \in 1 .. Len(g[1 - s]), NEW e \in sends[s],
         lab[s][i] < e[1], e[2] < lab[1 - s][j]
  PROVE  Before(g, s, i, 1 - s, j)
<1>1. 1 - s \in Streams
  BY DEF Streams
<1>2. PICK a \in 1 .. Len(g[s]), b \in 1 .. Len(g[1 - s]) :
         Signal(g, s, a, 1 - s, b) /\ lab[s][a] = e[1] /\ lab[1 - s][b] = e[2]
  BY DEF TiedByLabels
<1>3. i < a /\ b < j
  BY <1>1, <1>2 DEF TiedByLabels
<1>4. a \in DOMAIN g[s] /\ b \in DOMAIN g[1 - s]
  BY <1>1, <1>2 DEF TiedByLabels
<1> QED
  BY <1>2, <1>3, <1>4 DEF Before

\* An event that comes after the one, or before the other, orders them in the next execution.
LEMMA NextByLabels ==
  ASSUME NEW g, NEW lab, NEW sends, TiedByLabels(g, lab, sends), NEW s \in Streams,
         NEW i \in 1 .. Len(g[s]), NEW j \in 1 .. Len(g[1 - s]), NEW e \in sends[s],
         lab[s][i] < e[1] \/ e[2] < lab[1 - s][j]
  PROVE  BeforeNext(g, s, i, 1 - s, j)
<1>1. 1 - s \in Streams
  BY DEF Streams
<1>2. PICK a \in 1 .. Len(g[s]), b \in 1 .. Len(g[1 - s]) :
         Signal(g, s, a, 1 - s, b) /\ lab[s][a] = e[1] /\ lab[1 - s][b] = e[2]
  BY DEF TiedByLabels
<1>3. i < a \/ b < j
  BY <1>1, <1>2 DEF TiedByLabels
<1>4. a \in DOMAIN g[s] /\ b \in DOMAIN g[1 - s]
  BY <1>1, <1>2 DEF TiedByLabels
<1> QED
  BY <1>2, <1>3, <1>4 DEF BeforeNext

\* The streams neither cross nor lose a signal when the labels of the events say so.
LEMMA AnsweredByLabels ==
  ASSUME NEW g, NEW lab, NEW sends, TiedByLabels(g, lab, sends),
         \A s \in Streams : \A e \in sends[s] : \E f \in sends[1 - s] : e[2] < f[1] \/ f[2] < e[1]
  PROVE  Answered(g)
<1> SUFFICES ASSUME NEW s \in Streams, NEW a \in DOMAIN g[s], NEW b \in DOMAIN g[1 - s],
                    Signal(g, s, a, 1 - s, b)
             PROVE  BeforeNext(g, 1 - s, b, s, a)
  BY DEF Answered
<1> DEFINE t == 1 - s
           e == <<lab[s][a], lab[t][b]>>
<1>1. t \in Streams /\ 1 - t = s /\ a \in 1 .. Len(g[s]) /\ b \in 1 .. Len(g[t])
  BY DEF Streams, TiedByLabels
<1>2. e \in sends[s]
  BY <1>1 DEF TiedByLabels
<1>3. PICK f \in sends[t] : e[2] < f[1] \/ f[2] < e[1]
  BY <1>2
<1>4. lab[t][b] < f[1] \/ f[2] < lab[1 - t][a]
  BY <1>1, <1>3
<1>5. a \in 1 .. Len(g[1 - t])
  BY <1>1
<1> HIDE DEF t
<1>6. BeforeNext(g, t, b, 1 - t, a)
  BY <1>1, <1>3, <1>4, <1>5, NextByLabels
<1> QED
  BY <1>1, <1>6 DEF t

LEMMA UncrossedByLabels ==
  ASSUME NEW g, NEW lab, NEW sends, TiedByLabels(g, lab, sends),
         \A s \in Streams : \A e \in sends[s] : \A f \in sends[1 - s] : e[1] < f[2] \/ f[1] < e[2]
  PROVE  Uncrossed(g)
<1> SUFFICES ASSUME NEW s \in Streams, NEW a \in DOMAIN g[s], NEW b \in DOMAIN g[1 - s],
                    Signal(g, s, a, 1 - s, b), NEW c \in DOMAIN g[1 - s], NEW d \in DOMAIN g[s],
                    Signal(g, 1 - s, c, s, d)
             PROVE  a < d \/ c < b
  BY DEF Uncrossed
<1> DEFINE t == 1 - s
           e == <<lab[s][a], lab[t][b]>>
           f == <<lab[t][c], lab[s][d]>>
<1>1. /\ t \in Streams /\ 1 - t = s /\ a \in 1 .. Len(g[s]) /\ b \in 1 .. Len(g[t])
      /\ c \in 1 .. Len(g[t]) /\ d \in 1 .. Len(g[s])
  <2>1. t \in Streams /\ 1 - t = s
    BY DEF Streams
  <2>2. \A r \in Streams : DOMAIN g[r] = 1 .. Len(g[r])
    BY DEF TiedByLabels
  <2> QED
    BY <2>1, <2>2
<1>2. e \in sends[s]
  BY <1>1 DEF TiedByLabels
<1>3. f \in sends[t]
  BY <1>1 DEF TiedByLabels
<1>4. e[1] < f[2] \/ f[1] < e[2]
  BY <1>2, <1>3
<1>5. lab[s][a] < lab[s][d] \/ lab[t][c] < lab[t][b]
  BY <1>4
<1> QED
  BY <1>1, <1>5 DEF TiedByLabels

LEMMA PairParts ==
  ASSUME NEW a, NEW b, NEW c, NEW d, <<a, b>> = <<c, d>>
  PROVE  a = c /\ b = d
<1>1. <<a, b>>[1] = <<c, d>>[1] /\ <<a, b>>[2] = <<c, d>>[2]
  OBVIOUS
<1> QED
  BY <1>1

DapKeys == {"compute", "comm", "end"}

\* The events of batch s around its n-th communication, in their order: it records the end of the
\* computation before, waits for the other batch's communication, communicates (3), records that, and
\* waits for the other batch's computation.  After the last communication comes the end (6, 7).
DapSlots == {1, 2, 4, 5, 6, 7}
DapEvent(s, n, r) ==
    CASE r = 1 -> [kind |-> "RECORD", event |-> <<"compute", 2 * n - 1 + s>>]
      [] r = 2 -> [kind |-> "WAIT", event |-> <<"comm", 2 * n - 2 + s>>]
      [] r = 4 -> [kind |-> "RECORD", event |-> <<"comm", 2 * n - 1 + s>>]
      [] r = 5 -> [kind |-> "WAIT", event |-> <<"compute", 2 * n + s>>]
      [] r = 6 -> [kind |-> "RECORD", event |-> IF s = 0 THEN <<"compute", 2 * n - 1>> ELSE <<"end", 1>>]
      [] r = 7 -> [kind |-> "WAIT", event |-> <<"end", 1>>]

\* The events of a batch with m communications, without and with those at the end.
Around(s, m, n, r) ==
    \/ n \in 1 .. m /\ r \in {1, 4, 5}
    \/ n \in 2 - s .. m /\ r = 2
    \/ s = 1 /\ n = 0 /\ r = 5
AtEnd(s, m, n, r) ==
    \/ n = m + 1 /\ s = 0 /\ r \in {2, 7}
    \/ n = m + 1 /\ r = 6
Occurs(s, m, n, r) == Around(s, m, n, r) \/ AtEnd(s, m, n, r)
BodySlots == {1, 2, 4, 5}
Body(s, m) == {l \in Nat : \E n \in Nat, r \in BodySlots : l = 8 * n + r /\ Around(s, m, n, r)}
Whole(s, m) ==
    {l \in Nat : \E n \in Nat, r \in {1, 2, 4, 5, 6, 7} :
        l = 8 * n + r /\ Occurs(s, m, n, r)}

\* What a node with label l is.
DapFits(s, m, l, x) ==
    \/ \E n \in 1 .. m + 1 : l = 8 * n /\ x.kind = "task" /\ x.unit = "compute" /\ x.data = s
    \/ \E n \in 1 .. m : l = 8 * n + 3 /\ x.kind = "task" /\ x.unit = "comm" /\ x.data = s
    \/ \E n \in Nat, r \in {1, 2, 4, 5, 6, 7} : l = 8 * n + r /\ x = DapEvent(s, n, r)

DapStream(q, lab, s, m, has, top, size) ==
    /\ q \in Seq(NodesFor(DapKeys))
    /\ Labelled(q, lab, has, top, size)
    /\ \A i \in 1 .. Len(q) : DapFits(s, m, lab[i], q[i])

\* The labels of the two nodes of an event.
DapSends(m) ==
    [s \in Streams |->
        {e \in Nat \X Nat :
          \/ \E n \in 1 .. m : e = IF s = 0 THEN <<8 * n + 1, 8 * (n - 1) + 5>> ELSE <<8 * n + 1, 8 * n + 5>>
          \/ \E n \in 1 .. m : e = IF s = 0 THEN <<8 * n + 4, 8 * n + 2>> ELSE <<8 * n + 4, 8 * (n + 1) + 2>>
          \/ e = IF s = 0 THEN <<8 * (m + 1) + 6, 8 * m + 5>> ELSE <<8 * (m + 1) + 6, 8 * (m + 1) + 7>>}]

\* Node i of stream s is the event r of round n.
IsDapEvent(g, lab, s, i, n, r) == lab[s][i] = 8 * n + r /\ g[s][i] = DapEvent(s, n, r)
HasDapEvent(g, lab, s, n, r) == \E i \in 1 .. Len(g[s]) : IsDapEvent(g, lab, s, i, n, r)

\* A graph of both batches.
DapGraph(g, lab, m) ==
    /\ DOMAIN g = Streams
    /\ \A s \in Streams :
         \E top \in Nat, size \in Nat : DapStream(g[s], lab[s], s, m, Whole(s, m), top, size)
-----------------------------------------------------------------------------
\* Streams as they are.
LEMMA DapOrder ==
  ASSUME NEW m \in Nat, NEW g, NEW lab, DapGraph(g, lab, m), NEW s \in Streams
  PROVE  /\ g[s] \in Seq(NodesFor(DapKeys)) /\ Len(g[s]) \in Nat /\ DOMAIN g[s] = 1 .. Len(g[s])
         /\ \A i \in 1 .. Len(g[s]) : lab[s][i] \in Nat /\ g[s][i] \in NodesFor(DapKeys)
         /\ \A i, j \in 1 .. Len(g[s]) : lab[s][i] < lab[s][j] => i < j
         /\ \A i, j \in 1 .. Len(g[s]) : lab[s][i] = lab[s][j] /\ g[s][i].kind # "task" => i = j
         /\ \A i, j \in 1 .. Len(g[s]) :
              g[s][i].kind = "task" /\ g[s][j].kind = "task" /\ g[s][i].place < g[s][j].place => i < j
<1>1. PICK top \in Nat, size \in Nat : DapStream(g[s], lab[s], s, m, Whole(s, m), top, size)
  BY DEF DapGraph
<1> DEFINE q == g[s]
           lb == lab[s]
<1>2. /\ q \in Seq(NodesFor(DapKeys)) /\ lb \in Seq(Nat) /\ Len(lb) = Len(q) /\ Len(q) \in Nat
      /\ DOMAIN q = 1 .. Len(q)
  BY <1>1 DEF DapStream, Labelled
<1>3. \A i \in 1 .. Len(q) : lb[i] \in Nat /\ q[i] \in NodesFor(DapKeys)
  BY <1>2
<1>4. \A i, j \in 1 .. Len(q) : i < j =>
         /\ lb[i] <= lb[j]
         /\ lb[i] = lb[j] => q[i].kind = "task" /\ q[j].kind = "task"
         /\ q[i].kind = "task" /\ q[j].kind = "task" => q[i].place < q[j].place
  BY <1>1 DEF DapStream, Labelled
<1> HIDE DEF q, lb
<1>5. \A i, j \in 1 .. Len(q) : i < j \/ i = j \/ j < i
  BY <1>2
<1>6. \A i, j \in 1 .. Len(q) : lb[i] < lb[j] => i < j
  BY <1>3, <1>4, <1>5
<1>7. \A i, j \in 1 .. Len(q) : lb[i] = lb[j] /\ q[i].kind # "task" => i = j
  BY <1>3, <1>4, <1>5
<1>8. \A i \in 1 .. Len(q) : q[i].kind = "task" => q[i].place \in Nat
  BY <1>3 DEF NodesFor
<1>9. \A i, j \in 1 .. Len(q) :
              q[i].kind = "task" /\ q[j].kind = "task" /\ q[i].place < q[j].place => i < j
  BY <1>4, <1>5, <1>8
<1> QED
  BY <1>2, <1>3, <1>6, <1>7, <1>9 DEF q, lb

\* An event of a stream is the one of its label.
LEMMA DapEventAt ==
  ASSUME NEW m \in Nat, NEW g, NEW lab, DapGraph(g, lab, m), NEW s \in Streams,
         NEW i \in 1 .. Len(g[s]), g[s][i].kind # "task"
  PROVE  \E n \in Nat, r \in DapSlots :
            IsDapEvent(g, lab, s, i, n, r) /\ Occurs(s, m, n, r)
<1>1. PICK top \in Nat, size \in Nat : DapStream(g[s], lab[s], s, m, Whole(s, m), top, size)
  BY DEF DapGraph
<1>2. PICK n \in Nat, r \in DapSlots : lab[s][i] = 8 * n + r /\ g[s][i] = DapEvent(s, n, r)
  BY <1>1 DEF DapStream, DapFits, DapSlots
<1>3. lab[s][i] \in Whole(s, m)
  BY <1>1 DEF DapStream, Labelled
<1>4. PICK k \in Nat, t \in DapSlots :
        lab[s][i] = 8 * k + t /\ Occurs(s, m, k, t)
  BY <1>3 DEF Whole, DapSlots
<1>5. n = k /\ r = t
  <2>1. r \in 0 .. 7 /\ t \in 0 .. 7 /\ 8 * n + r = 8 * k + t
    BY <1>2, <1>4 DEF DapSlots
  <2>2. ~(n < k)
    <3> SUFFICES ASSUME n < k PROVE FALSE
      OBVIOUS
    <3>1. 8 * n + 8 <= 8 * k
      OBVIOUS
    <3> QED
      BY <2>1, <3>1
  <2>3. ~(k < n)
    <3> SUFFICES ASSUME k < n PROVE FALSE
      OBVIOUS
    <3>1. 8 * k + 8 <= 8 * n
      OBVIOUS
    <3> QED
      BY <2>1, <3>1
  <2> QED
    BY <2>1, <2>2, <2>3
<1> QED
  BY <1>2, <1>4, <1>5 DEF IsDapEvent

\* Every event occurs.
LEMMA DapEventOccurs ==
  ASSUME NEW m \in Nat, NEW g, NEW lab, DapGraph(g, lab, m), NEW s \in Streams,
         NEW n \in Nat, NEW r \in DapSlots, Occurs(s, m, n, r)
  PROVE  HasDapEvent(g, lab, s, n, r)
<1>1. PICK top \in Nat, size \in Nat : DapStream(g[s], lab[s], s, m, Whole(s, m), top, size)
  BY DEF DapGraph
<1>2. 8 * n + r \in Whole(s, m)
  BY DEF Whole, DapSlots
<1>3. PICK i \in 1 .. Len(g[s]) : lab[s][i] = 8 * n + r /\ g[s][i].kind # "task"
  BY <1>1, <1>2 DEF DapStream, Labelled
<1>4. PICK k \in Nat, t \in DapSlots : IsDapEvent(g, lab, s, i, k, t)
  BY <1>3, DapEventAt
<1>5. n = k /\ r = t
  <2>1. 8 * n + r = 8 * k + t
    BY <1>3, <1>4 DEF IsDapEvent
  <2>2. r \in 0 .. 7 /\ t \in 0 .. 7
    BY DEF DapSlots
  <2>3. ~(n < k)
    <3> SUFFICES ASSUME n < k PROVE FALSE
      OBVIOUS
    <3>1. 8 * n + 8 <= 8 * k
      OBVIOUS
    <3> QED
      BY <2>1, <2>2, <3>1
  <2>4. ~(k < n)
    <3> SUFFICES ASSUME k < n PROVE FALSE
      OBVIOUS
    <3>1. 8 * k + 8 <= 8 * n
      OBVIOUS
    <3> QED
      BY <2>1, <2>2, <3>1
  <2>5. n = k
    BY <2>3, <2>4
  <2> QED
    BY <2>1, <2>2, <2>5
<1> QED
  BY <1>3, <1>4, <1>5 DEF HasDapEvent

\* A task.
LEMMA DapTaskAt ==
  ASSUME NEW m \in Nat, NEW g, NEW lab, DapGraph(g, lab, m), NEW s \in Streams,
         NEW i \in 1 .. Len(g[s]), g[s][i].kind = "task"
  PROVE  /\ g[s][i].data = s
         /\ \/ g[s][i].unit = "compute" /\ \E n \in 1 .. m + 1 : lab[s][i] = 8 * n
            \/ g[s][i].unit = "comm" /\ \E n \in 1 .. m : lab[s][i] = 8 * n + 3
<1>1. DapFits(s, m, lab[s][i], g[s][i])
  BY DEF DapGraph, DapStream
<1>2. \A n \in Nat, r \in DapSlots : DapEvent(s, n, r).kind # "task"
  BY DEF DapEvent, DapSlots
<1> QED
  BY <1>1, <1>2 DEF DapFits, DapSlots

\* Each of the events, by its labels.
LEMMA DapSendsHas ==
  ASSUME NEW m \in Nat
  PROVE  /\ \A n \in 1 .. m : /\ <<8 * n + 1, 8 * (n - 1) + 5>> \in DapSends(m)[0]
                              /\ <<8 * n + 4, 8 * n + 2>> \in DapSends(m)[0]
                              /\ <<8 * n + 1, 8 * n + 5>> \in DapSends(m)[1]
                              /\ <<8 * n + 4, 8 * (n + 1) + 2>> \in DapSends(m)[1]
         /\ <<8 * (m + 1) + 6, 8 * m + 5>> \in DapSends(m)[0]
         /\ <<8 * (m + 1) + 6, 8 * (m + 1) + 7>> \in DapSends(m)[1]
<1>1. 0 \in Streams /\ 1 \in Streams
  BY DEF Streams
<1>2. ASSUME NEW n \in 1 .. m
      PROVE  /\ <<8 * n + 1, 8 * (n - 1) + 5>> \in DapSends(m)[0]
             /\ <<8 * n + 4, 8 * n + 2>> \in DapSends(m)[0]
             /\ <<8 * n + 1, 8 * n + 5>> \in DapSends(m)[1]
             /\ <<8 * n + 4, 8 * (n + 1) + 2>> \in DapSends(m)[1]
  <2>1. /\ 8 * n + 1 \in Nat /\ 8 * (n - 1) + 5 \in Nat /\ 8 * n + 4 \in Nat /\ 8 * n + 2 \in Nat
        /\ 8 * n + 5 \in Nat /\ 8 * (n + 1) + 2 \in Nat
    OBVIOUS
  <2>2. <<8 * n + 1, 8 * (n - 1) + 5>> \in DapSends(m)[0]
    BY <1>1, <2>1 DEF DapSends
  <2>3. <<8 * n + 4, 8 * n + 2>> \in DapSends(m)[0]
    BY <1>1, <2>1 DEF DapSends
  <2>4. <<8 * n + 1, 8 * n + 5>> \in DapSends(m)[1]
    BY <1>1, <2>1 DEF DapSends
  <2>5. <<8 * n + 4, 8 * (n + 1) + 2>> \in DapSends(m)[1]
    BY <1>1, <2>1 DEF DapSends
  <2> QED
    BY <2>2, <2>3, <2>4, <2>5
<1>3. <<8 * (m + 1) + 6, 8 * m + 5>> \in DapSends(m)[0]
  BY <1>1 DEF DapSends
<1>4. <<8 * (m + 1) + 6, 8 * (m + 1) + 7>> \in DapSends(m)[1]
  BY <1>1 DEF DapSends
<1> QED
  BY <1>2, <1>3, <1>4

\* The labels of a signal.
LEMMA DapSignals ==
  ASSUME NEW m \in Nat, m > 0, NEW g, NEW lab, DapGraph(g, lab, m), NEW s \in Streams,
         NEW a \in 1 .. Len(g[s]), NEW b \in 1 .. Len(g[1 - s]), Signal(g, s, a, 1 - s, b)
  PROVE  <<lab[s][a], lab[1 - s][b]>> \in DapSends(m)[s]
<1>0. PICK t \in Streams : t = 1 - s
  BY DEF Streams
<1>1. t \in Streams /\ s \in {0, 1} /\ b \in 1 .. Len(g[t])
  BY <1>0 DEF Streams
<1>2. g[s][a].kind = "RECORD" /\ g[t][b].kind = "WAIT" /\ g[s][a].event = g[t][b].event
  BY <1>0 DEF Signal
<1>10. PICK n \in Nat, r \in DapSlots : IsDapEvent(g, lab, s, a, n, r) /\ Occurs(s, m, n, r)
  <2>1. g[s][a].kind # "task"
    BY <1>2
  <2> QED
    BY <2>1, DapEventAt
<1>11. PICK k \in Nat, u \in DapSlots : IsDapEvent(g, lab, t, b, k, u) /\ Occurs(t, m, k, u)
  <2>1. g[t][b].kind # "task" /\ b \in 1 .. Len(g[t])
    BY <1>1, <1>2
  <2> QED
    BY <1>1, <2>1, DapEventAt
<1>3. lab[s][a] = 8 * n + r /\ g[s][a] = DapEvent(s, n, r) /\ Occurs(s, m, n, r)
  BY <1>10 DEF IsDapEvent
<1>4. lab[t][b] = 8 * k + u /\ g[t][b] = DapEvent(t, k, u) /\ Occurs(t, m, k, u)
  BY <1>11 DEF IsDapEvent
<1>5. r \in {1, 4, 6}
  BY <1>2, <1>3 DEF DapEvent, DapSlots
<1>6. u \in {2, 5, 7}
  BY <1>2, <1>4 DEF DapEvent, DapSlots
<1>7. DapEvent(s, n, r).event = DapEvent(t, k, u).event
  BY <1>2, <1>3, <1>4
<1>8. CASE s = 0
  <2>0. t = 1
    BY <1>0, <1>8
  <2>1. CASE r = 1
    <3>1. u = 5 /\ 2 * n - 1 = 2 * k + 1
      <4>1. DapEvent(s, n, r).event = <<"compute", 2 * n - 1>>
        BY <1>8, <2>1 DEF DapEvent
      <4>2. CASE u = 5
        BY <2>0, <1>7, <1>8, <2>1, <4>1, <4>2 DEF DapEvent
      <4>3. CASE u = 2
        BY <2>0, <1>7, <1>8, <2>1, <4>1, <4>3 DEF DapEvent
      <4>4. CASE u = 7
        <5>1. DapEvent(t, k, u).event = <<"end", 1>>
          BY <4>4 DEF DapEvent
        <5>2. <<"compute", 2 * n - 1>> = <<"end", 1>>
          BY <1>7, <4>1, <5>1
        <5>3. "compute" = "end" /\ 2 * n - 1 = 1
          BY <5>2, PairParts
        <5> QED
          BY <5>3
      <4> QED
        BY <1>6, <4>2, <4>3, <4>4
    <3>2. n \in 1 .. m
      BY <1>3, <2>1 DEF Occurs, Around, AtEnd
    <3>3. k = n - 1
      BY <3>1
    <3>4. lab[s][a] = 8 * n + 1 /\ lab[t][b] = 8 * k + 5
      BY <1>3, <1>4, <2>1, <3>1
    <3> QED
      BY <1>8, <3>2, <3>3, <3>4, <1>0, DapSendsHas
  <2>2. CASE r = 4
    <3>1. u = 2 /\ k = n /\ n \in 1 .. m
      <4>1. DapEvent(s, n, r).event = <<"comm", 2 * n - 1>>
        BY <1>8, <2>2 DEF DapEvent
      <4>2. CASE u = 2
        <5>1. DapEvent(t, k, u).event = <<"comm", 2 * k - 1>>
          BY <2>0, <4>2 DEF DapEvent
        <5>2. <<"comm", 2 * n - 1>> = <<"comm", 2 * k - 1>>
          BY <1>7, <4>1, <5>1
        <5>3. "comm" = "comm" /\ 2 * n - 1 = 2 * k - 1
          BY <5>2, PairParts
        <5>4. n \in 1 .. m
          BY <1>3, <2>2 DEF Occurs, Around, AtEnd
        <5> QED
          BY <4>2, <5>3, <5>4
      <4>3. CASE u = 5
        <5>1. DapEvent(t, k, u).event = <<"compute", 2 * k + 1>>
          BY <2>0, <4>3 DEF DapEvent
        <5>2. <<"comm", 2 * n - 1>> = <<"compute", 2 * k + 1>>
          BY <1>7, <4>1, <5>1
        <5>3. "comm" = "compute" /\ 2 * n - 1 = 2 * k + 1
          BY <5>2, PairParts
        <5> QED
          BY <5>3
      <4>4. CASE u = 7
        <5>1. DapEvent(t, k, u).event = <<"end", 1>>
          BY <4>4 DEF DapEvent
        <5>2. <<"comm", 2 * n - 1>> = <<"end", 1>>
          BY <1>7, <4>1, <5>1
        <5>3. "comm" = "end" /\ 2 * n - 1 = 1
          BY <5>2, PairParts
        <5> QED
          BY <5>3
      <4> QED
        BY <1>6, <4>2, <4>3, <4>4
    <3>2. lab[s][a] = 8 * n + 4 /\ lab[t][b] = 8 * n + 2
      BY <1>3, <1>4, <2>2, <3>1
    <3> QED
      BY <1>8, <3>1, <3>2, <1>0, DapSendsHas
  <2>3. CASE r = 6
    <3>1. u = 5 /\ k = m /\ n = m + 1
      <4>0. n = m + 1
        BY <1>3, <2>3 DEF Occurs, Around, AtEnd
      <4>1. DapEvent(s, n, r).event = <<"compute", 2 * n - 1>>
        BY <1>8, <2>3 DEF DapEvent
      <4>2. CASE u = 5
        <5>1. DapEvent(t, k, u).event = <<"compute", 2 * k + 1>>
          BY <2>0, <4>2 DEF DapEvent
        <5>2. <<"compute", 2 * n - 1>> = <<"compute", 2 * k + 1>>
          BY <1>7, <4>1, <5>1
        <5>3. "compute" = "compute" /\ 2 * n - 1 = 2 * k + 1
          BY <5>2, PairParts
        <5> QED
          BY <4>0, <4>2, <5>3
      <4>3. CASE u = 2
        <5>1. DapEvent(t, k, u).event = <<"comm", 2 * k - 1>>
          BY <2>0, <4>3 DEF DapEvent
        <5>2. <<"compute", 2 * n - 1>> = <<"comm", 2 * k - 1>>
          BY <1>7, <4>1, <5>1
        <5>3. "compute" = "comm" /\ 2 * n - 1 = 2 * k - 1
          BY <5>2, PairParts
        <5> QED
          BY <5>3
      <4>4. CASE u = 7
        <5>1. DapEvent(t, k, u).event = <<"end", 1>>
          BY <4>4 DEF DapEvent
        <5>2. <<"compute", 2 * n - 1>> = <<"end", 1>>
          BY <1>7, <4>1, <5>1
        <5>3. "compute" = "end" /\ 2 * n - 1 = 1
          BY <5>2, PairParts
        <5> QED
          BY <5>3
      <4> QED
        BY <1>6, <4>2, <4>3, <4>4
    <3>2. lab[s][a] = 8 * (m + 1) + 6 /\ lab[t][b] = 8 * m + 5
      BY <1>3, <1>4, <2>3, <3>1
    <3> QED
      BY <1>8, <3>2, <1>0, DapSendsHas
  <2> QED
    BY <1>5, <2>1, <2>2, <2>3
<1>9. CASE s = 1
  <2>0. t = 0
    BY <1>0, <1>9
  <2>1. CASE r = 1
    <3>1. u = 5 /\ 2 * n = 2 * k
      <4>1. DapEvent(s, n, r).event = <<"compute", 2 * n>>
        BY <1>9, <2>1 DEF DapEvent
      <4>2. CASE u = 5
        <5>1. DapEvent(t, k, u).event = <<"compute", 2 * k>>
          BY <2>0, <4>2 DEF DapEvent
        <5>2. <<"compute", 2 * n>> = <<"compute", 2 * k>>
          BY <1>7, <4>1, <5>1
        <5>3. "compute" = "compute" /\ 2 * n = 2 * k
          BY <5>2, PairParts
        <5> QED
          BY <5>3, <4>2
      <4>3. CASE u = 2
        <5>1. DapEvent(t, k, u).event = <<"comm", 2 * k - 2>>
          BY <2>0, <4>3 DEF DapEvent
        <5>2. <<"compute", 2 * n>> = <<"comm", 2 * k - 2>>
          BY <1>7, <4>1, <5>1
        <5>3. "compute" = "comm" /\ 2 * n = 2 * k - 2
          BY <5>2, PairParts
        <5> QED
          BY <5>3
      <4>4. CASE u = 7
        <5>1. DapEvent(t, k, u).event = <<"end", 1>>
          BY <4>4 DEF DapEvent
        <5>2. <<"compute", 2 * n>> = <<"end", 1>>
          BY <1>7, <4>1, <5>1
        <5>3. "compute" = "end" /\ 2 * n = 1
          BY <5>2, PairParts
        <5> QED
          BY <5>3
      <4> QED
        BY <1>6, <4>2, <4>3, <4>4
    <3>2. n \in 1 .. m
      BY <1>3, <2>1 DEF Occurs, Around, AtEnd
    <3>3. k = n
      BY <3>1
    <3>4. lab[s][a] = 8 * n + 1 /\ lab[t][b] = 8 * k + 5
      BY <1>3, <1>4, <2>1, <3>1
    <3> QED
      BY <1>9, <3>2, <3>3, <3>4, <1>0, DapSendsHas
  <2>2. CASE r = 4
    <3>1. u = 2 /\ 2 * n = 2 * k - 2
      <4>1. DapEvent(s, n, r).event = <<"comm", 2 * n>>
        BY <1>9, <2>2 DEF DapEvent
      <4>2. CASE u = 2
        <5>1. DapEvent(t, k, u).event = <<"comm", 2 * k - 2>>
          BY <2>0, <4>2 DEF DapEvent
        <5>2. <<"comm", 2 * n>> = <<"comm", 2 * k - 2>>
          BY <1>7, <4>1, <5>1
        <5>3. "comm" = "comm" /\ 2 * n = 2 * k - 2
          BY <5>2, PairParts
        <5> QED
          BY <5>3, <4>2
      <4>3. CASE u = 5
        <5>1. DapEvent(t, k, u).event = <<"compute", 2 * k>>
          BY <2>0, <4>3 DEF DapEvent
        <5>2. <<"comm", 2 * n>> = <<"compute", 2 * k>>
          BY <1>7, <4>1, <5>1
        <5>3. "comm" = "compute" /\ 2 * n = 2 * k
          BY <5>2, PairParts
        <5> QED
          BY <5>3
      <4>4. CASE u = 7
        <5>1. DapEvent(t, k, u).event = <<"end", 1>>
          BY <4>4 DEF DapEvent
        <5>2. <<"comm", 2 * n>> = <<"end", 1>>
          BY <1>7, <4>1, <5>1
        <5>3. "comm" = "end" /\ 2 * n = 1
          BY <5>2, PairParts
        <5> QED
          BY <5>3
      <4> QED
        BY <1>6, <4>2, <4>3, <4>4
    <3>2. n \in 1 .. m
      BY <1>3, <2>2 DEF Occurs, Around, AtEnd
    <3>3. k = n + 1
      BY <3>1
    <3>4. lab[s][a] = 8 * n + 4 /\ lab[t][b] = 8 * k + 2
      BY <1>3, <1>4, <2>2, <3>1
    <3> QED
      BY <1>9, <3>2, <3>3, <3>4, <1>0, DapSendsHas
  <2>3. CASE r = 6
    <3>1. u = 7
      BY <2>0, <1>6, <1>7, <1>9, <2>3 DEF DapEvent
    <3>2. k = m + 1 /\ n = m + 1
      BY <1>3, <1>4, <2>3, <3>1 DEF Occurs, Around, AtEnd
    <3> QED
      BY <1>1, <1>3, <1>4, <1>9, <2>3, <3>1, <3>2, <1>0 DEF DapSends
  <2> QED
    BY <1>5, <2>1, <2>2, <2>3
<1> QED
  BY <1>0, <1>1, <1>8, <1>9

DapRecords == {1, 4, 6}
DapWaits == {2, 5, 7}

\* Stream s has a signal between these labels.
SentBetween(g, lab, s, e) ==
    \E a \in 1 .. Len(g[s]), b \in 1 .. Len(g[1 - s]) :
       Signal(g, s, a, 1 - s, b) /\ lab[s][a] = e[1] /\ lab[1 - s][b] = e[2]

\* Every signal occurs.
LEMMA DapSignalOccurs ==
  ASSUME NEW m \in Nat, NEW g, NEW lab, DapGraph(g, lab, m), NEW s \in Streams,
         NEW n \in Nat, NEW r \in DapRecords, NEW k \in Nat, NEW u \in DapWaits,
         Occurs(s, m, n, r), Occurs(1 - s, m, k, u),
         DapEvent(s, n, r).event = DapEvent(1 - s, k, u).event
  PROVE  SentBetween(g, lab, s, <<8 * n + r, 8 * k + u>>)
<1> DEFINE t == 1 - s
<1>1. t \in Streams
  BY DEF Streams
<1>2. PICK a \in 1 .. Len(g[s]) : IsDapEvent(g, lab, s, a, n, r)
  <2>1. r \in DapSlots
    BY DEF DapSlots, DapRecords, DapWaits
  <2>2. HasDapEvent(g, lab, s, n, r)
    BY <2>1, DapEventOccurs
  <2> QED
    BY ONLY <2>2 DEF HasDapEvent
<1>3. PICK b \in 1 .. Len(g[t]) : IsDapEvent(g, lab, t, b, k, u)
  <2>1. Occurs(t, m, k, u)
    OBVIOUS
  <2>2. u \in DapSlots
    BY DEF DapSlots, DapRecords, DapWaits
  <2> HIDE DEF t
  <2>3. HasDapEvent(g, lab, t, k, u)
    BY <1>1, <2>1, <2>2, DapEventOccurs
  <2> QED
    BY ONLY <2>3 DEF HasDapEvent
<1>4. DapEvent(s, n, r).kind = "RECORD" /\ DapEvent(t, k, u).kind = "WAIT"
  <2>1. DapEvent(s, n, r).kind = "RECORD"
    BY DEF DapEvent, DapRecords
  <2>2. DapEvent(t, k, u).kind = "WAIT"
    <3>1. CASE u = 2
      BY <3>1 DEF DapEvent
    <3>2. CASE u = 5
      BY <3>2 DEF DapEvent
    <3>3. CASE u = 7
      BY <3>3 DEF DapEvent
    <3> QED
      BY <3>1, <3>2, <3>3 DEF DapWaits
  <2> QED
    BY <2>1, <2>2
<1> QED
  BY <1>2, <1>3, <1>4 DEF Signal, IsDapEvent, SentBetween

LEMMA DapTiedByLabels ==
  ASSUME NEW m \in Nat, m > 0, NEW g, NEW lab, DapGraph(g, lab, m)
  PROVE  TiedByLabels(g, lab, DapSends(m))
<1>1. \A s \in Streams : DapSends(m)[s] \subseteq Nat \X Nat
  BY DEF DapSends
<1>2. ASSUME NEW s \in Streams, NEW e \in DapSends(m)[s]
      PROVE  SentBetween(g, lab, s, e)
  <2>1. s \in {0, 1}
    BY DEF Streams
  <2>2. \/ \E n \in 1 .. m : e = IF s = 0 THEN <<8 * n + 1, 8 * (n - 1) + 5>> ELSE <<8 * n + 1, 8 * n + 5>>
        \/ \E n \in 1 .. m : e = IF s = 0 THEN <<8 * n + 4, 8 * n + 2>> ELSE <<8 * n + 4, 8 * (n + 1) + 2>>
        \/ e = IF s = 0 THEN <<8 * (m + 1) + 6, 8 * m + 5>> ELSE <<8 * (m + 1) + 6, 8 * (m + 1) + 7>>
    BY DEF DapSends
  <2>3. \E n \in Nat, r \in DapRecords, k \in Nat, u \in DapWaits :
          /\ e = <<8 * n + r, 8 * k + u>>
          /\ Occurs(s, m, n, r)
          /\ Occurs(1 - s, m, k, u)
          /\ DapEvent(s, n, r).event = DapEvent(1 - s, k, u).event
    <3>1. CASE \E n \in 1 .. m :
                 e = IF s = 0 THEN <<8 * n + 1, 8 * (n - 1) + 5>> ELSE <<8 * n + 1, 8 * n + 5>>
      <4>1. PICK n \in 1 .. m :
                 e = IF s = 0 THEN <<8 * n + 1, 8 * (n - 1) + 5>> ELSE <<8 * n + 1, 8 * n + 5>>
        BY <3>1
      <4> DEFINE k == IF s = 0 THEN n - 1 ELSE n
      <4>2. k \in Nat /\ n \in Nat /\ e = <<8 * n + 1, 8 * k + 5>>
        BY <4>1
      <4>3. Occurs(s, m, n, 1) /\ Occurs(1 - s, m, k, 5)
        BY <2>1, <4>1 DEF Occurs, Around
      <4>4. DapEvent(s, n, 1).event = DapEvent(1 - s, k, 5).event
        BY <2>1, <4>1 DEF DapEvent
      <4> QED
        BY <4>2, <4>3, <4>4 DEF DapRecords, DapWaits
    <3>2. CASE \E n \in 1 .. m : e = IF s = 0 THEN <<8 * n + 4, 8 * n + 2>> ELSE <<8 * n + 4, 8 * (n + 1) + 2>>
      <4>1. PICK n \in 1 .. m : e = IF s = 0 THEN <<8 * n + 4, 8 * n + 2>> ELSE <<8 * n + 4, 8 * (n + 1) + 2>>
        BY <3>2
      <4> DEFINE k == IF s = 0 THEN n ELSE n + 1
      <4>2. k \in Nat /\ n \in Nat /\ e = <<8 * n + 4, 8 * k + 2>>
        BY <4>1
      <4>3. Occurs(s, m, n, 4) /\ Occurs(1 - s, m, k, 2)
        BY <2>1, <4>1 DEF Occurs, Around, AtEnd
      <4>4. DapEvent(s, n, 4).event = DapEvent(1 - s, k, 2).event
        BY <2>1, <4>1 DEF DapEvent
      <4> QED
        BY <4>2, <4>3, <4>4 DEF DapRecords, DapWaits
    <3>3. CASE e = IF s = 0 THEN <<8 * (m + 1) + 6, 8 * m + 5>> ELSE <<8 * (m + 1) + 6, 8 * (m + 1) + 7>>
      <4>1. CASE s = 0
        <5>1. m + 1 \in Nat /\ e = <<8 * (m + 1) + 6, 8 * m + 5>>
          BY <3>3, <4>1
        <5>2. Occurs(s, m, m + 1, 6) /\ Occurs(1 - s, m, m, 5)
          BY <4>1 DEF Occurs, AtEnd, Around
        <5>3. DapEvent(s, m + 1, 6).event = DapEvent(1 - s, m, 5).event
          BY <4>1 DEF DapEvent
        <5> QED
          BY <5>1, <5>2, <5>3 DEF DapRecords, DapWaits
      <4>2. CASE s = 1
        <5>1. m + 1 \in Nat /\ e = <<8 * (m + 1) + 6, 8 * (m + 1) + 7>>
          BY <3>3, <4>2
        <5>2. Occurs(s, m, m + 1, 6) /\ Occurs(1 - s, m, m + 1, 7)
          BY <4>2 DEF Occurs, AtEnd, Around
        <5>3. DapEvent(s, m + 1, 6).event = DapEvent(1 - s, m + 1, 7).event
          BY <4>2 DEF DapEvent
        <5> QED
          BY <5>1, <5>2, <5>3 DEF DapRecords, DapWaits
      <4> QED
        BY <2>1, <4>1, <4>2
    <3> QED
      BY <2>2, <3>1, <3>2, <3>3
  <2>4. PICK n \in Nat, r \in DapRecords, k \in Nat, u \in DapWaits :
          /\ e = <<8 * n + r, 8 * k + u>>
          /\ Occurs(s, m, n, r)
          /\ Occurs(1 - s, m, k, u)
          /\ DapEvent(s, n, r).event = DapEvent(1 - s, k, u).event
    BY <2>3
  <2>5. SentBetween(g, lab, s, <<8 * n + r, 8 * k + u>>)
    <3>1. Occurs(s, m, n, r)
      BY <2>4
    <3>2. Occurs(1 - s, m, k, u)
      BY <2>4
    <3>3. DapEvent(s, n, r).event = DapEvent(1 - s, k, u).event
      BY <2>4
    <3> QED
      BY <3>1, <3>2, <3>3, DapSignalOccurs
  <2> QED
    BY <2>4, <2>5
<1> QED
  BY <1>1, <1>2, DapOrder, DapSignals DEF TiedByLabels, SentBetween

\* No two of the events are the same.
LEMMA DapEventsDiffer ==
  ASSUME NEW m \in Nat, NEW s \in Streams, NEW t \in Streams, NEW n \in Nat, NEW k \in Nat,
         NEW r \in DapSlots, NEW u \in DapSlots,
         Occurs(s, m, n, r), Occurs(t, m, k, u),
         DapEvent(s, n, r).kind = DapEvent(t, k, u).kind, DapEvent(s, n, r).event = DapEvent(t, k, u).event
  PROVE  s = t /\ n = k /\ r = u
<1> DEFINE Key(x, y) == IF y \in {1, 5} \/ (x = 0 /\ y = 6) THEN 1 ELSE IF y \in {2, 4} THEN 2 ELSE 3
           Num(x, z, y) == CASE y = 1 -> 2 * z - 1 + x [] y = 2 -> 2 * z - 2 + x [] y = 4 -> 2 * z - 1 + x
                             [] y = 5 -> 2 * z + x [] OTHER -> IF x = 0 /\ y = 6 THEN 2 * z - 1 ELSE 1
           Name == <<"compute", "comm", "end">>
<1>1. s \in {0, 1} /\ t \in {0, 1}
  BY DEF Streams
<1>2. DapEvent(s, n, r).event = <<Name[Key(s, r)], Num(s, n, r)>>
  <2>1. CASE r = 1 BY <2>1 DEF DapEvent
  <2>2. CASE r = 2 BY <2>2 DEF DapEvent
  <2>3. CASE r = 4 BY <2>3 DEF DapEvent
  <2>4. CASE r = 5 BY <2>4 DEF DapEvent
  <2>5. CASE r = 6 BY <2>5 DEF DapEvent
  <2>6. CASE r = 7 BY <2>6 DEF DapEvent
  <2> QED BY <2>1, <2>2, <2>3, <2>4, <2>5, <2>6 DEF DapSlots
<1>3. DapEvent(t, k, u).event = <<Name[Key(t, u)], Num(t, k, u)>>
  <2>1. CASE u = 1 BY <2>1 DEF DapEvent
  <2>2. CASE u = 2 BY <2>2 DEF DapEvent
  <2>3. CASE u = 4 BY <2>3 DEF DapEvent
  <2>4. CASE u = 5 BY <2>4 DEF DapEvent
  <2>5. CASE u = 6 BY <2>5 DEF DapEvent
  <2>6. CASE u = 7 BY <2>6 DEF DapEvent
  <2> QED BY <2>1, <2>2, <2>3, <2>4, <2>5, <2>6 DEF DapSlots
<1>4. Key(s, r) \in 1 .. 3 /\ Key(t, u) \in 1 .. 3
  OBVIOUS
<1>5. \A x, y \in 1 .. 3 : Name[x] = Name[y] => x = y
  OBVIOUS
<1> HIDE DEF Key, Num, Name
<1>6. Name[Key(s, r)] = Name[Key(t, u)] /\ Num(s, n, r) = Num(t, k, u)
  <2>1. <<Name[Key(s, r)], Num(s, n, r)>> = <<Name[Key(t, u)], Num(t, k, u)>>
    BY <1>2, <1>3
  <2> QED
    BY <2>1, PairParts
<1>7. Key(s, r) = Key(t, u)
  BY <1>4, <1>5, <1>6
<1> USE DEF Key, Num
<1>8. r \in {1, 4, 6} <=> u \in {1, 4, 6}
  BY DEF DapEvent, DapSlots
<1>9. Num(s, n, r) = Num(t, k, u)
  BY <1>6
<1>10. CASE r \in {1, 4, 6}
  BY <1>1, <1>7, <1>8, <1>9, <1>10 DEF Occurs, Around, AtEnd, DapSlots
<1>11. CASE r \in {2, 5, 7}
  BY <1>1, <1>7, <1>8, <1>9, <1>11 DEF Occurs, Around, AtEnd
<1> QED
  BY <1>10, <1>11 DEF DapSlots

\* The events of both batches pair up.
LEMMA DapPaired ==
  ASSUME NEW m \in Nat, m > 0, NEW g, NEW lab, DapGraph(g, lab, m)
  PROVE  Paired(g)
<1>1. ASSUME NEW s \in Streams, NEW i \in 1 .. Len(g[s]), g[s][i].kind # "task"
      PROVE  /\ g[s][i].event # NoEvent
             /\ \A t \in Streams : \A j \in 1 .. Len(g[t]) :
                  /\ g[t][j].kind = g[s][i].kind /\ g[t][j].event = g[s][i].event => s = t /\ i = j
  <2>1. s \in {0, 1}
    BY DEF Streams
  <2>2. PICK n \in Nat, r \in DapSlots :
            IsDapEvent(g, lab, s, i, n, r) /\ Occurs(s, m, n, r)
    BY <1>1, DapEventAt
  <2>3. g[s][i].event # NoEvent
    BY <2>2 DEF DapEvent, NoEvent, IsDapEvent, DapSlots
  <2>4. ASSUME NEW t \in Streams, NEW j \in 1 .. Len(g[t]),
               g[t][j].kind = g[s][i].kind, g[t][j].event = g[s][i].event
        PROVE  s = t /\ i = j
    <3>1. t \in {0, 1} /\ g[t][j].kind # "task"
      BY <1>1, <2>4 DEF Streams
    <3>2. PICK k \in Nat, u \in DapSlots :
            IsDapEvent(g, lab, t, j, k, u) /\ Occurs(t, m, k, u)
      <4>1. g[t][j].kind # "task"
        BY <3>1
      <4> QED
        BY <4>1, DapEventAt
    <3>3. DapEvent(s, n, r).kind = DapEvent(t, k, u).kind /\ DapEvent(s, n, r).event = DapEvent(t, k, u).event
      BY <2>2, <2>4, <3>2 DEF IsDapEvent
    <3>4. s = t /\ n = k /\ r = u
      <4>1. Occurs(s, m, n, r)
        BY <2>2
      <4>2. Occurs(t, m, k, u)
        BY <3>2
      <4>3. DapEvent(s, n, r).kind = DapEvent(t, k, u).kind
        BY <3>3
      <4>4. DapEvent(s, n, r).event = DapEvent(t, k, u).event
        BY <3>3
      <4> QED
        BY <4>1, <4>2, <4>3, <4>4, DapEventsDiffer
    <3>5. lab[s][i] = lab[s][j] /\ j \in 1 .. Len(g[s])
      BY <2>2, <3>2, <3>4 DEF IsDapEvent
    <3> QED
      BY <1>1, <3>4, <3>5, DapOrder
  <2> QED
    BY <2>3, <2>4
<1>2. TiedByLabels(g, lab, DapSends(m))
  BY DapTiedByLabels
<1>3. ASSUME NEW s \in Streams, NEW i \in 1 .. Len(g[s]), g[s][i].kind = "RECORD"
      PROVE  \E b \in 1 .. Len(g[1 - s]) : Signal(g, s, i, 1 - s, b)
  <2>1. s \in {0, 1} /\ g[s][i].kind # "task"
    BY <1>3 DEF Streams
  <2>2. PICK n \in Nat, r \in DapSlots :
            IsDapEvent(g, lab, s, i, n, r) /\ Occurs(s, m, n, r)
    BY <2>1, DapEventAt
  <2>3. r \in {1, 4, 6}
    BY <1>3, <2>2 DEF DapEvent, IsDapEvent, DapSlots
  <2>4. (n \in 1 .. m /\ r \in {1, 4}) \/ (n = m + 1 /\ r = 6)
    BY <2>2, <2>3 DEF Occurs, Around, AtEnd
  <2>5. \E l \in Nat : <<lab[s][i], l>> \in DapSends(m)[s]
    <3>1. CASE n \in 1 .. m /\ r = 1
      <4>1. lab[s][i] = 8 * n + 1 /\ 8 * (n - 1) + 5 \in Nat /\ 8 * n + 5 \in Nat
        BY <2>2, <3>1 DEF IsDapEvent
      <4> QED
        BY <2>1, <3>1, <4>1, DapSendsHas
    <3>2. CASE n \in 1 .. m /\ r = 4
      <4>1. lab[s][i] = 8 * n + 4 /\ 8 * n + 2 \in Nat /\ 8 * (n + 1) + 2 \in Nat
        BY <2>2, <3>2 DEF IsDapEvent
      <4> QED
        BY <2>1, <3>2, <4>1, DapSendsHas
    <3>3. CASE n = m + 1 /\ r = 6
      <4>1. lab[s][i] = 8 * (m + 1) + 6 /\ 8 * m + 5 \in Nat /\ 8 * (m + 1) + 7 \in Nat
        BY <2>2, <3>3 DEF IsDapEvent
      <4> QED
        BY <2>1, <4>1, DapSendsHas
    <3> QED
      BY <2>4, <3>1, <3>2, <3>3
  <2>6. PICK l \in Nat : <<lab[s][i], l>> \in DapSends(m)[s]
    BY <2>5
  <2>7. PICK a \in 1 .. Len(g[s]), b \in 1 .. Len(g[1 - s]) :
            Signal(g, s, a, 1 - s, b) /\ lab[s][a] = lab[s][i]
    BY <1>2, <2>6 DEF TiedByLabels
  <2>8. a = i
    BY <2>1, <2>7, DapOrder
  <2> QED
    BY <2>7, <2>8
<1>4. ASSUME NEW s \in Streams, NEW i \in 1 .. Len(g[s]), g[s][i].kind = "WAIT"
      PROVE  \E a \in 1 .. Len(g[1 - s]) : Signal(g, 1 - s, a, s, i)
  <2>1. s \in {0, 1} /\ g[s][i].kind # "task" /\ 1 - s \in Streams /\ 1 - (1 - s) = s
    BY <1>4 DEF Streams
  <2>2. PICK n \in Nat, r \in DapSlots :
            IsDapEvent(g, lab, s, i, n, r) /\ Occurs(s, m, n, r)
    <3>1. g[s][i].kind # "task"
      BY <2>1
    <3> QED
      BY <3>1, DapEventAt
  <2>3. r \in {2, 5, 7}
    BY <1>4, <2>2 DEF DapEvent, IsDapEvent, DapSlots
  <2>5. \E l \in Nat : <<l, lab[s][i]>> \in DapSends(m)[1 - s]
    <3>1. CASE s = 0
      <4>1. (n - 1 \in 1 .. m /\ r = 2) \/ (n \in 1 .. m /\ r = 5) \/ (n = m + 1 /\ r = 7)
        BY <2>2, <2>3, <3>1 DEF Occurs, Around, AtEnd
      <4>2. CASE n - 1 \in 1 .. m /\ r = 2
        <5>1. <<8 * (n - 1) + 4, 8 * ((n - 1) + 1) + 2>> \in DapSends(m)[1]
          BY <4>2, DapSendsHas
        <5>2. lab[s][i] = 8 * ((n - 1) + 1) + 2 /\ 8 * (n - 1) + 4 \in Nat
          BY <2>2, <4>2 DEF IsDapEvent
        <5> QED
          BY <3>1, <5>1, <5>2
      <4>3. CASE n \in 1 .. m /\ r = 5
        <5>1. lab[s][i] = 8 * n + 5 /\ 8 * n + 1 \in Nat
          BY <2>2, <4>3 DEF IsDapEvent
        <5>2. 1 - s = 1
          BY <3>1
        <5> QED
          BY <4>3, <5>1, <5>2, DapSendsHas
      <4>4. CASE n = m + 1 /\ r = 7
        <5>1. lab[s][i] = 8 * (m + 1) + 7 /\ 8 * (m + 1) + 6 \in Nat
          BY <2>2, <4>4 DEF IsDapEvent
        <5>2. 1 - s = 1
          BY <3>1
        <5> QED
          BY <4>4, <5>1, <5>2, DapSendsHas
      <4> QED
        BY <4>1, <4>2, <4>3, <4>4
    <3>2. CASE s = 1
      <4>1. (n \in 1 .. m /\ r = 2) \/ (n + 1 \in 1 .. m /\ r = 5) \/ (n = m /\ r = 5)
        BY <2>2, <2>3, <3>2 DEF Occurs, Around, AtEnd
      <4>2. CASE n \in 1 .. m /\ r = 2
        <5>1. lab[s][i] = 8 * n + 2 /\ 8 * n + 4 \in Nat
          BY <2>2, <4>2 DEF IsDapEvent
        <5>2. 1 - s = 0
          BY <3>2
        <5> QED
          BY <4>2, <5>1, <5>2, DapSendsHas
      <4>3. CASE n + 1 \in 1 .. m /\ r = 5
        <5>1. <<8 * (n + 1) + 1, 8 * ((n + 1) - 1) + 5>> \in DapSends(m)[0]
          BY <4>3, DapSendsHas
        <5>2. lab[s][i] = 8 * ((n + 1) - 1) + 5 /\ 8 * (n + 1) + 1 \in Nat
          BY <2>2, <4>3 DEF IsDapEvent
        <5> QED
          BY <3>2, <5>1, <5>2
      <4>4. CASE n = m /\ r = 5
        <5>1. lab[s][i] = 8 * m + 5 /\ 8 * (m + 1) + 6 \in Nat
          BY <2>2, <4>4 DEF IsDapEvent
        <5>2. 1 - s = 0
          BY <3>2
        <5> QED
          BY <4>4, <5>1, <5>2, DapSendsHas
      <4> QED
        BY <4>1, <4>2, <4>3, <4>4
    <3> QED
      BY <2>1, <3>1, <3>2
  <2>6. PICK l \in Nat : <<l, lab[s][i]>> \in DapSends(m)[1 - s]
    BY <2>5
  <2>7. PICK a \in 1 .. Len(g[1 - s]), b \in 1 .. Len(g[s]) :
            Signal(g, 1 - s, a, s, b) /\ lab[s][b] = lab[s][i]
    <3> DEFINE t == 1 - s
    <3>1. \E a \in 1 .. Len(g[t]), b \in 1 .. Len(g[1 - t]) :
            Signal(g, t, a, 1 - t, b) /\ lab[1 - t][b] = lab[s][i]
      <4> HIDE DEF t
      <4>1. t \in Streams /\ <<l, lab[s][i]>> \in DapSends(m)[t]
        BY <2>1, <2>6 DEF t
      <4>2. <<l, lab[s][i]>>[2] = lab[s][i]
        OBVIOUS
      <4> QED
        BY <1>2, <4>1, <4>2 DEF TiedByLabels
    <3> QED
      BY <2>1, <3>1
  <2>8. b = i
    <3>1. g[s][i].kind # "task"
      BY <2>1
    <3> QED
      BY <2>7, <3>1, DapOrder
  <2> QED
    BY <2>7, <2>8
<1>5. \A s \in Streams : /\ Len(g[s]) \in Nat /\ DOMAIN g[s] = 1 .. Len(g[s])
                         /\ \A i \in 1 .. Len(g[s]) : g[s][i].kind \in {"task", "RECORD", "WAIT"}
  BY DapOrder DEF NodesFor
<1>6. ASSUME NEW s \in Streams, NEW i \in DOMAIN g[s]
      PROVE  /\ g[s][i].kind \in {"task", "RECORD", "WAIT"}
             /\ g[s][i].kind \in {"RECORD", "WAIT"} =>
                  /\ g[s][i].event # NoEvent
                  /\ \A t \in Streams : \A j \in DOMAIN g[t] :
                       /\ g[t][j].kind = g[s][i].kind /\ g[t][j].event = g[s][i].event => s = t /\ i = j
             /\ g[s][i].kind = "RECORD" => \E b \in DOMAIN g[1 - s] : Signal(g, s, i, 1 - s, b)
             /\ g[s][i].kind = "WAIT" => \E a \in DOMAIN g[1 - s] : Signal(g, 1 - s, a, s, i)
  <2>1. i \in 1 .. Len(g[s]) /\ \A t \in Streams : DOMAIN g[t] = 1 .. Len(g[t])
    BY <1>5
  <2>2. 1 - s \in Streams
    BY DEF Streams
  <2>3. g[s][i].kind \in {"task", "RECORD", "WAIT"}
    BY <1>5, <2>1
  <2>4. g[s][i].kind \in {"RECORD", "WAIT"} =>
          /\ g[s][i].event # NoEvent
          /\ \A t \in Streams : \A j \in DOMAIN g[t] :
               /\ g[t][j].kind = g[s][i].kind /\ g[t][j].event = g[s][i].event => s = t /\ i = j
    <3>1. g[s][i].kind \in {"RECORD", "WAIT"} => g[s][i].kind # "task"
      OBVIOUS
    <3>2. CASE g[s][i].kind # "task"
      <4>1. /\ g[s][i].event # NoEvent
            /\ \A t \in Streams : \A j \in 1 .. Len(g[t]) :
                 /\ g[t][j].kind = g[s][i].kind /\ g[t][j].event = g[s][i].event => s = t /\ i = j
        BY <1>1, <2>1, <3>2
      <4> QED
        BY <2>1, <4>1
    <3>3. CASE g[s][i].kind = "task"
      BY <3>3
    <3> QED
      BY <3>2, <3>3
  <2>5. g[s][i].kind = "RECORD" => \E b \in DOMAIN g[1 - s] : Signal(g, s, i, 1 - s, b)
    BY <1>3, <2>1, <2>2
  <2>6. g[s][i].kind = "WAIT" => \E a \in DOMAIN g[1 - s] : Signal(g, 1 - s, a, s, i)
    BY <1>4, <2>1, <2>2
  <2> QED
    BY <2>3, <2>4, <2>5, <2>6
<1> QED
  BY <1>5, <1>6 DEF Paired

\* A task of one batch is ordered with the tasks on the same unit of the other.
LEMMA DapUnitsOrdered ==
  ASSUME NEW m \in Nat, m > 0, NEW g, NEW lab, DapGraph(g, lab, m),
         NEW i0 \in 1 .. Len(g[0]), NEW i1 \in 1 .. Len(g[1]),
         g[0][i0].kind = "task", g[1][i1].kind = "task", g[0][i0].unit = g[1][i1].unit
  PROVE  Separated(g, 0, i0, 1, i1) \/ Separated(g, 1, i1, 0, i0)
<1>0. TiedByLabels(g, lab, DapSends(m))
  BY DapTiedByLabels
<1>1. 0 \in Streams /\ 1 \in Streams /\ 1 - 0 = 1 /\ 1 - 1 = 0
  BY DEF Streams
<1>2. \/ /\ \E n \in 1 .. m + 1 : lab[0][i0] = 8 * n
         /\ \E n \in 1 .. m + 1 : lab[1][i1] = 8 * n
      \/ /\ \E n \in 1 .. m : lab[0][i0] = 8 * n + 3
         /\ \E n \in 1 .. m : lab[1][i1] = 8 * n + 3
  <2>1. \/ g[0][i0].unit = "compute" /\ \E n \in 1 .. m + 1 : lab[0][i0] = 8 * n
        \/ g[0][i0].unit = "comm" /\ \E n \in 1 .. m : lab[0][i0] = 8 * n + 3
    <3>1. g[0][i0].kind = "task"
      OBVIOUS
    <3> QED
      BY <1>1, <3>1, DapTaskAt
  <2>2. \/ g[1][i1].unit = "compute" /\ \E n \in 1 .. m + 1 : lab[1][i1] = 8 * n
        \/ g[1][i1].unit = "comm" /\ \E n \in 1 .. m : lab[1][i1] = 8 * n + 3
    <3>1. g[1][i1].kind = "task"
      OBVIOUS
    <3> QED
      BY <1>1, <3>1, DapTaskAt
  <2> QED
    BY <2>1, <2>2
\* The last event of each stream comes after every task.
<1>3. BeforeNext(g, 1, i1, 0, i0)
  <2>1. lab[1][i1] < 8 * (m + 1) + 6
    BY <1>2
  <2>2. <<8 * (m + 1) + 6, 8 * (m + 1) + 7>> \in DapSends(m)[1]
    BY DapSendsHas
  <2>3. lab[1][i1] < <<8 * (m + 1) + 6, 8 * (m + 1) + 7>>[1]
    BY <2>1
  <2>4. BeforeNext(g, 1, i1, 1 - 1, i0)
    BY <1>0, <1>1, <2>2, <2>3, NextByLabels
  <2> QED
    BY <1>1, <2>4
<1>4. BeforeNext(g, 0, i0, 1, i1)
  <2>1. lab[0][i0] < 8 * (m + 1) + 6
    BY <1>2
  <2>2. <<8 * (m + 1) + 6, 8 * m + 5>> \in DapSends(m)[0]
    BY DapSendsHas
  <2>3. lab[0][i0] < <<8 * (m + 1) + 6, 8 * m + 5>>[1]
    BY <2>1
  <2>4. BeforeNext(g, 0, i0, 1 - 0, i1)
    BY <1>0, <1>1, <2>2, <2>3, NextByLabels
  <2> QED
    BY <1>1, <2>4
<1>5. CASE lab[0][i0] <= lab[1][i1]
  <2>1. \E e \in DapSends(m)[0] : lab[0][i0] < e[1] /\ e[2] < lab[1][i1]
    <3>1. CASE \E n \in 1 .. m : lab[0][i0] = 8 * n
      <4>1. PICK n \in 1 .. m : lab[0][i0] = 8 * n
        BY <3>1
      <4>2. <<8 * n + 1, 8 * (n - 1) + 5>> \in DapSends(m)[0]
        BY DapSendsHas
      <4>3. lab[0][i0] < 8 * n + 1 /\ 8 * (n - 1) + 5 < lab[1][i1]
        BY <1>2, <1>5, <4>1
      <4> QED
        BY <4>2, <4>3
    <3>2. CASE lab[0][i0] = 8 * (m + 1)
      <4>1. <<8 * (m + 1) + 6, 8 * m + 5>> \in DapSends(m)[0]
        BY DapSendsHas
      <4>2. lab[0][i0] < 8 * (m + 1) + 6 /\ 8 * m + 5 < lab[1][i1]
        BY <1>2, <1>5, <3>2
      <4> QED
        BY <4>1, <4>2
    <3>3. CASE \E n \in 1 .. m : lab[0][i0] = 8 * n + 3
      <4>1. PICK n \in 1 .. m : lab[0][i0] = 8 * n + 3
        BY <3>3
      <4>2. <<8 * n + 4, 8 * n + 2>> \in DapSends(m)[0]
        BY DapSendsHas
      <4>3. lab[0][i0] < 8 * n + 4 /\ 8 * n + 2 < lab[1][i1]
        BY <1>2, <1>5, <4>1
      <4> QED
        BY <4>2, <4>3
    <3>4. \A n \in 1 .. m + 1 : n \in 1 .. m \/ n = m + 1
      OBVIOUS
    <3> QED
      BY <1>2, <3>1, <3>2, <3>3, <3>4
  <2>2. PICK e \in DapSends(m)[0] : lab[0][i0] < e[1] /\ e[2] < lab[1][i1]
    BY <2>1
  <2>3. Before(g, 0, i0, 1 - 0, i1)
    BY <1>0, <1>1, <2>2, BeforeByLabels
  <2> QED
    BY <1>1, <1>3, <2>3 DEF Separated
<1>6. CASE lab[1][i1] < lab[0][i0]
  <2>1. \E e \in DapSends(m)[1] : lab[1][i1] < e[1] /\ e[2] < lab[0][i0]
    <3>1. CASE \E n \in 1 .. m : lab[1][i1] = 8 * n
      <4>1. PICK n \in 1 .. m : lab[1][i1] = 8 * n
        BY <3>1
      <4>2. <<8 * n + 1, 8 * n + 5>> \in DapSends(m)[1]
        BY DapSendsHas
      <4>3. lab[1][i1] < 8 * n + 1 /\ 8 * n + 5 < lab[0][i0]
        BY <1>2, <1>6, <4>1
      <4> QED
        BY <4>2, <4>3
    <3>2. CASE \E n \in 1 .. m : lab[1][i1] = 8 * n + 3
      <4>1. PICK n \in 1 .. m : lab[1][i1] = 8 * n + 3
        BY <3>2
      <4>2. <<8 * n + 4, 8 * (n + 1) + 2>> \in DapSends(m)[1]
        BY DapSendsHas
      <4>3. lab[1][i1] < 8 * n + 4 /\ 8 * (n + 1) + 2 < lab[0][i0]
        BY <1>2, <1>6, <4>1
      <4> QED
        BY <4>2, <4>3
    <3>3. lab[1][i1] # 8 * (m + 1)
      BY <1>2, <1>6
    <3>4. \A n \in 1 .. m + 1 : n \in 1 .. m \/ n = m + 1
      OBVIOUS
    <3> QED
      BY <1>2, <3>1, <3>2, <3>3, <3>4
  <2>2. PICK e \in DapSends(m)[1] : lab[1][i1] < e[1] /\ e[2] < lab[0][i0]
    BY <2>1
  <2>3. Before(g, 1, i1, 1 - 1, i0)
    BY <1>0, <1>1, <2>2, BeforeByLabels
  <2> QED
    BY <1>1, <1>4, <2>3 DEF Separated
<1> QED
  BY <1>2, <1>5, <1>6

LEMMA DapUnits ==
  ASSUME NEW m \in Nat, m > 0, NEW g, NEW lab, DapGraph(g, lab, m)
  PROVE  UnitsShared(g)
<1> SUFFICES ASSUME NEW s \in Streams, NEW i \in 1 .. Len(g[s]), NEW j \in 1 .. Len(g[1 - s]),
                    g[s][i].kind = "task", g[1 - s][j].kind = "task", g[s][i].unit = g[1 - s][j].unit
             PROVE  Separated(g, s, i, 1 - s, j) \/ Separated(g, 1 - s, j, s, i)
  <2>1. \A s \in Streams : 1 - s \in Streams /\ DOMAIN g[s] = 1 .. Len(g[s])
    BY DapOrder DEF Streams
  <2> QED
    BY <2>1 DEF UnitsShared
<1>3. CASE s = 0
  BY <1>3, DapUnitsOrdered
<1>4. CASE s = 1
  BY <1>4, DapUnitsOrdered
<1> QED
  BY <1>3, <1>4 DEF Streams

LEMMA DapWellTied ==
  ASSUME NEW m \in Nat, m > 0, NEW g, NEW lab, DapGraph(g, lab, m)
  PROVE  WellTied(g)
<1>1. TiedByLabels(g, lab, DapSends(m))
  BY DapTiedByLabels
<1>2. \A s \in Streams : s \in {0, 1} /\ (s = 0 => 1 - s = 1) /\ (s = 1 => 1 - s = 0)
  BY DEF Streams
<1>3. ASSUME NEW s \in Streams, NEW e \in DapSends(m)[s]
      PROVE  \/ \E n \in 1 .. m : e = IF s = 0 THEN <<8 * n + 1, 8 * (n - 1) + 5>> ELSE <<8 * n + 1, 8 * n + 5>>
             \/ \E n \in 1 .. m : e = IF s = 0 THEN <<8 * n + 4, 8 * n + 2>> ELSE <<8 * n + 4, 8 * (n + 1) + 2>>
             \/ e = IF s = 0 THEN <<8 * (m + 1) + 6, 8 * m + 5>> ELSE <<8 * (m + 1) + 6, 8 * (m + 1) + 7>>
  BY DEF DapSends
<1>4. /\ \A e \in DapSends(m)[0] : \/ \E n \in 1 .. m : e[1] = 8 * n + 1 /\ e[2] = 8 * n - 3
                                   \/ \E n \in 1 .. m : e[1] = 8 * n + 4 /\ e[2] = 8 * n + 2
                                   \/ e[1] = 8 * m + 14 /\ e[2] = 8 * m + 5
      /\ \A e \in DapSends(m)[1] : \/ \E n \in 1 .. m : e[1] = 8 * n + 1 /\ e[2] = 8 * n + 5
                                   \/ \E n \in 1 .. m : e[1] = 8 * n + 4 /\ e[2] = 8 * n + 10
                                   \/ e[1] = 8 * m + 14 /\ e[2] = 8 * m + 15
  BY <1>3 DEF Streams
<1>5. Answered(g)
  <2>1. <<8 * (m + 1) + 6, 8 * (m + 1) + 7>> \in DapSends(m)[1] /\ <<8 * (m + 1) + 6, 8 * m + 5>> \in DapSends(m)[0]
        /\ \E f \in DapSends(m)[0] : f[2] = 5
    <3>1. 1 \in 1 .. m
      OBVIOUS
    <3>2. <<8 * 1 + 1, 8 * (1 - 1) + 5>> \in DapSends(m)[0]
      BY <3>1, DapSendsHas
    <3>3. <<8 * 1 + 1, 8 * (1 - 1) + 5>>[2] = 5
      OBVIOUS
    <3> QED
      BY <3>2, <3>3, DapSendsHas
  <2>2. ASSUME NEW e \in DapSends(m)[0]
        PROVE  \E f \in DapSends(m)[1] : e[2] < f[1] \/ f[2] < e[1]
    <3>1. e[2] < 8 * (m + 1) + 6
      BY <1>4
    <3> QED
      BY <2>1, <3>1
  <2>3. ASSUME NEW e \in DapSends(m)[1]
        PROVE  \E f \in DapSends(m)[0] : e[2] < f[1] \/ f[2] < e[1]
    <3>1. 5 < e[1]
      BY <1>4
    <3> QED
      BY <2>1, <3>1
  <2>4. \A s \in Streams : \A e \in DapSends(m)[s] : \E f \in DapSends(m)[1 - s] : e[2] < f[1] \/ f[2] < e[1]
    BY <1>2, <2>2, <2>3
  <2> QED
    BY <1>1, <2>4, AnsweredByLabels
<1>6. Uncrossed(g)
  <2>1. ASSUME NEW e \in DapSends(m)[0], NEW f \in DapSends(m)[1]
        PROVE  (e[1] < f[2] \/ f[1] < e[2]) /\ (f[1] < e[2] \/ e[1] < f[2])
    BY <1>4
  <2>2. \A s \in Streams : \A e \in DapSends(m)[s] : \A f \in DapSends(m)[1 - s] : e[1] < f[2] \/ f[1] < e[2]
    BY <1>2, <2>1
  <2> QED
    BY <1>1, <2>2, UncrossedByLabels
<1>7. DataOrdered(g)
  <2>1. \A s, t \in Streams : \A i \in DOMAIN g[s], j \in DOMAIN g[t] :
           g[s][i].kind = "task" /\ g[t][j].kind = "task" /\ g[s][i].data = g[t][j].data => s = t
    BY DapOrder, DapTaskAt
  <2> QED
    BY <2>1, DapOrder DEF DataOrdered
<1> QED
  BY <1>5, <1>6, <1>7, DapPaired, DapUnits DEF WellTied

RoleOf(s) == IF s = 0 THEN "PRECEDER" ELSE "SUCCESSOR"
DapRoles == {"PRECEDER", "SUCCESSOR"}

\* The graphs under construction.
DapBuilds ==
    [nodes : [Streams -> Seq(NodesFor(DapKeys))], size : Nat,
     pushed : [DapKeys -> Nat], popped : [DapKeys -> Nat],
     own : [role : DapRoles, count : [DapRoles -> Nat]]]

\* The PRECEDER pushes and the SUCCESSOR pops.
OwnAction(s) == IF s = 0 THEN "PUSH" ELSE "POP"
Made(b, s, key) == IF s = 0 THEN b.pushed[key] ELSE b.popped[key]

\* Some labels fit stream s of b.
StreamAt(b, s, c, has, top) == \E lab : DapStream(b.nodes[s], lab, s, c, has, top, b.size)

\* Batch t is as it was.
SameFor(t, b, b2) ==
    /\ b2.nodes[t] = b.nodes[t] /\ b.size <= b2.size
    /\ b2.own.count[RoleOf(t)] = b.own.count[RoleOf(t)]
    /\ \A k \in DapKeys : Made(b2, t, k) = Made(b, t, k)

\* Batch s after c communications.
BatchAt(b, s, c) ==
    /\ StreamAt(b, s, c, Body(s, c), 8 * (c + 1))
    /\ b.own.count[RoleOf(s)] = c
    /\ Made(b, s, "compute") = 2 * c + s
    /\ Made(b, s, "comm") = IF s = 0 /\ c > 0 THEN 2 * c - 1 ELSE 2 * c
-----------------------------------------------------------------------------
Actions == {"PUSH", "POP"}
EventKinds == {"RECORD", "WAIT"}

LEMMA DapNode ==
  ASSUME NEW b \in DapBuilds, NEW s \in Streams, NEW x \in NodesFor(DapKeys)
  PROVE  /\ Dap!AddNode(b, s, x) \in DapBuilds
         /\ Dap!AddNode(b, s, x).nodes[s] = Append(b.nodes[s], x)
         /\ Dap!AddNode(b, s, x).nodes[1 - s] = b.nodes[1 - s]
         /\ Dap!AddNode(b, s, x).size = b.size + 1
         /\ Dap!AddNode(b, s, x).pushed = b.pushed
         /\ Dap!AddNode(b, s, x).popped = b.popped
         /\ Dap!AddNode(b, s, x).own = b.own
<1> DEFINE b2 == Dap!AddNode(b, s, x)
<1>1. b2 = [b EXCEPT !.nodes = [b.nodes EXCEPT ![s] = Append(b.nodes[s], x)], !.size = b.size + 1]
  BY DEF Dap!AddNode, DapBuilds
<1>2. b.nodes \in [Streams -> Seq(NodesFor(DapKeys))] /\ b.size \in Nat
  BY DEF DapBuilds
<1>3. Append(b.nodes[s], x) \in Seq(NodesFor(DapKeys))
  BY <1>2
<1>4. [b.nodes EXCEPT ![s] = Append(b.nodes[s], x)] \in [Streams -> Seq(NodesFor(DapKeys))]
  BY <1>2, <1>3
<1>8. b2 = [nodes |-> [b.nodes EXCEPT ![s] = Append(b.nodes[s], x)], size |-> b.size + 1,
            pushed |-> b.pushed, popped |-> b.popped, own |-> b.own]
  BY <1>1 DEF DapBuilds
<1>5. b2 \in DapBuilds
  <2>1. b.size + 1 \in Nat
    BY <1>2
  <2>2. /\ b.pushed \in [DapKeys -> Nat] /\ b.popped \in [DapKeys -> Nat]
        /\ b.own \in [role : DapRoles, count : [DapRoles -> Nat]]
    BY DEF DapBuilds
  <2> QED
    BY <1>4, <1>8, <2>1, <2>2 DEF DapBuilds
<1>6. /\ b2.nodes = [b.nodes EXCEPT ![s] = Append(b.nodes[s], x)]
      /\ b2.size = b.size + 1 /\ b2.pushed = b.pushed /\ b2.popped = b.popped /\ b2.own = b.own
  BY <1>1 DEF DapBuilds
<1>7. 1 - s \in Streams /\ 1 - s # s
  BY DEF Streams
<1> QED
  BY <1>2, <1>5, <1>6, <1>7

\* b2 is b with node x at the end of stream s.
NodeAdded(b, b2, s, x) ==
    /\ b2 \in DapBuilds
    /\ b2.nodes[s] = Append(b.nodes[s], x)
    /\ b2.nodes[1 - s] = b.nodes[1 - s]
    /\ b2.size = b.size + 1
    /\ b2.own = b.own

\* The calls of a key and action, and one more.
Calls(b, action, key) == IF action = "PUSH" THEN b.pushed[key] ELSE b.popped[key]
Called(b, b2, action, key) ==
    /\ b2.pushed = IF action = "PUSH" THEN [b.pushed EXCEPT ![key] = @ + 1] ELSE b.pushed
    /\ b2.popped = IF action = "POP" THEN [b.popped EXCEPT ![key] = @ + 1] ELSE b.popped

LEMMA DapEventNode ==
  ASSUME NEW b \in DapBuilds, NEW s \in Streams, NEW kind \in EventKinds,
         NEW action \in Actions, NEW key \in DapKeys, NEW x,
         x = [kind |-> kind, event |-> <<key, Calls(b, action, key) + 1>>]
  PROVE  /\ x \in NodesFor(DapKeys)
         /\ NodeAdded(b, Dap!EventNode(b, kind, action, key, s), s, x)
         /\ Called(b, Dap!EventNode(b, kind, action, key, s), action, key)
<1> DEFINE n == Calls(b, action, key) + 1
           b1 == Dap!AddNode(b, s, x)
           b2 == Dap!EventNode(b, kind, action, key, s)
<1>1. b.pushed \in [DapKeys -> Nat] /\ b.popped \in [DapKeys -> Nat]
  BY DEF DapBuilds
<1>2. n \in Nat
  BY <1>1 DEF Calls
<1>3. x \in NodesFor(DapKeys)
  <2>1. x = [kind |-> kind, event |-> <<key, n>>]
    OBVIOUS
  <2> HIDE DEF n
  <2> QED
    BY <1>2, <2>1 DEF NodesFor, EventKinds
<1>4. Dap!Rank(b, action, key) = n
  BY DEF Dap!Rank, Calls
<1> HIDE DEF n
<1>5. b2 = IF action = "PUSH" THEN [b1 EXCEPT !.pushed[key] = @ + 1] ELSE [b1 EXCEPT !.popped[key] = @ + 1]
  <2>1. x = [kind |-> kind, event |-> <<key, n>>]
    BY DEF n
  <2> QED
    BY <1>4, <2>1 DEF Dap!EventNode
<1>6. /\ b1 \in DapBuilds /\ b1.nodes[s] = Append(b.nodes[s], x) /\ b1.nodes[1 - s] = b.nodes[1 - s]
      /\ b1.size = b.size + 1 /\ b1.pushed = b.pushed /\ b1.popped = b.popped /\ b1.own = b.own
  BY <1>3, DapNode
<1> HIDE DEF b1, b2
<1>7. /\ b2 \in DapBuilds /\ b2.nodes = b1.nodes /\ b2.size = b1.size /\ b2.own = b1.own
      /\ b2.pushed = IF action = "PUSH" THEN [b1.pushed EXCEPT ![key] = @ + 1] ELSE b1.pushed
      /\ b2.popped = IF action = "POP" THEN [b1.popped EXCEPT ![key] = @ + 1] ELSE b1.popped
  <2>1. CASE action = "PUSH"
    <3>1. b2 = [b1 EXCEPT !.pushed = [b1.pushed EXCEPT ![key] = b1.pushed[key] + 1]]
      BY <1>5, <1>6, <2>1 DEF DapBuilds
    <3>2. [b1.pushed EXCEPT ![key] = b1.pushed[key] + 1] \in [DapKeys -> Nat]
      BY <1>6 DEF DapBuilds
    <3>3. b2 \in DapBuilds
      BY <1>6, <3>1, <3>2 DEF DapBuilds
    <3>4. /\ b2.nodes = b1.nodes /\ b2.size = b1.size /\ b2.own = b1.own /\ b2.popped = b1.popped
          /\ b2.pushed = [b1.pushed EXCEPT ![key] = b1.pushed[key] + 1]
      BY <1>6, <3>1 DEF DapBuilds
    <3> QED
      BY <2>1, <3>3, <3>4
  <2>2. CASE action = "POP"
    <3>1. b2 = [b1 EXCEPT !.popped = [b1.popped EXCEPT ![key] = b1.popped[key] + 1]]
      BY <1>5, <1>6, <2>2 DEF DapBuilds
    <3>2. [b1.popped EXCEPT ![key] = b1.popped[key] + 1] \in [DapKeys -> Nat]
      BY <1>6 DEF DapBuilds
    <3>3. b2 \in DapBuilds
      BY <1>6, <3>1, <3>2 DEF DapBuilds
    <3>4. /\ b2.nodes = b1.nodes /\ b2.size = b1.size /\ b2.own = b1.own /\ b2.pushed = b1.pushed
          /\ b2.popped = [b1.popped EXCEPT ![key] = b1.popped[key] + 1]
      BY <1>6, <3>1 DEF DapBuilds
    <3> QED
      BY <2>2, <3>3, <3>4
  <2> QED
    BY <2>1, <2>2 DEF Actions
<1> QED
  BY <1>3, <1>6, <1>7 DEF b2, NodeAdded, Called

\* More may fit.
LEMMA StreamWeaker ==
  ASSUME NEW b \in DapBuilds, NEW b2 \in DapBuilds, NEW s \in Streams, NEW c \in Nat, NEW d \in Nat,
         NEW has \in SUBSET Nat, NEW top \in Nat, NEW top2 \in Nat, StreamAt(b, s, c, has, top),
         b2.nodes[s] = b.nodes[s], b.size <= b2.size, c <= d, top <= top2
  PROVE  StreamAt(b2, s, d, has, top2)
<1>1. PICK lab : DapStream(b.nodes[s], lab, s, c, has, top, b.size)
  BY DEF StreamAt
<1> DEFINE q == b.nodes[s]
<1>2. q \in Seq(NodesFor(DapKeys)) /\ Labelled(q, lab, has, top, b.size) /\ \A i \in 1 .. Len(q) : DapFits(s, c, lab[i], q[i])
  BY <1>1 DEF DapStream
<1>3. lab \in Seq(Nat) /\ Len(lab) = Len(q) /\ \A i \in 1 .. Len(q) : lab[i] \in Nat /\ q[i] \in NodesFor(DapKeys)
  BY <1>2 DEF Labelled
<1>4. \A i \in 1 .. Len(q) : lab[i] <= top2
  BY <1>2, <1>3 DEF Labelled
<1>5. \A i \in 1 .. Len(q) : q[i].kind = "task" => q[i].place \in Nat
  BY <1>3 DEF NodesFor
<1>10. b.size \in Nat /\ b2.size \in Nat
  BY DEF DapBuilds
<1>11. \A i \in 1 .. Len(q) : q[i].kind = "task" => q[i].place <= b.size
  BY <1>2 DEF Labelled
<1>6. \A i \in 1 .. Len(q) : q[i].kind = "task" => q[i].place <= b2.size
  <2> HIDE DEF q
  <2> QED
    BY <1>5, <1>10, <1>11
<1>7. Labelled(q, lab, has, top2, b2.size)
  BY <1>2, <1>4, <1>6 DEF Labelled
<1>8. \A l, x : DapFits(s, c, l, x) => DapFits(s, d, l, x)
  <2>1. \A n \in 1 .. c + 1 : n \in 1 .. d + 1
    OBVIOUS
  <2>2. \A n \in 1 .. c : n \in 1 .. d
    OBVIOUS
  <2> QED
    BY <2>1, <2>2 DEF DapFits
<1>9. DapStream(q, lab, s, d, has, top2, b2.size)
  BY <1>2, <1>7, <1>8 DEF DapStream
<1> QED
  BY <1>9 DEF StreamAt

\* An event more.
LEMMA StreamEvent ==
  ASSUME NEW b \in DapBuilds, NEW b2 \in DapBuilds, NEW s \in Streams, NEW c \in Nat, NEW has \in SUBSET Nat, NEW top \in Nat,
         StreamAt(b, s, c, has, top), NEW n \in Nat, NEW r \in DapSlots, top < 8 * n + r,
         NEW x \in NodesFor(DapKeys), x = DapEvent(s, n, r),
         b2.nodes[s] = Append(b.nodes[s], x), b2.size = b.size + 1
  PROVE  StreamAt(b2, s, c, has \cup {8 * n + r}, 8 * n + r)
<1>1. PICK lab : DapStream(b.nodes[s], lab, s, c, has, top, b.size)
  BY DEF StreamAt
<1> DEFINE q == b.nodes[s]
           l == 8 * n + r
           q2 == Append(q, x)
           lab2 == Append(lab, l)
<1>2. q \in Seq(NodesFor(DapKeys)) /\ Labelled(q, lab, has, top, b.size) /\ \A i \in 1 .. Len(q) : DapFits(s, c, lab[i], q[i])
  BY <1>1 DEF DapStream
<1>3. l \in Nat /\ x.kind # "task" /\ b.size \in Nat
  <2>1. l \in Nat
    BY DEF DapSlots
  <2>2. DapEvent(s, n, r).kind # "task"
    BY DEF DapSlots, DapEvent
  <2> QED
    BY <2>1, <2>2 DEF DapBuilds
<1>4. lab \in Seq(Nat) /\ Len(lab) = Len(q) /\ Len(q) \in Nat
  BY <1>2 DEF Labelled
<1>5. DapFits(s, c, l, x)
  BY DEF DapFits, DapSlots
<1> HIDE DEF l
<1>6. Labelled(q2, lab2, has \cup {l}, l, b.size + 1)
  <2>1. top < l
    BY DEF l
  <2> HIDE DEF q
  <2> QED
    BY <1>2, <1>3, <2>1, LabelledEvent
<1>7. /\ q2 \in Seq(NodesFor(DapKeys)) /\ Len(q2) = Len(q) + 1 /\ q2[Len(q) + 1] = x
      /\ \A i \in 1 .. Len(q) : q2[i] = q[i]
  <2> HIDE DEF q
  <2> QED
    BY <1>2, AppendElements
<1>8. /\ lab2[Len(q) + 1] = l
      /\ \A i \in 1 .. Len(q) : lab2[i] = lab[i]
  <2>1. lab2[Len(lab) + 1] = l /\ \A i \in 1 .. Len(lab) : lab2[i] = lab[i]
    <3>1. lab \in Seq(Nat) /\ l \in Nat
      BY <1>3, <1>4
    <3> QED
      BY <3>1, AppendElements
  <2> QED
    BY <1>4, <2>1
<1> HIDE DEF q2, lab2
<1>9. \A i \in 1 .. Len(q2) : DapFits(s, c, lab2[i], q2[i])
  <2> SUFFICES ASSUME NEW i \in 1 .. Len(q2) PROVE DapFits(s, c, lab2[i], q2[i])
    OBVIOUS
  <2> HIDE DEF q
  <2>1. CASE i \in 1 .. Len(q)
    BY <1>2, <1>7, <1>8, <2>1
  <2>2. CASE i = Len(q) + 1
    BY <1>5, <1>7, <1>8, <2>2
  <2> QED
    BY <1>4, <1>7, <2>1, <2>2
<1>10. DapStream(q2, lab2, s, c, has \cup {l}, l, b.size + 1)
  BY <1>6, <1>7, <1>9 DEF DapStream
<1>11. StreamAt(b2, s, c, has \cup {l}, l)
  BY <1>10 DEF StreamAt, q2
<1> QED
  BY <1>11 DEF l

\* A task more.
LEMMA StreamTask ==
  ASSUME NEW b \in DapBuilds, NEW b2 \in DapBuilds, NEW s \in Streams, NEW c \in Nat, NEW has \in SUBSET Nat, NEW top \in Nat,
         StreamAt(b, s, c, has, top), NEW l \in Nat, top <= l, l \notin has,
         NEW x \in NodesFor(DapKeys), x.kind = "task", x.place = b.size + 1, DapFits(s, c, l, x),
         b2.nodes[s] = Append(b.nodes[s], x), b2.size = b.size + 1
  PROVE  StreamAt(b2, s, c, has, l)
<1>1. PICK lab : DapStream(b.nodes[s], lab, s, c, has, top, b.size)
  BY DEF StreamAt
<1> DEFINE q == b.nodes[s]
           q2 == Append(q, x)
           lab2 == Append(lab, l)
<1>2. q \in Seq(NodesFor(DapKeys)) /\ Labelled(q, lab, has, top, b.size) /\ \A i \in 1 .. Len(q) : DapFits(s, c, lab[i], q[i])
  BY <1>1 DEF DapStream
<1>3. b.size \in Nat
  BY DEF DapBuilds
<1>4. lab \in Seq(Nat) /\ Len(lab) = Len(q) /\ Len(q) \in Nat
  BY <1>2 DEF Labelled
<1>6. Labelled(q2, lab2, has, l, b.size + 1)
  <2> HIDE DEF q
  <2> QED
    BY <1>2, <1>3, LabelledTask
<1>7. /\ q2 \in Seq(NodesFor(DapKeys)) /\ Len(q2) = Len(q) + 1 /\ q2[Len(q) + 1] = x
      /\ \A i \in 1 .. Len(q) : q2[i] = q[i]
  <2> HIDE DEF q
  <2> QED
    BY <1>2, AppendElements
<1>8. /\ lab2[Len(q) + 1] = l
      /\ \A i \in 1 .. Len(q) : lab2[i] = lab[i]
  <2>1. lab2[Len(lab) + 1] = l /\ \A i \in 1 .. Len(lab) : lab2[i] = lab[i]
    <3>1. lab \in Seq(Nat) /\ l \in Nat
      BY <1>3, <1>4
    <3> QED
      BY <3>1, AppendElements
  <2> QED
    BY <1>4, <2>1
<1> HIDE DEF q2, lab2
<1>9. \A i \in 1 .. Len(q2) : DapFits(s, c, lab2[i], q2[i])
  <2> SUFFICES ASSUME NEW i \in 1 .. Len(q2) PROVE DapFits(s, c, lab2[i], q2[i])
    OBVIOUS
  <2> HIDE DEF q
  <2>1. CASE i \in 1 .. Len(q)
    BY <1>2, <1>7, <1>8, <2>1
  <2>2. CASE i = Len(q) + 1
    BY <1>7, <1>8, <2>2
  <2> QED
    BY <1>4, <1>7, <2>1, <2>2
<1>10. DapStream(q2, lab2, s, c, has, l, b.size + 1)
  BY <1>6, <1>7, <1>9 DEF DapStream
<1> QED
  BY <1>10 DEF StreamAt, q2

\* b2 is b with one more event of batch s.
EventMade(b, b2, s, key) ==
    /\ b2 \in DapBuilds
    /\ SameFor(1 - s, b, b2)
    /\ b2.own = b.own
    /\ Made(b2, s, key) = Made(b, s, key) + 1
    /\ \A k \in DapKeys : k # key => Made(b2, s, k) = Made(b, s, k)

LEMMA OwnEvent ==
  ASSUME NEW b \in DapBuilds, NEW s \in Streams, NEW kind \in EventKinds, NEW key \in DapKeys,
         NEW c \in Nat, NEW has \in SUBSET Nat, NEW top \in Nat, StreamAt(b, s, c, has, top),
         NEW n \in Nat, NEW r \in DapSlots, top < 8 * n + r,
         DapEvent(s, n, r) = [kind |-> kind, event |-> <<key, Made(b, s, key) + 1>>]
  PROVE  /\ EventMade(b, Dap!EventNode(b, kind, OwnAction(s), key, s), s, key)
         /\ StreamAt(Dap!EventNode(b, kind, OwnAction(s), key, s), s, c, has \cup {8 * n + r}, 8 * n + r)
<1>1. OwnAction(s) \in Actions /\ s \in {0, 1} /\ 1 - s \in Streams
  BY DEF OwnAction, Streams, Actions
<1>9. PICK action \in Actions : action = OwnAction(s)
  BY <1>1
<1> DEFINE b2 == Dap!EventNode(b, kind, action, key, s)
           x == [kind |-> kind, event |-> <<key, Calls(b, action, key) + 1>>]
<1>2. x \in NodesFor(DapKeys) /\ NodeAdded(b, b2, s, x) /\ Called(b, b2, action, key)
  BY DapEventNode
<1>3. x = DapEvent(s, n, r)
  BY <1>1, <1>9 DEF OwnAction, Made, Calls
<1> HIDE DEF x, b2
<1>4. StreamAt(b2, s, c, has \cup {8 * n + r}, 8 * n + r)
  BY <1>2, <1>3, StreamEvent DEF NodeAdded
<1>5. /\ b.size \in Nat /\ b.pushed \in [DapKeys -> Nat] /\ b.popped \in [DapKeys -> Nat]
  BY DEF DapBuilds
<1>6. SameFor(1 - s, b, b2)
  <2>1. b.size <= b2.size
    BY <1>2, <1>5 DEF NodeAdded
  <2>2. \A k \in DapKeys : Made(b2, 1 - s, k) = Made(b, 1 - s, k)
    BY <1>1, <1>2, <1>9 DEF Made, OwnAction, Called
  <2> QED
    BY <1>2, <2>1, <2>2 DEF SameFor, NodeAdded
<1>7. /\ Made(b2, s, key) = Made(b, s, key) + 1
      /\ \A k \in DapKeys : k # key => Made(b2, s, k) = Made(b, s, k)
  BY <1>1, <1>2, <1>5, <1>9 DEF Made, OwnAction, Called
<1>8. EventMade(b, b2, s, key)
  BY <1>2, <1>6, <1>7 DEF EventMade, NodeAdded
<1> QED
  BY <1>4, <1>8, <1>9 DEF b2

LEMMA OwnTask ==
  ASSUME NEW b \in DapBuilds, NEW s \in Streams, NEW unit \in {"compute", "comm"},
         NEW c \in Nat, NEW has \in SUBSET Nat, NEW top \in Nat, StreamAt(b, s, c, has, top),
         NEW l \in Nat, top <= l, l \notin has,
         (unit = "compute" /\ \E n \in 1 .. c + 1 : l = 8 * n) \/ (unit = "comm" /\ \E n \in 1 .. c : l = 8 * n + 3)
  PROVE  /\ Dap!AddTask(b, s, unit, s) \in DapBuilds
         /\ StreamAt(Dap!AddTask(b, s, unit, s), s, c, has, l)
         /\ SameFor(1 - s, b, Dap!AddTask(b, s, unit, s))
         /\ Dap!AddTask(b, s, unit, s).own = b.own
         /\ \A k \in DapKeys : Made(Dap!AddTask(b, s, unit, s), s, k) = Made(b, s, k)
<1> DEFINE x == [kind |-> "task", data |-> s, unit |-> unit, place |-> b.size + 1]
           b2 == Dap!AddNode(b, s, x)
<1>1. Dap!AddTask(b, s, unit, s) = b2
  BY DEF Dap!AddTask
<1>2. b.size \in Nat
  BY DEF DapBuilds
<1>3. x \in NodesFor(DapKeys) /\ x.kind = "task" /\ x.place = b.size + 1 /\ x.unit = unit /\ x.data = s
  <2>1. s \in {0, 1} /\ b.size + 1 \in Nat
    BY <1>2 DEF Streams
  <2> QED
    BY <2>1 DEF NodesFor
<1>4. DapFits(s, c, l, x)
  BY <1>3 DEF DapFits
<1> HIDE DEF x
<1>5. /\ b2 \in DapBuilds /\ b2.nodes[s] = Append(b.nodes[s], x) /\ b2.nodes[1 - s] = b.nodes[1 - s]
      /\ b2.size = b.size + 1 /\ b2.pushed = b.pushed /\ b2.popped = b.popped /\ b2.own = b.own
  BY <1>3, DapNode
<1> HIDE DEF b2
<1>6. StreamAt(b2, s, c, has, l)
  BY <1>3, <1>4, <1>5, StreamTask
<1>7. SameFor(1 - s, b, b2) /\ \A k \in DapKeys : Made(b2, s, k) = Made(b, s, k)
  BY <1>2, <1>5 DEF SameFor, Made
<1> QED
  BY <1>1, <1>5, <1>6, <1>7

LEMMA SameForTrans ==
  ASSUME NEW t \in Streams, NEW b1 \in DapBuilds, NEW b2 \in DapBuilds, NEW b3 \in DapBuilds,
         SameFor(t, b1, b2), SameFor(t, b2, b3)
  PROVE  SameFor(t, b1, b3)
<1>1. b1.size \in Nat /\ b2.size \in Nat /\ b3.size \in Nat
  BY DEF DapBuilds
<1> QED
  BY <1>1 DEF SameFor

LEMMA BodyLabels ==
  ASSUME NEW s \in Streams, NEW c \in Nat
  PROVE  /\ Body(s, c) \in SUBSET Nat
         /\ \A k \in Nat : 8 * k \notin Body(s, c) /\ 8 * k + 3 \notin Body(s, c)
         /\ \A l \in Body(s, c) : l <= 8 * c + 5
         /\ Body(s, c + 1) = Body(s, c) \cup {8 * (c + 1) + 1} \cup (IF s = 0 /\ c = 0 THEN {} ELSE {8 * (c + 1) + 2})
                                        \cup {8 * (c + 1) + 4} \cup {8 * (c + 1) + 5}
         /\ Body(s, 0) = IF s = 0 THEN {} ELSE {5}
<1>0. s \in {0, 1}
  BY DEF Streams
<1>1. Body(s, c) \in SUBSET Nat
  BY DEF Body, BodySlots
<1>2. ASSUME NEW k \in Nat PROVE 8 * k \notin Body(s, c) /\ 8 * k + 3 \notin Body(s, c)
  BY DEF Body, BodySlots
<1>3. ASSUME NEW l \in Body(s, c) PROVE l <= 8 * c + 5
  <2>1. PICK n \in Nat, r \in BodySlots : l = 8 * n + r /\ Around(s, c, n, r)
    BY DEF Body, BodySlots
  <2>2. n <= c
    BY <1>0, <2>1 DEF Around
  <2> QED
    BY <2>1, <2>2 DEF BodySlots
<1>4. ASSUME NEW n \in Nat, NEW r \in BodySlots
      PROVE  /\ Around(s, c + 1, n, r) => Around(s, c, n, r) \/ (n = c + 1 /\ (r # 2 \/ ~(s = 0 /\ c = 0)))
             /\ Around(s, c, n, r) => Around(s, c + 1, n, r)
             /\ n = c + 1 /\ (r # 2 \/ ~(s = 0 /\ c = 0)) => Around(s, c + 1, n, r)
  BY <1>0 DEF Around, BodySlots
<1>5. Body(s, c + 1) \subseteq Body(s, c) \cup {8 * (c + 1) + 1} \cup (IF s = 0 /\ c = 0 THEN {} ELSE {8 * (c + 1) + 2})
                                        \cup {8 * (c + 1) + 4} \cup {8 * (c + 1) + 5}
  <2> SUFFICES ASSUME NEW l \in Body(s, c + 1)
               PROVE  \/ l \in Body(s, c) \/ l = 8 * (c + 1) + 1 \/ l = 8 * (c + 1) + 4 \/ l = 8 * (c + 1) + 5
                      \/ ~(s = 0 /\ c = 0) /\ l = 8 * (c + 1) + 2
    OBVIOUS
  <2>1. PICK n \in Nat, r \in BodySlots : l = 8 * n + r /\ Around(s, c + 1, n, r)
    BY DEF Body, BodySlots
  <2>2. CASE Around(s, c, n, r)
    BY <2>1, <2>2 DEF Body, BodySlots
  <2>3. CASE n = c + 1 /\ (r # 2 \/ ~(s = 0 /\ c = 0))
    BY <2>1, <2>3 DEF BodySlots
  <2> QED
    BY <1>4, <2>1, <2>2, <2>3
<1>6. Body(s, c) \subseteq Body(s, c + 1)
  <2> SUFFICES ASSUME NEW l \in Body(s, c) PROVE l \in Body(s, c + 1)
    OBVIOUS
  <2>1. PICK n \in Nat, r \in BodySlots : l = 8 * n + r /\ Around(s, c, n, r)
    BY DEF Body, BodySlots
  <2>2. Around(s, c + 1, n, r)
    BY <1>4, <2>1
  <2> QED
    BY <2>1, <2>2 DEF Body, BodySlots
<1>7. ASSUME NEW r \in BodySlots, r # 2 \/ ~(s = 0 /\ c = 0) PROVE 8 * (c + 1) + r \in Body(s, c + 1)
  <2>1. c + 1 \in Nat /\ 8 * (c + 1) + r \in Nat
    BY DEF BodySlots
  <2>2. Around(s, c + 1, c + 1, r)
    BY <1>4, <1>7, <2>1
  <2> QED
    BY <2>1, <2>2 DEF Body, BodySlots
<1>8. Body(s, 0) = IF s = 0 THEN {} ELSE {5}
  <2>1. ASSUME NEW n \in Nat, NEW r \in BodySlots PROVE Around(s, 0, n, r) <=> s = 1 /\ n = 0 /\ r = 5
    BY <1>0 DEF Around, BodySlots
  <2>2. \A l \in Body(s, 0) : s = 1 /\ l = 5
    BY <2>1 DEF Body, BodySlots
  <2>3. s = 1 => 5 \in Body(s, 0)
    BY <2>1 DEF Body, BodySlots
  <2> QED
    BY <1>0, <2>2, <2>3
<1>9. \A r \in {1, 4, 5} : 8 * (c + 1) + r \in Body(s, c + 1)
  BY <1>7 DEF BodySlots
<1>10. ~(s = 0 /\ c = 0) => 8 * (c + 1) + 2 \in Body(s, c + 1)
  BY <1>7 DEF BodySlots
<1> QED
  BY <1>1, <1>2, <1>3, <1>5, <1>6, <1>8, <1>9, <1>10

\* Only batch s has gone on, and its end has not come.
Moved(b, b2, s) ==
    /\ b2 \in DapBuilds
    /\ b2.own.role = b.own.role
    /\ SameFor(1 - s, b, b2)
    /\ Made(b2, s, "end") = Made(b, s, "end")

LEMMA MovedTrans ==
  ASSUME NEW s \in Streams, NEW b1 \in DapBuilds, NEW b2, NEW b3, Moved(b1, b2, s), Moved(b2, b3, s)
  PROVE  Moved(b1, b3, s)
<1>1. 1 - s \in Streams
  BY DEF Streams
<1> QED
  BY <1>1, SameForTrans DEF Moved

LEMMA RoleFacts ==
  ASSUME NEW b, NEW s \in Streams, b.own.role = RoleOf(s)
  PROVE  /\ Dap!StreamOf(b) = s
         /\ Dap!ActionOf(b) = OwnAction(s)
         /\ Dap!Preceder(b) <=> s = 0
  BY DEF Dap!StreamOf, Dap!ActionOf, Dap!Preceder, RoleOf, OwnAction, Streams

\* Batch t is as it was, except perhaps for its calls at the end.
SameBatch(t, b, b2) ==
    /\ b2.nodes[t] = b.nodes[t] /\ b.size <= b2.size
    /\ b2.own.count[RoleOf(t)] = b.own.count[RoleOf(t)]
    /\ Made(b2, t, "compute") = Made(b, t, "compute")
    /\ Made(b2, t, "comm") = Made(b, t, "comm")

LEMMA BatchStays ==
  ASSUME NEW t \in Streams, NEW c \in Nat, NEW b \in DapBuilds, NEW b2 \in DapBuilds,
         SameFor(t, b, b2) \/ SameBatch(t, b, b2), BatchAt(b, t, c)
  PROVE  BatchAt(b2, t, c)
<1>0. SameBatch(t, b, b2)
  BY DEF SameFor, SameBatch, DapKeys
<1>1. b2.nodes[t] = b.nodes[t] /\ b.size <= b2.size
  BY <1>0 DEF SameBatch
<1>2. StreamAt(b, t, c, Body(t, c), 8 * (c + 1)) /\ 8 * (c + 1) \in Nat /\ Body(t, c) \in SUBSET Nat
  BY BodyLabels DEF BatchAt
<1>3. StreamAt(b2, t, c, Body(t, c), 8 * (c + 1))
  <2>1. c <= c /\ 8 * (c + 1) <= 8 * (c + 1)
    OBVIOUS
  <2> QED
    BY <1>1, <1>2, <2>1, StreamWeaker
<1> QED
  BY <1>0, <1>3 DEF BatchAt, SameBatch

\* Its calls for one communication take a batch to the next.
LEMMA BatchStep ==
  ASSUME NEW b \in DapBuilds, NEW s \in Streams, b.own.role = RoleOf(s), NEW c \in Nat, BatchAt(b, s, c)
  PROVE  /\ Moved(b, Dap!AddCommunicationOp(Dap!Compute(b), FALSE), s)
         /\ BatchAt(Dap!AddCommunicationOp(Dap!Compute(b), FALSE), s, c + 1)
<1> DEFINE d == c + 1
           first == s = 0 /\ c = 0
           b1 == Dap!AddTask(b, s, "compute", s)
           b2 == Dap!EventNode(b1, "RECORD", OwnAction(s), "compute", s)
           b3 == IF first THEN b2 ELSE Dap!EventNode(b2, "WAIT", OwnAction(s), "comm", s)
           b4 == Dap!AddTask(b3, s, "comm", s)
           b5 == Dap!EventNode(b4, "RECORD", OwnAction(s), "comm", s)
           b6 == Dap!EventNode(b5, "WAIT", OwnAction(s), "compute", s)
           b7 == Dap!Increment(b6)
           has2 == Body(s, c) \cup {8 * d + 1}
           has3 == IF first THEN has2 ELSE has2 \cup {8 * d + 2}
           has5 == has3 \cup {8 * d + 4}
           has6 == has5 \cup {8 * d + 5}
<1>0. /\ s \in {0, 1} /\ 1 - s \in Streams /\ d \in Nat /\ DapKeys = {"compute", "comm", "end"}
      /\ "RECORD" \in EventKinds /\ "WAIT" \in EventKinds
      /\ 1 \in DapSlots /\ 2 \in DapSlots /\ 4 \in DapSlots /\ 5 \in DapSlots
  BY DEF Streams, DapKeys, EventKinds, DapSlots
<1>1. /\ Body(s, c) \in SUBSET Nat /\ \A l \in Body(s, c) : l <= 8 * c + 5
      /\ 8 * d \notin Body(s, c) /\ 8 * d + 3 \notin Body(s, c)
      /\ Body(s, d) = has6
  BY <1>0, BodyLabels
<1>2. StreamAt(b, s, d, Body(s, c), 8 * d)
  <2>1. StreamAt(b, s, c, Body(s, c), 8 * d) /\ 8 * d \in Nat /\ b.size \in Nat
    BY DEF BatchAt, DapBuilds
  <2> QED
    BY <1>0, <1>1, <2>1, StreamWeaker
<1>3. /\ Made(b, s, "compute") = 2 * c + s
      /\ Made(b, s, "comm") = IF s = 0 /\ c > 0 THEN 2 * c - 1 ELSE 2 * c
      /\ b.own.count[RoleOf(s)] = c
  BY DEF BatchAt
<1> HIDE DEF d
<1>4. /\ b1 \in DapBuilds /\ StreamAt(b1, s, d, Body(s, c), 8 * d) /\ SameFor(1 - s, b, b1) /\ b1.own = b.own
      /\ \A k \in DapKeys : Made(b1, s, k) = Made(b, s, k)
  <2>1. "compute" \in {"compute", "comm"} /\ 8 * d \in Nat /\ 8 * d <= 8 * d /\ \E n \in 1 .. d + 1 : 8 * d = 8 * n
    BY <1>0 DEF d
  <2> QED
    BY <1>0, <1>1, <1>2, <2>1, OwnTask
<1> HIDE DEF b1
<1>5. /\ EventMade(b1, b2, s, "compute") /\ StreamAt(b2, s, d, has2, 8 * d + 1)
  <2>1. DapEvent(s, d, 1) = [kind |-> "RECORD", event |-> <<"compute", Made(b1, s, "compute") + 1>>]
    <3>1. Made(b1, s, "compute") + 1 = 2 * d - 1 + s
      BY <1>0, <1>3, <1>4 DEF d
    <3> QED
      BY <3>1 DEF DapEvent
  <2>2. 8 * d \in Nat /\ 8 * d < 8 * d + 1
    BY <1>0
  <2> QED
    BY <1>0, <1>1, <1>4, <2>1, <2>2, OwnEvent
<1> HIDE DEF b2
<1>6. /\ has2 \in SUBSET Nat /\ has3 \in SUBSET Nat /\ has5 \in SUBSET Nat
      /\ 8 * d + 3 \notin has3
  BY <1>0, <1>1
<1>7. /\ b3 \in DapBuilds /\ StreamAt(b3, s, d, has3, 8 * d + 2) /\ SameFor(1 - s, b2, b3) /\ b3.own = b2.own
      /\ Made(b3, s, "comm") = IF first THEN Made(b2, s, "comm") ELSE Made(b2, s, "comm") + 1
      /\ \A k \in DapKeys : k # "comm" => Made(b3, s, k) = Made(b2, s, k)
  <2>0. b2 \in DapBuilds /\ b2.size \in Nat
    BY <1>5 DEF EventMade, DapBuilds
  <2>1. CASE first
    <3>1. StreamAt(b2, s, d, has2, 8 * d + 2)
      <4>1. 8 * d + 1 \in Nat /\ 8 * d + 2 \in Nat /\ 8 * d + 1 <= 8 * d + 2 /\ d <= d /\ b2.size <= b2.size
        BY <1>0, <2>0
      <4> HIDE DEF has2
      <4> QED
        BY <1>0, <1>5, <1>6, <2>0, <4>1, StreamWeaker
    <3> QED
      BY <2>0, <2>1, <3>1 DEF SameFor, DapBuilds
  <2>2. CASE ~first
    <3> DEFINE b8 == Dap!EventNode(b2, "WAIT", OwnAction(s), "comm", s)
    <3>1. DapEvent(s, d, 2) = [kind |-> "WAIT", event |-> <<"comm", Made(b2, s, "comm") + 1>>]
      <4>1. Made(b2, s, "comm") + 1 = 2 * d - 2 + s
        BY <1>0, <1>3, <1>4, <1>5, <2>2 DEF d, EventMade
      <4> QED
        BY <4>1 DEF DapEvent
    <3>2. 8 * d + 1 \in Nat /\ 8 * d + 1 < 8 * d + 2
      BY <1>0
    <3> HIDE DEF has2
    <3>3. EventMade(b2, b8, s, "comm") /\ StreamAt(b8, s, d, has2 \cup {8 * d + 2}, 8 * d + 2)
      BY <1>0, <1>5, <1>6, <2>0, <3>1, <3>2, OwnEvent
    <3> QED
      BY <2>2, <3>3 DEF EventMade
  <2> QED
    BY <2>1, <2>2
<1> HIDE DEF b3, has3
<1>8. /\ b4 \in DapBuilds /\ StreamAt(b4, s, d, has3, 8 * d + 3) /\ SameFor(1 - s, b3, b4) /\ b4.own = b3.own
      /\ \A k \in DapKeys : Made(b4, s, k) = Made(b3, s, k)
  <2>1. /\ "comm" \in {"compute", "comm"} /\ 8 * d + 2 \in Nat /\ 8 * d + 3 \in Nat /\ 8 * d + 2 <= 8 * d + 3
        /\ \E n \in 1 .. d : 8 * d + 3 = 8 * n + 3
    BY <1>0 DEF d
  <2>2. b3 \in DapBuilds /\ StreamAt(b3, s, d, has3, 8 * d + 2) /\ has3 \in SUBSET Nat /\ 8 * d + 3 \notin has3
    BY <1>6, <1>7
  <2> HIDE DEF has3, b3
  <2> QED
    BY <1>0, <2>1, <2>2, OwnTask
<1> HIDE DEF b4
<1>9. EventMade(b4, b5, s, "comm") /\ StreamAt(b5, s, d, has5, 8 * d + 4)
  <2>1. DapEvent(s, d, 4) = [kind |-> "RECORD", event |-> <<"comm", Made(b4, s, "comm") + 1>>]
    <3>0. Made(b2, s, "comm") = Made(b, s, "comm") /\ Made(b4, s, "comm") = Made(b3, s, "comm")
      BY <1>0, <1>4, <1>5, <1>8 DEF EventMade
    <3>1. Made(b4, s, "comm") + 1 = 2 * d - 1 + s
      <4>1. CASE first
        <5>1. Made(b4, s, "comm") = 0 /\ s = 0 /\ d = 1
          BY <1>3, <1>7, <3>0, <4>1 DEF d
        <5> QED
          BY <5>1
      <4>2. CASE ~first
        <5>1. Made(b4, s, "comm") = (IF s = 0 /\ c > 0 THEN 2 * c - 1 ELSE 2 * c) + 1
          BY <1>3, <1>7, <3>0, <4>2
        <5> QED
          BY <1>0, <4>2, <5>1 DEF d
      <4> QED
        BY <4>1, <4>2
    <3> QED
      BY <3>1 DEF DapEvent
  <2>2. 8 * d + 3 \in Nat /\ 8 * d + 3 < 8 * d + 4
    BY <1>0
  <2> QED
    BY <1>0, <1>6, <1>8, <2>1, <2>2, OwnEvent
<1> HIDE DEF b5, has5
<1>10. EventMade(b5, b6, s, "compute") /\ StreamAt(b6, s, d, has6, 8 * d + 5)
  <2>1. DapEvent(s, d, 5) = [kind |-> "WAIT", event |-> <<"compute", Made(b5, s, "compute") + 1>>]
    <3>1. Made(b5, s, "compute") + 1 = 2 * d + s
      BY <1>0, <1>3, <1>4, <1>5, <1>7, <1>8, <1>9 DEF d, EventMade
    <3> QED
      BY <3>1 DEF DapEvent
  <2>2. 8 * d + 4 \in Nat /\ 8 * d + 4 < 8 * d + 5
    BY <1>0
  <2>3. b5 \in DapBuilds
    BY <1>9 DEF EventMade
  <2> QED
    BY <1>0, <1>6, <1>9, <2>1, <2>2, <2>3, OwnEvent
<1> HIDE DEF b6
<1>11. /\ b6 \in DapBuilds /\ b6.own = b.own
       /\ Made(b6, s, "compute") = 2 * d + s
       /\ Made(b6, s, "comm") = 2 * d - (IF s = 0 THEN 1 ELSE 0)
       /\ Made(b6, s, "end") = Made(b, s, "end")
       /\ SameFor(1 - s, b, b6)
  <2>1. /\ b6 \in DapBuilds /\ b6.own = b.own
    BY <1>4, <1>5, <1>7, <1>8, <1>9, <1>10 DEF EventMade
  <2>2. Made(b6, s, "compute") = 2 * d + s
    BY <1>0, <1>3, <1>4, <1>5, <1>7, <1>8, <1>9, <1>10 DEF EventMade, d
  <2>3. Made(b6, s, "comm") = 2 * d - (IF s = 0 THEN 1 ELSE 0)
    BY <1>0, <1>3, <1>4, <1>5, <1>7, <1>8, <1>9, <1>10 DEF EventMade, d
  <2>4. Made(b6, s, "end") = Made(b, s, "end")
    BY <1>0, <1>4, <1>5, <1>7, <1>8, <1>9, <1>10 DEF EventMade
  <2>5. SameFor(1 - s, b, b6)
    BY <1>0, <1>4, <1>5, <1>7, <1>8, <1>9, <1>10, SameForTrans DEF EventMade
  <2> QED
    BY <2>1, <2>2, <2>3, <2>4, <2>5
<1>12. /\ b7 \in DapBuilds /\ b7.nodes = b6.nodes /\ b7.size = b6.size /\ b7.pushed = b6.pushed /\ b7.popped = b6.popped
       /\ b7.own.role = b.own.role /\ b7.own.count[RoleOf(s)] = d
       /\ b7.own.count[RoleOf(1 - s)] = b6.own.count[RoleOf(1 - s)]

  <2>1. b6.own \in [role : DapRoles, count : [DapRoles -> Nat]] /\ b6.own.role = RoleOf(s) /\ RoleOf(s) \in DapRoles
    BY <1>11 DEF DapBuilds, RoleOf, DapRoles
  <2>2. RoleOf(1 - s) # RoleOf(s) /\ RoleOf(1 - s) \in DapRoles
    BY <1>0 DEF RoleOf, DapRoles
  <2> DEFINE own2 == [role |-> b6.own.role, count |-> [b6.own.count EXCEPT ![RoleOf(s)] = d]]
  <2>3. b7 = [b6 EXCEPT !.own = own2]
    <3>1. b6.own.count[RoleOf(s)] + 1 = d
      BY <1>3, <1>11 DEF d
    <3>2. b7 = [b6 EXCEPT !.own = [b6.own EXCEPT !.count = [b6.own.count EXCEPT ![RoleOf(s)] = d]]]
      BY <1>11, <2>1, <3>1 DEF Dap!Increment, DapBuilds
    <3>3. [b6.own EXCEPT !.count = [b6.own.count EXCEPT ![RoleOf(s)] = d]] = own2
      BY <2>1
    <3> QED
      BY <3>2, <3>3
  <2>4. own2 \in [role : DapRoles, count : [DapRoles -> Nat]]
    BY <1>0, <2>1
  <2>5. own2.role = b.own.role /\ own2.count[RoleOf(s)] = d /\ own2.count[RoleOf(1 - s)] = b6.own.count[RoleOf(1 - s)]
    BY <1>11, <2>1, <2>2
  <2> HIDE DEF own2
  <2>6. b7 = [nodes |-> b6.nodes, size |-> b6.size, pushed |-> b6.pushed, popped |-> b6.popped, own |-> own2]
    BY <1>11, <2>3 DEF DapBuilds
  <2>7. b7 \in DapBuilds
    BY <1>11, <2>4, <2>6 DEF DapBuilds
  <2> QED
    BY <2>5, <2>6, <2>7
<1> HIDE DEF b7
<1>13. SameFor(1 - s, b, b7) /\ \A k \in DapKeys : Made(b7, s, k) = Made(b6, s, k)
  BY <1>11, <1>12 DEF SameFor, Made
<1>14. Moved(b, b7, s)
  BY <1>0, <1>11, <1>12, <1>13 DEF Moved
<1>15. BatchAt(b7, s, d)
  <2>1. StreamAt(b7, s, d, has6, 8 * (d + 1))
    <3>2. /\ 8 * d + 5 \in Nat /\ 8 * (d + 1) \in Nat /\ 8 * d + 5 <= 8 * (d + 1) /\ d <= d
      BY <1>0
    <3>3. has6 \in SUBSET Nat
      BY <1>0, <1>6
    <3>1. /\ b6.size \in Nat /\ b7.size \in Nat /\ b6.size <= b7.size /\ b7.nodes[s] = b6.nodes[s]
      BY <1>0, <1>6, <1>11, <1>12 DEF DapBuilds
    <3>4. StreamAt(b6, s, d, has6, 8 * d + 5) /\ b6 \in DapBuilds /\ b7 \in DapBuilds /\ d \in Nat
      BY <1>0, <1>10, <1>11, <1>12
    <3> HIDE DEF has6
    <3> QED
      BY <3>1, <3>2, <3>3, <3>4, StreamWeaker
  <2>2. has6 = Body(s, d)
    BY <1>1 DEF has5, has3
  <2>3. d > 0
    BY DEF d
  <2> HIDE DEF has6
  <2> QED
    BY <1>0, <1>11, <1>12, <1>13, <2>1, <2>2, <2>3 DEF BatchAt
<1>16. Dap!AddCommunicationOp(Dap!Compute(b), FALSE) = b7
  <2>1. Dap!Compute(b) = b1
    BY RoleFacts DEF Dap!Compute, b1
  <2>2. b1.own.role = RoleOf(s) /\ b2.own.role = RoleOf(s) /\ b3.own.role = RoleOf(s) /\ b4.own.role = RoleOf(s) /\ b5.own.role = RoleOf(s)
    BY <1>4, <1>5, <1>7, <1>8, <1>9 DEF EventMade
  <2>3. Dap!AddDapEventsBeforeComm(b1) = b3
    <3>1. Dap!FirstOfPreceder(b1) <=> first
      <4>1. b1.own.count[b1.own.role] = c
        BY <1>3, <1>4
      <4> QED
        BY <2>2, <4>1, RoleFacts DEF Dap!FirstOfPreceder, Dap!GetCount
    <3> QED
      BY <2>2, <3>1, RoleFacts DEF Dap!AddDapEventsBeforeComm, Dap!RecordEvent, Dap!WaitEvent, b2, b3
  <2>4. Dap!Comm(b3) = b4
    BY <2>2, RoleFacts DEF Dap!Comm, b4
  <2>5. Dap!AddDapEventsAfterComm(b4) = b7
    BY <2>2, RoleFacts DEF Dap!AddDapEventsAfterComm, Dap!RecordEvent, Dap!WaitEvent, b5, b6, b7
  <2> QED
    BY <2>1, <2>3, <2>4, <2>5 DEF Dap!AddCommunicationOp
<1> QED
  BY <1>14, <1>15, <1>16 DEF d

\* What holds of 0 and is kept up to n holds of n.
LEMMA UpTo ==
  ASSUME NEW n \in Nat, NEW S \in SUBSET (0 .. n), 0 \in S, \A i \in 1 .. n : i - 1 \in S => i \in S
  PROVE  \A i \in 0 .. n : i \in S
<1> DEFINE Out == {i \in Nat : i \in 0 .. n /\ i \notin S}
<1>1. SUFFICES ASSUME Out # {} PROVE FALSE
  OBVIOUS
<1>2. IsWellFoundedOn(OpToRel(<, Nat), Nat)
  BY NatLessThanWellFounded
<1>3. PICK i \in Out : \A j \in Out : ~(<<j, i>> \in OpToRel(<, Nat))
  BY <1>1, <1>2, WFMin
<1>4. \A j \in Out : ~(j < i)
  BY <1>3 DEF OpToRel
<1>8. i \in 0 .. n /\ i \notin S
  OBVIOUS
<1>9. i # 0
  BY <1>8
<1>5. i # 0 /\ i \in 1 .. n
  BY <1>8, <1>9
<1>6. i - 1 \in 0 .. n /\ i - 1 < i
  BY <1>5
<1>7. i - 1 \in S
  BY <1>4, <1>6
<1> QED
  BY <1>3, <1>5, <1>7

\* The steps h, one after the other from first, have a trace.
HasTrace(B, first, n, h) ==
    \E f \in [0 .. n -> B] : f[0] = first /\ \A i \in 1 .. n : f[i] = h[i][f[i - 1]]

\* A function that is defined from the value before exists.
LEMMA Iterated ==
  ASSUME NEW B, NEW first \in B, NEW n \in Nat, NEW h \in [1 .. n -> [B -> B]]
  PROVE  HasTrace(B, first, n, h)
<1> DEFINE Upto(i, f) == f[0] = first /\ \A j \in 1 .. i : f[j] = h[j][f[j - 1]]
           S == {i \in 0 .. n : \E f \in [0 .. n -> B] : Upto(i, f)}
<1>1. 0 \in S
  <2> DEFINE g == [i \in 0 .. n |-> first]
  <2>1. g \in [0 .. n -> B] /\ g[0] = first
    OBVIOUS
  <2>2. 0 \in 0 .. n /\ \A j \in 1 .. 0 : FALSE
    OBVIOUS
  <2> HIDE DEF g
  <2> QED
    BY <2>1, <2>2
<1>2. ASSUME NEW i \in 1 .. n, i - 1 \in S PROVE i \in S
  <2>1. PICK f \in [0 .. n -> B] : Upto(i - 1, f)
    BY <1>2
  <2> DEFINE g == [f EXCEPT ![i] = h[i][f[i - 1]]]
  <2>2. i - 1 \in 0 .. n /\ i \in 0 .. n /\ i # 0 /\ i - 1 # i /\ f[i - 1] \in B
    OBVIOUS
  <2>3. h[i][f[i - 1]] \in B
    BY <2>2
  <2>4. g \in [0 .. n -> B] /\ g[i] = h[i][f[i - 1]] /\ \A j \in 0 .. n : j # i => g[j] = f[j]
    BY <2>2, <2>3
  <2> HIDE DEF g
  <2>5. g[0] = first
    BY <2>1, <2>2, <2>4
  <2>6. ASSUME NEW j \in 1 .. i PROVE g[j] = h[j][g[j - 1]]
    <3>1. CASE j = i
      BY <2>2, <2>4, <3>1
    <3>2. CASE j # i
      <4>1. j \in 1 .. (i - 1) /\ j \in 0 .. n /\ j - 1 \in 0 .. n /\ j - 1 # i
        BY <3>2
      <4>2. f[j] = h[j][f[j - 1]]
        BY <2>1, <4>1
      <4> QED
        BY <2>4, <3>2, <4>1, <4>2
    <3> QED
      BY <3>1, <3>2
  <2> QED
    BY <2>2, <2>4, <2>5, <2>6
<1>3. n \in S
  <2>1. S \in SUBSET (0 .. n) /\ n \in 0 .. n
    OBVIOUS
  <2> HIDE DEF S
  <2> QED
    BY <1>1, <1>2, <2>1, UpTo
<1> QED
  BY <1>3 DEF HasTrace

\* Any number of communications.
LEMMA BatchSteps ==
  ASSUME NEW b \in DapBuilds, NEW s \in Streams, b.own.role = RoleOf(s), NEW c \in Nat, BatchAt(b, s, c), NEW n \in Nat
  PROVE  /\ Moved(b, Dap!LinearParallel(b, n, FALSE), s)
         /\ BatchAt(Dap!LinearParallel(b, n, FALSE), s, c + n)
<1> DEFINE G(x) == Dap!AddCommunicationOp(Dap!Compute(x), FALSE)
           B == {x \in DapBuilds : x.own.role = RoleOf(s) /\ \E k \in Nat : BatchAt(x, s, k)}
           upTo[i \in 0 .. n] == IF i = 0 THEN b ELSE Dap!AddCommunicationOp(Dap!Compute(upTo[i - 1]), FALSE)
           h == [i \in 1 .. n |-> [x \in B |-> G(x)]]
<1>1. ASSUME NEW x \in B PROVE G(x) \in B
  <2>1. PICK k \in Nat : BatchAt(x, s, k)
    OBVIOUS
  <2>2. x \in DapBuilds /\ x.own.role = RoleOf(s) /\ k + 1 \in Nat
    OBVIOUS
  <2>3. Moved(x, G(x), s) /\ BatchAt(G(x), s, k + 1)
    BY <2>1, <2>2, BatchStep
  <2> QED
    BY <2>2, <2>3 DEF Moved
<1>2. b \in B
  OBVIOUS
<1>3. h \in [1 .. n -> [B -> B]]
  BY <1>1
<1>4. PICK f \in [0 .. n -> B] : f[0] = b /\ \A i \in 1 .. n : f[i] = h[i][f[i - 1]]
  <2> HIDE DEF h, B, G, upTo
  <2>1. n \in Nat
    OBVIOUS
  <2>2. HasTrace(B, b, n, h)
    BY <1>2, <1>3, <2>1, Iterated
  <2> QED
    BY ONLY <2>2 DEF HasTrace
<1>5. f = [i \in 0 .. n |-> IF i = 0 THEN b ELSE G(f[i - 1])]
  <2>1. ASSUME NEW i \in 0 .. n, i # 0 PROVE f[i] = G(f[i - 1])
    <3>1. i \in 1 .. n /\ i - 1 \in 0 .. n
      BY <2>1
    <3> HIDE DEF B, G
    <3> QED
      BY <1>4, <3>1
  <2>2. f = [i \in 0 .. n |-> f[i]]
    BY <1>4
  <2> HIDE DEF G, B
  <2> QED
    BY <1>4, <2>1, <2>2
<1>6. upTo = [i \in 0 .. n |-> IF i = 0 THEN b ELSE G(upTo[i - 1])]
  <2> HIDE DEF G
  <2>1. upTo = CHOOSE f2 : f2 = [i \in 0 .. n |-> IF i = 0 THEN b ELSE G(f2[i - 1])]
    BY DEF G
  <2> QED
    BY <1>5, <2>1
<1>7. Dap!LinearParallel(b, n, FALSE) = upTo[n]
  BY DEF Dap!LinearParallel

<1>8. upTo[0] = b /\ \A i \in 1 .. n : upTo[i] = G(upTo[i - 1])
  <2> HIDE DEF upTo, G
  <2> QED
    BY <1>6
<1> DEFINE S == {i \in 0 .. n : Moved(b, upTo[i], s) /\ BatchAt(upTo[i], s, c + i)}
<1> HIDE DEF upTo, h, B
<1>9. 0 \in S
  <2>1. 1 - s \in Streams /\ b.size \in Nat
    BY DEF Streams, DapBuilds
  <2>2. Moved(b, b, s)
    BY <2>1 DEF Moved, SameFor
  <2> QED
    BY <1>8, <2>2
<1>10. ASSUME NEW i \in 1 .. n, i - 1 \in S PROVE i \in S
  <2>1. PICK k \in Nat : k = c + (i - 1) /\ k + 1 = c + i
    OBVIOUS
  <2>2. PICK x : x = upTo[i - 1]
    OBVIOUS
  <2>3. Moved(b, x, s) /\ BatchAt(x, s, k)
    BY <1>10, <2>1, <2>2
  <2>4. x \in DapBuilds /\ x.own.role = RoleOf(s)
    BY <2>3 DEF Moved
  <2> HIDE DEF G
  <2>5. Moved(x, G(x), s) /\ BatchAt(G(x), s, k + 1)
    BY <2>3, <2>4, BatchStep DEF G
  <2>6. Moved(b, G(x), s)
    BY <2>3, <2>5, MovedTrans
  <2> QED
    BY <1>8, <2>1, <2>2, <2>5, <2>6
<1>11. n \in S
  <2>1. S \in SUBSET (0 .. n) /\ n \in 0 .. n
    OBVIOUS
  <2> HIDE DEF S
  <2> QED
    BY <1>9, <1>10, <2>1, UpTo
<1> QED
  BY <1>7, <1>11

\* Both batches after c communications each.
LayerPoint(b, c) ==
    /\ b \in DapBuilds
    /\ b.own.role = "PRECEDER"
    /\ BatchAt(b, 0, c)
    /\ BatchAt(b, 1, c)
    /\ Made(b, 0, "end") = 0
    /\ Made(b, 1, "end") = 0

LEMMA TurnTo ==
  ASSUME NEW b \in DapBuilds, NEW role \in DapRoles
  PROVE  /\ Dap!SetRole(b, role) \in DapBuilds
         /\ Dap!SetRole(b, role).own.role = role
         /\ \A t \in Streams : SameFor(t, b, Dap!SetRole(b, role))
<1> DEFINE b2 == Dap!SetRole(b, role)
           own2 == [role |-> role, count |-> b.own.count]
<1>1. b.own \in [role : DapRoles, count : [DapRoles -> Nat]] /\ b.size \in Nat
  BY DEF DapBuilds
<1>2. own2 \in [role : DapRoles, count : [DapRoles -> Nat]]
  BY <1>1
<1>3. b2 = [b EXCEPT !.own = own2]
  <2>1. [b.own EXCEPT !.role = role] = own2
    BY <1>1
  <2> HIDE DEF own2
  <2> QED
    BY <2>1 DEF Dap!SetRole, DapBuilds
<1>7. own2.role = role /\ own2.count = b.own.count
  OBVIOUS
<1> HIDE DEF own2
<1>4. b2 = [nodes |-> b.nodes, size |-> b.size, pushed |-> b.pushed, popped |-> b.popped, own |-> own2]
  BY <1>3 DEF DapBuilds
<1>5. b2 \in DapBuilds
  BY <1>2, <1>4 DEF DapBuilds
<1>6. b2.nodes = b.nodes /\ b2.size = b.size /\ b2.pushed = b.pushed /\ b2.popped = b.popped /\ b2.own = own2
  BY <1>4
<1> HIDE DEF b2
<1>8. \A t \in Streams : SameFor(t, b, b2)
  BY <1>1, <1>6, <1>7 DEF SameFor, Made
<1> QED
  BY <1>5, <1>6, <1>7, <1>8 DEF b2

\* A layer.
LEMMA LayerStep ==
  ASSUME NEW b, NEW c \in Nat, LayerPoint(b, c), NEW layer, NEW cfg, cfg.layers[layer] \in Nat, cfg.flashComm = FALSE
  PROVE  LayerPoint(Dap!AddLayerTwice(b, layer, cfg), c + cfg.layers[layer])
<1> DEFINE n == cfg.layers[layer]
           b1 == Dap!LinearParallel(b, n, FALSE)
           b2 == Dap!SetRole(b1, "SUCCESSOR")
           b3 == Dap!LinearParallel(b2, n, FALSE)
           b4 == Dap!SetRole(b3, "PRECEDER")
<1>1. Dap!AddLayerTwice(b, layer, cfg) = b4
  BY DEF Dap!AddLayerTwice, Dap!AddSingleLayer
<1>2. /\ 0 \in Streams /\ 1 \in Streams /\ 1 - 0 = 1 /\ 1 - 1 = 0 /\ RoleOf(0) = "PRECEDER" /\ RoleOf(1) = "SUCCESSOR"
      /\ "PRECEDER" \in DapRoles /\ "SUCCESSOR" \in DapRoles /\ "end" \in DapKeys /\ n \in Nat /\ c + n \in Nat
  BY DEF Streams, RoleOf, DapRoles, DapKeys
<1> HIDE DEF n
<1>3. /\ b1 \in DapBuilds /\ BatchAt(b1, 0, c + n) /\ BatchAt(b1, 1, c)
      /\ Made(b1, 0, "end") = 0 /\ Made(b1, 1, "end") = 0
  <2>1. b \in DapBuilds /\ b.own.role = RoleOf(0) /\ BatchAt(b, 0, c) /\ BatchAt(b, 1, c)
    BY <1>2 DEF LayerPoint
  <2>2. Moved(b, b1, 0) /\ BatchAt(b1, 0, c + n)
    BY <1>2, <2>1, BatchSteps
  <2> HIDE DEF b1
  <2>3. b1 \in DapBuilds /\ SameFor(1, b, b1) /\ Made(b1, 0, "end") = Made(b, 0, "end")
    BY <1>2, <2>2 DEF Moved
  <2>4. BatchAt(b1, 1, c)
    BY <1>2, <2>1, <2>3, BatchStays
  <2> QED
    BY <1>2, <2>2, <2>3, <2>4 DEF LayerPoint, SameFor
<1> HIDE DEF b1
<1>4. /\ b2 \in DapBuilds /\ b2.own.role = RoleOf(1) /\ BatchAt(b2, 0, c + n) /\ BatchAt(b2, 1, c)
      /\ Made(b2, 0, "end") = 0 /\ Made(b2, 1, "end") = 0
  <2>1. b2 \in DapBuilds /\ b2.own.role = RoleOf(1) /\ SameFor(0, b1, b2) /\ SameFor(1, b1, b2)
    BY <1>2, <1>3, TurnTo
  <2> HIDE DEF b2
  <2> QED
    BY <1>2, <1>3, <2>1, BatchStays DEF SameFor
<1> HIDE DEF b2
<1>5. /\ b3 \in DapBuilds /\ BatchAt(b3, 0, c + n) /\ BatchAt(b3, 1, c + n)
      /\ Made(b3, 0, "end") = 0 /\ Made(b3, 1, "end") = 0
  <2>2. Moved(b2, b3, 1) /\ BatchAt(b3, 1, c + n)
    BY <1>2, <1>4, BatchSteps
  <2> HIDE DEF b3
  <2>3. b3 \in DapBuilds /\ SameFor(0, b2, b3) /\ Made(b3, 1, "end") = Made(b2, 1, "end")
    BY <1>2, <2>2 DEF Moved
  <2>4. BatchAt(b3, 0, c + n)
    BY <1>2, <1>4, <2>3, BatchStays
  <2> QED
    BY <1>2, <1>4, <2>2, <2>3, <2>4 DEF SameFor
<1> HIDE DEF b3
<1>6. LayerPoint(b4, c + n)
  <2>1. b4 \in DapBuilds /\ b4.own.role = RoleOf(0) /\ SameFor(0, b3, b4) /\ SameFor(1, b3, b4)
    BY <1>2, <1>5, TurnTo
  <2> HIDE DEF b4
  <2>2. BatchAt(b4, 0, c + n) /\ BatchAt(b4, 1, c + n)
    BY <1>2, <1>5, <2>1, BatchStays
  <2> QED
    BY <1>2, <1>5, <2>1, <2>2 DEF SameFor, LayerPoint
<1> QED
  BY <1>1, <1>6 DEF n

\* Every layer has some communications, none of them a reduce-scatter.
PlainLayers(cfg, len) == cfg.flashComm = FALSE /\ \A i \in 1 .. len : cfg.layers[i] \in Nat

LEMMA LayersExist ==
  ASSUME NEW b, LayerPoint(b, 0), NEW cfg, NEW len \in Nat,
         PlainLayers(cfg, len)
  PROVE  \E f : f = [i \in 0 .. len |-> IF i = 0 THEN b ELSE Dap!AddLayerTwice(f[i - 1], i, cfg)]
<1> DEFINE B == {x \in DapBuilds : \E k \in Nat : LayerPoint(x, k)}
           h == [i \in 1 .. len |-> [x \in B |-> Dap!AddLayerTwice(x, i, cfg)]]
<1>1. ASSUME NEW x \in B, NEW i \in 1 .. len PROVE Dap!AddLayerTwice(x, i, cfg) \in B
  <2>1. PICK k \in Nat : LayerPoint(x, k)
    OBVIOUS
  <2>2. cfg.layers[i] \in Nat
    BY DEF PlainLayers
  <2>3. LayerPoint(Dap!AddLayerTwice(x, i, cfg), k + cfg.layers[i])
    <3> HIDE DEF B
    <3>1. cfg.flashComm = FALSE
      BY DEF PlainLayers
    <3> QED
      BY <2>1, <2>2, <3>1, LayerStep
  <2>4. PICK k2 \in Nat : k2 = k + cfg.layers[i]
    BY <2>2
  <2>5. LayerPoint(Dap!AddLayerTwice(x, i, cfg), k2)
    BY <2>3, <2>4
  <2>6. Dap!AddLayerTwice(x, i, cfg) \in DapBuilds
    BY <2>5 DEF LayerPoint
  <2> QED
    BY <2>5, <2>6
<1>2. b \in B
  BY DEF LayerPoint
<1>3. h \in [1 .. len -> [B -> B]]
  BY <1>1
<1>4. PICK f \in [0 .. len -> B] : f[0] = b /\ \A i \in 1 .. len : f[i] = h[i][f[i - 1]]
  <2> HIDE DEF h, B
  <2>1. len \in Nat
    OBVIOUS
  <2>2. HasTrace(B, b, len, h)
    BY <1>2, <1>3, <2>1, Iterated
  <2> QED
    BY ONLY <2>2 DEF HasTrace
<1>5. f = [i \in 0 .. len |-> IF i = 0 THEN b ELSE Dap!AddLayerTwice(f[i - 1], i, cfg)]
  <2>1. ASSUME NEW i \in 0 .. len, i # 0 PROVE f[i] = Dap!AddLayerTwice(f[i - 1], i, cfg)
    <3>1. i \in 1 .. len /\ i - 1 \in 0 .. len
      BY <2>1
    <3> HIDE DEF B
    <3> QED
      BY <1>4, <3>1
  <2>2. f = [i \in 0 .. len |-> f[i]]
    BY <1>4
  <2> HIDE DEF B
  <2> QED
    BY <1>4, <2>1, <2>2
<1> QED
  BY <1>5

LEMMA LayersUpTo ==
  ASSUME NEW b, LayerPoint(b, 0), NEW cfg, NEW len \in Nat,
         PlainLayers(cfg, len), NEW upTo,
         upTo = [i \in 0 .. len |-> IF i = 0 THEN b ELSE Dap!AddLayerTwice(upTo[i - 1], i, cfg)]
  PROVE  \E c \in Nat : /\ LayerPoint(upTo[len], c)
                        /\ (\E i \in 1 .. len : cfg.layers[i] > 0) => c > 0
<1>8. upTo[0] = b /\ \A i \in 1 .. len : upTo[i] = Dap!AddLayerTwice(upTo[i - 1], i, cfg)
  OBVIOUS
<1> DEFINE Sound(i) == \E c \in Nat : /\ LayerPoint(upTo[i], c)
                                      /\ (\E j \in 1 .. i : cfg.layers[j] > 0) => c > 0
           S == {i \in 0 .. len : Sound(i)}
<1>9. 0 \in S
  BY <1>8
<1>10. ASSUME NEW i \in 1 .. len, i - 1 \in S PROVE i \in S
  <2>1. PICK k \in Nat : LayerPoint(upTo[i - 1], k) /\ ((\E j \in 1 .. (i - 1) : cfg.layers[j] > 0) => k > 0)
    BY <1>10
  <2>2. PICK x : x = upTo[i - 1]
    OBVIOUS
  <2>3. PICK n \in Nat : n = cfg.layers[i]
    BY DEF PlainLayers
  <2>4. LayerPoint(x, k) /\ cfg.layers[i] \in Nat
    BY <2>1, <2>2 DEF PlainLayers
  <2>5. LayerPoint(Dap!AddLayerTwice(x, i, cfg), k + cfg.layers[i])
    BY <2>4, LayerStep DEF PlainLayers
  <2>6. upTo[i] = Dap!AddLayerTwice(x, i, cfg)
    BY <1>8, <2>2
  <2>7. PICK k2 \in Nat : k2 = k + n
    OBVIOUS
  <2>8. LayerPoint(upTo[i], k2)
    BY <2>3, <2>5, <2>6, <2>7
  <2>9. (\E j \in 1 .. i : cfg.layers[j] > 0) => k2 > 0
    <3> SUFFICES ASSUME NEW j \in 1 .. i, cfg.layers[j] > 0 PROVE k2 > 0
      OBVIOUS
    <3>1. CASE j = i
      BY <2>3, <2>7, <3>1
    <3>2. CASE j # i
      <4>1. j \in 1 .. (i - 1)
        BY <3>2
      <4> QED
        BY <2>1, <2>7, <4>1
    <3> QED
      BY <3>1, <3>2
  <2>10. Sound(i)
    BY <2>8, <2>9
  <2>11. i \in 0 .. len
    OBVIOUS
  <2> HIDE DEF Sound
  <2> QED
    BY <2>10, <2>11
<1>11. len \in S
  <2>1. S \in SUBSET (0 .. len) /\ len \in 0 .. len
    OBVIOUS
  <2> HIDE DEF S
  <2> QED
    BY <1>9, <1>10, <2>1, UpTo
<1> QED
  BY <1>11

\* All layers.
LEMMA LayerSteps ==
  ASSUME NEW b, LayerPoint(b, 0), NEW cfg, Len(cfg.layers) \in Nat,
         PlainLayers(cfg, Len(cfg.layers))
  PROVE  \E c \in Nat : /\ LayerPoint(Dap!AddLayer(b, cfg), c)
                        /\ (\E i \in 1 .. Len(cfg.layers) : cfg.layers[i] > 0) => c > 0
<1> DEFINE upTo[i \in 0 .. Len(cfg.layers)] == IF i = 0 THEN b ELSE Dap!AddLayerTwice(upTo[i - 1], i, cfg)
<1>1. Dap!AddLayer(b, cfg) = upTo[Len(cfg.layers)]
  BY DEF Dap!AddLayer
<1>2. upTo = CHOOSE f : f = [i \in 0 .. Len(cfg.layers) |-> IF i = 0 THEN b ELSE Dap!AddLayerTwice(f[i - 1], i, cfg)]
  OBVIOUS
<1> HIDE DEF upTo
<1>3. upTo = [i \in 0 .. Len(cfg.layers) |-> IF i = 0 THEN b ELSE Dap!AddLayerTwice(upTo[i - 1], i, cfg)]
  <2>1. \E f : f = [i \in 0 .. Len(cfg.layers) |-> IF i = 0 THEN b ELSE Dap!AddLayerTwice(f[i - 1], i, cfg)]
    BY LayersExist
  <2> QED
    BY <1>2, <2>1
<1>4. \E c \in Nat : /\ LayerPoint(upTo[Len(cfg.layers)], c)
                     /\ (\E i \in 1 .. Len(cfg.layers) : cfg.layers[i] > 0) => c > 0
  BY <1>3, LayersUpTo
<1> QED
  BY <1>1, <1>4

\* Before the first node.
FreshBuild(b) ==
    /\ b \in DapBuilds
    /\ b.own.role = "PRECEDER"
    /\ \A s \in Streams : StreamAt(b, s, 0, {}, 0) /\ b.own.count[RoleOf(s)] = 0
    /\ \A s \in Streams : \A k \in DapKeys : Made(b, s, k) = 0

LEMMA RoleSet ==
  ASSUME NEW nodes, NEW size, NEW pushes, NEW pops, NEW count, NEW role, NEW role2
  PROVE  Dap!SetRole([nodes |-> nodes, size |-> size, pushed |-> pushes, popped |-> pops,
                      own |-> [role |-> role, count |-> count]], role2)
           = [nodes |-> nodes, size |-> size, pushed |-> pushes, popped |-> pops,
              own |-> [role |-> role2, count |-> count]]
<1>1. [[role |-> role, count |-> count] EXCEPT !.role = role2] = [role |-> role2, count |-> count]
  OBVIOUS
<1> QED
  BY <1>1 DEF Dap!SetRole

LEMMA FreshStart ==
  ASSUME NEW count \in [DapRoles -> Nat]
  PROVE  FreshBuild(Dap!SetRole(Dap!Reset(Dap!SetRole(Dap!NewBuild(count), "UNDEFINED_ROLE")), "PRECEDER"))
<1> DEFINE b == Dap!SetRole(Dap!Reset(Dap!SetRole(Dap!NewBuild(count), "UNDEFINED_ROLE")), "PRECEDER")
<1>1. b = [nodes |-> [s \in Streams |-> <<>>], size |-> 0, pushed |-> [k \in DapKeys |-> 0],
           popped |-> [k \in DapKeys |-> 0], own |-> [role |-> "PRECEDER", count |-> [r \in DapRoles |-> 0]]]
  <2>1. Dap!NewBuild(count) = [nodes |-> [s \in Streams |-> <<>>], size |-> 0, pushed |-> [k \in DapKeys |-> 0],
           popped |-> [k \in DapKeys |-> 0], own |-> [role |-> "UNDEFINED_ROLE", count |-> count]]
    BY DEF Dap!NewBuild, Dap!EmptyBuild, Dap!Streams, Streams, DapKeys
  <2>2. Dap!SetRole(Dap!NewBuild(count), "UNDEFINED_ROLE") = Dap!NewBuild(count)
    BY <2>1 DEF Dap!SetRole
  <2>3. Dap!Reset(Dap!NewBuild(count))
          = [nodes |-> [s \in Streams |-> <<>>], size |-> 0, pushed |-> [k \in DapKeys |-> 0],
             popped |-> [k \in DapKeys |-> 0], own |-> [role |-> "UNDEFINED_ROLE", count |-> [r \in DapRoles |-> 0]]]
    BY <2>1 DEF Dap!Reset, Dap!Roles, DapRoles
  <2>4. Dap!SetRole([nodes |-> [s \in Streams |-> <<>>], size |-> 0, pushed |-> [k \in DapKeys |-> 0],
             popped |-> [k \in DapKeys |-> 0], own |-> [role |-> "UNDEFINED_ROLE", count |-> [r \in DapRoles |-> 0]]],
             "PRECEDER")
          = [nodes |-> [s \in Streams |-> <<>>], size |-> 0, pushed |-> [k \in DapKeys |-> 0],
             popped |-> [k \in DapKeys |-> 0], own |-> [role |-> "PRECEDER", count |-> [r \in DapRoles |-> 0]]]
    BY RoleSet
  <2> QED
    BY <2>2, <2>3, <2>4
<1> HIDE DEF b
<1>2. b \in DapBuilds
  <2>1. /\ [s \in Streams |-> <<>>] \in [Streams -> Seq(NodesFor(DapKeys))] /\ 0 \in Nat
        /\ [k \in DapKeys |-> 0] \in [DapKeys -> Nat] /\ [r \in DapRoles |-> 0] \in [DapRoles -> Nat]
        /\ "PRECEDER" \in DapRoles
    BY DEF DapRoles
  <2> QED
    BY <1>1, <2>1 DEF DapBuilds
<1>3. ASSUME NEW s \in Streams PROVE StreamAt(b, s, 0, {}, 0)
  <2>1. b.nodes[s] = <<>> /\ b.size = 0
    BY <1>1
  <2>2. Labelled(<<>>, <<>>, {}, 0, 0)
    BY DEF Labelled
  <2>3. DapStream(<<>>, <<>>, s, 0, {}, 0, 0)
    BY <2>2 DEF DapStream
  <2> QED
    BY <2>1, <2>3 DEF StreamAt
<1>4. \A s \in Streams : \A k \in DapKeys : Made(b, s, k) = 0
  BY <1>1 DEF Made
<1>5. \A s \in Streams : b.own.count[RoleOf(s)] = 0
  BY <1>1 DEF RoleOf, DapRoles
<1>6. b.own.role = "PRECEDER"
  BY <1>1
<1> QED
  BY <1>2, <1>3, <1>4, <1>5, <1>6 DEF FreshBuild, b

\* A computation more.
LEMMA ComputeStep ==
  ASSUME NEW b \in DapBuilds, NEW s \in Streams, b.own.role = RoleOf(s), NEW c \in Nat,
         NEW top \in Nat, top <= 8 * (c + 1), StreamAt(b, s, c, Body(s, c), top)
  PROVE  /\ Moved(b, Dap!Compute(b), s)
         /\ StreamAt(Dap!Compute(b), s, c, Body(s, c), 8 * (c + 1))
         /\ Dap!Compute(b).own = b.own
         /\ \A k \in DapKeys : Made(Dap!Compute(b), s, k) = Made(b, s, k)
<1> DEFINE b2 == Dap!AddTask(b, s, "compute", s)
           l == 8 * (c + 1)
<1>1. Dap!Compute(b) = b2
  BY RoleFacts DEF Dap!Compute
<1>2. Body(s, c) \in SUBSET Nat /\ l \notin Body(s, c)
  <2>1. c + 1 \in Nat
    OBVIOUS
  <2> QED
    BY <2>1, BodyLabels
<1>3. l \in Nat /\ top <= l /\ \E n \in 1 .. c + 1 : l = 8 * n
  OBVIOUS
<1> HIDE DEF l
<1>4. /\ b2 \in DapBuilds /\ StreamAt(b2, s, c, Body(s, c), l) /\ SameFor(1 - s, b, b2) /\ b2.own = b.own
      /\ \A k \in DapKeys : Made(b2, s, k) = Made(b, s, k)
  BY <1>2, <1>3, OwnTask
<1>5. "end" \in DapKeys
  BY DEF DapKeys
<1> HIDE DEF b2
<1>6. Moved(b, b2, s)
  BY <1>4, <1>5 DEF Moved
<1> QED
  BY <1>1, <1>4, <1>6 DEF l

LEMMA LayersBegin ==
  ASSUME NEW b, FreshBuild(Dap!SetRole(b, "PRECEDER"))
  PROVE  LayerPoint(Dap!BeforeLayers(b), 0)
<1> DEFINE b0 == Dap!SetRole(b, "PRECEDER")
           b1 == Dap!Compute(b0)
           b2 == Dap!SetRole(b1, "SUCCESSOR")
           b3 == Dap!EventNode(b2, "WAIT", "POP", "compute", 1)
           b4 == Dap!Compute(b3)
           b5 == Dap!SetRole(b4, "PRECEDER")
<1>1. Dap!BeforeLayers(b) = b5
  BY DEF Dap!BeforeLayers, Dap!AddNodesBeforeLayer, Dap!WaitEvent
<1>2. /\ 0 \in Streams /\ 1 \in Streams /\ 1 - 0 = 1 /\ 1 - 1 = 0 /\ RoleOf(0) = "PRECEDER" /\ RoleOf(1) = "SUCCESSOR"
      /\ "PRECEDER" \in DapRoles /\ "SUCCESSOR" \in DapRoles /\ DapKeys = {"compute", "comm", "end"}
      /\ OwnAction(1) = "POP" /\ "WAIT" \in EventKinds /\ 5 \in DapSlots
  BY DEF Streams, RoleOf, DapRoles, DapKeys, OwnAction, EventKinds, DapSlots
<1>3. Body(0, 0) = {} /\ Body(1, 0) = {5} /\ Body(1, 0) \in SUBSET Nat
  BY <1>2, BodyLabels
<1>4. /\ b0 \in DapBuilds /\ b0.own.role = RoleOf(0) /\ StreamAt(b0, 0, 0, {}, 0) /\ StreamAt(b0, 1, 0, {}, 0)
      /\ b0.own.count[RoleOf(0)] = 0 /\ b0.own.count[RoleOf(1)] = 0
      /\ \A k \in DapKeys : Made(b0, 0, k) = 0 /\ Made(b0, 1, k) = 0
  BY <1>2 DEF FreshBuild
<1> HIDE DEF b0
<1>5. /\ b1 \in DapBuilds /\ StreamAt(b1, 0, 0, {}, 8) /\ b1.own = b0.own /\ SameFor(1, b0, b1)
      /\ \A k \in DapKeys : Made(b1, 0, k) = 0
  <2>1. StreamAt(b0, 0, 0, Body(0, 0), 0) /\ 0 <= 8 * (0 + 1) /\ 8 * (0 + 1) = 8
    BY <1>3, <1>4
  <2>2. /\ Moved(b0, b1, 0) /\ StreamAt(b1, 0, 0, Body(0, 0), 8 * (0 + 1)) /\ b1.own = b0.own
        /\ \A k \in DapKeys : Made(b1, 0, k) = Made(b0, 0, k)
    BY <1>2, <1>4, <2>1, ComputeStep
  <2> QED
    BY <1>2, <1>3, <1>4, <2>1, <2>2 DEF Moved
<1> HIDE DEF b1
<1>6. /\ StreamAt(b1, 1, 0, {}, 0) /\ b1.own.count[RoleOf(0)] = 0 /\ b1.own.count[RoleOf(1)] = 0
      /\ \A k \in DapKeys : Made(b1, 1, k) = 0
  <2>1. b1.nodes[1] = b0.nodes[1] /\ b0.size <= b1.size /\ {} \in SUBSET Nat
    BY <1>5 DEF SameFor
  <2>2. StreamAt(b1, 1, 0, {}, 0)
    BY <1>2, <1>4, <1>5, <2>1, StreamWeaker
  <2> QED
    BY <1>4, <1>5, <2>2 DEF SameFor
<1>7. BatchAt(b1, 0, 0)
  BY <1>2, <1>3, <1>5, <1>6 DEF BatchAt
<1>8. b2 \in DapBuilds /\ b2.own.role = RoleOf(1) /\ SameFor(0, b1, b2) /\ SameFor(1, b1, b2)
  BY <1>2, <1>5, TurnTo
<1> HIDE DEF b2
<1>9. /\ StreamAt(b2, 1, 0, {}, 0) /\ b2.own.count[RoleOf(1)] = 0 /\ BatchAt(b2, 0, 0)
      /\ \A k \in DapKeys : Made(b2, 0, k) = 0 /\ Made(b2, 1, k) = 0
  <2>1. b2.nodes[1] = b1.nodes[1] /\ b1.size <= b2.size /\ {} \in SUBSET Nat
    BY <1>8 DEF SameFor
  <2>2. StreamAt(b2, 1, 0, {}, 0)
    BY <1>2, <1>5, <1>6, <1>8, <2>1, StreamWeaker
  <2>3. BatchAt(b2, 0, 0)
    BY <1>2, <1>5, <1>7, <1>8, BatchStays
  <2> QED
    BY <1>5, <1>6, <1>8, <2>2, <2>3 DEF SameFor
<1>10. EventMade(b2, b3, 1, "compute") /\ StreamAt(b3, 1, 0, {5}, 5)
  <2>1. DapEvent(1, 0, 5) = [kind |-> "WAIT", event |-> <<"compute", Made(b2, 1, "compute") + 1>>]
    BY <1>2, <1>9 DEF DapEvent
  <2>2. 0 < 8 * 0 + 5 /\ 8 * 0 + 5 = 5 /\ {} \cup {5} = {5} /\ {} \in SUBSET Nat
    OBVIOUS
  <2>3. /\ EventMade(b2, Dap!EventNode(b2, "WAIT", OwnAction(1), "compute", 1), 1, "compute")
        /\ StreamAt(Dap!EventNode(b2, "WAIT", OwnAction(1), "compute", 1), 1, 0, {} \cup {8 * 0 + 5}, 8 * 0 + 5)
    BY <1>2, <1>8, <1>9, <2>1, <2>2, OwnEvent
  <2> QED
    BY <1>2, <2>2, <2>3
<1> HIDE DEF b3
<1>11. /\ b3 \in DapBuilds /\ b3.own = b2.own /\ SameFor(0, b2, b3) /\ BatchAt(b3, 0, 0)
       /\ Made(b3, 1, "compute") = 1 /\ Made(b3, 1, "comm") = 0 /\ Made(b3, 1, "end") = 0 /\ Made(b3, 0, "end") = 0
  <2>1. b3 \in DapBuilds /\ b3.own = b2.own /\ SameFor(0, b2, b3)
    BY <1>2, <1>10 DEF EventMade
  <2>2. BatchAt(b3, 0, 0)
    BY <1>2, <1>8, <1>9, <2>1, BatchStays
  <2> QED
    BY <1>2, <1>9, <1>10, <2>1, <2>2 DEF EventMade, SameFor
<1>12. /\ b4 \in DapBuilds /\ SameFor(0, b3, b4) /\ StreamAt(b4, 1, 0, {5}, 8) /\ b4.own = b3.own
       /\ \A k \in DapKeys : Made(b4, 1, k) = Made(b3, 1, k)
  <2>1. StreamAt(b3, 1, 0, Body(1, 0), 5) /\ 5 <= 8 * (0 + 1) /\ 8 * (0 + 1) = 8 /\ b3.own.role = RoleOf(1)
    BY <1>3, <1>8, <1>10, <1>11
  <2>2. /\ Moved(b3, b4, 1) /\ StreamAt(b4, 1, 0, Body(1, 0), 8 * (0 + 1)) /\ b4.own = b3.own
        /\ \A k \in DapKeys : Made(b4, 1, k) = Made(b3, 1, k)
    BY <1>2, <1>11, <2>1, ComputeStep
  <2> QED
    BY <1>2, <1>3, <2>1, <2>2 DEF Moved
<1> HIDE DEF b4
<1>13. BatchAt(b4, 0, 0) /\ BatchAt(b4, 1, 0) /\ Made(b4, 0, "end") = 0 /\ Made(b4, 1, "end") = 0
  <2>1. BatchAt(b4, 0, 0)
    BY <1>2, <1>11, <1>12, BatchStays
  <2>2. BatchAt(b4, 1, 0)
    <3>1. StreamAt(b4, 1, 0, Body(1, 0), 8 * (0 + 1))
      BY <1>3, <1>12
    <3>2. b4.own.count[RoleOf(1)] = 0
      BY <1>9, <1>10, <1>11, <1>12 DEF EventMade
    <3>3. Made(b4, 1, "compute") = 2 * 0 + 1 /\ Made(b4, 1, "comm") = 2 * 0
      BY <1>11, <1>12 DEF DapKeys
    <3>4. ~(1 = 0 /\ 0 > 0)
      OBVIOUS
    <3> QED
      BY ONLY <3>1, <3>2, <3>3, <3>4 DEF BatchAt
  <2> QED
    BY <1>2, <1>11, <1>12, <2>1, <2>2 DEF SameFor
<1>14. b5 \in DapBuilds /\ b5.own.role = "PRECEDER" /\ SameFor(0, b4, b5) /\ SameFor(1, b4, b5)
  BY <1>2, <1>12, TurnTo
<1> HIDE DEF b5
<1>15. LayerPoint(b5, 0)
  <2>1. BatchAt(b5, 0, 0) /\ BatchAt(b5, 1, 0)
    BY <1>2, <1>12, <1>13, <1>14, BatchStays
  <2> QED
    BY <1>2, <1>13, <1>14, <2>1 DEF LayerPoint, SameFor
<1> QED
  BY <1>1, <1>15

LEMMA WholeLabels ==
  ASSUME NEW s \in Streams, NEW m \in Nat
  PROVE  Whole(s, m) = IF s = 0 THEN ((Body(s, m) \cup {8 * (m + 1) + 2}) \cup {8 * (m + 1) + 6}) \cup {8 * (m + 1) + 7}
                       ELSE Body(s, m) \cup {8 * (m + 1) + 6}
<1>0. s \in {0, 1}
  BY DEF Streams
<1>1. Body(s, m) \subseteq Whole(s, m)
  <2> SUFFICES ASSUME NEW l \in Body(s, m) PROVE l \in Whole(s, m)
    OBVIOUS
  <2>1. PICK n \in Nat, r \in BodySlots : l = 8 * n + r /\ Around(s, m, n, r)
    BY DEF Body
  <2> QED
    BY <2>1 DEF Whole, Occurs, BodySlots
<1>2. ASSUME NEW r \in {2, 6, 7}, AtEnd(s, m, m + 1, r) PROVE 8 * (m + 1) + r \in Whole(s, m)
  <2>1. m + 1 \in Nat /\ 8 * (m + 1) + r \in Nat /\ Occurs(s, m, m + 1, r)
    BY <1>2 DEF Occurs
  <2> QED
    BY <2>1 DEF Whole
<1>3. AtEnd(s, m, m + 1, 6) /\ (s = 0 => AtEnd(s, m, m + 1, 2) /\ AtEnd(s, m, m + 1, 7))
  BY DEF AtEnd
<1>4. ASSUME NEW l \in Whole(s, m)
      PROVE  \/ l \in Body(s, m) \/ l = 8 * (m + 1) + 6
             \/ s = 0 /\ (l = 8 * (m + 1) + 2 \/ l = 8 * (m + 1) + 7)
  <2>1. PICK n \in Nat, r \in DapSlots : l = 8 * n + r /\ Occurs(s, m, n, r)
    BY DEF Whole, DapSlots
  <2>2. CASE Around(s, m, n, r)
    <3>1. r \in BodySlots
      BY <2>2 DEF Around, BodySlots
    <3>2. 8 * n + r \in Body(s, m)
      <4>1. 8 * n + r \in Nat
        BY DEF DapSlots
      <4> QED
        BY <2>2, <3>1, <4>1 DEF Body
    <3> QED
      BY <2>1, <3>2
  <2>3. CASE AtEnd(s, m, n, r)
    BY <2>1, <2>3 DEF AtEnd
  <2> QED
    BY <2>1, <2>2, <2>3 DEF Occurs
<1>5. 8 * (m + 1) + 6 \in Whole(s, m) /\ (s = 0 => 8 * (m + 1) + 2 \in Whole(s, m) /\ 8 * (m + 1) + 7 \in Whole(s, m))
  BY <1>2, <1>3
<1> QED
  BY <1>0, <1>1, <1>4, <1>5

\* b2 is b with one more event of stream s, called with the action of the other batch.
OtherMade(b, b2, s, key) ==
    /\ b2 \in DapBuilds
    /\ b2.own = b.own
    /\ b2.nodes[1 - s] = b.nodes[1 - s]
    /\ b.size <= b2.size
    /\ \A k \in DapKeys : /\ Made(b2, s, k) = Made(b, s, k)
                         /\ Made(b2, 1 - s, k) = IF k = key THEN Made(b, 1 - s, k) + 1 ELSE Made(b, 1 - s, k)

LEMMA OtherEvent ==
  ASSUME NEW b \in DapBuilds, NEW s \in Streams, NEW kind \in EventKinds, NEW key \in DapKeys,
         NEW c \in Nat, NEW has \in SUBSET Nat, NEW top \in Nat, StreamAt(b, s, c, has, top),
         NEW n \in Nat, NEW r \in DapSlots, top < 8 * n + r,
         DapEvent(s, n, r) = [kind |-> kind, event |-> <<key, Made(b, 1 - s, key) + 1>>]
  PROVE  /\ OtherMade(b, Dap!EventNode(b, kind, OwnAction(1 - s), key, s), s, key)
         /\ StreamAt(Dap!EventNode(b, kind, OwnAction(1 - s), key, s), s, c, has \cup {8 * n + r}, 8 * n + r)
<1>1. OwnAction(1 - s) \in Actions /\ s \in {0, 1} /\ 1 - s \in Streams
  BY DEF OwnAction, Streams, Actions
<1>9. PICK action \in Actions : action = OwnAction(1 - s)
  BY <1>1
<1> DEFINE b2 == Dap!EventNode(b, kind, action, key, s)
           x == [kind |-> kind, event |-> <<key, Calls(b, action, key) + 1>>]
<1>2. x \in NodesFor(DapKeys) /\ NodeAdded(b, b2, s, x) /\ Called(b, b2, action, key)
  BY DapEventNode
<1>3. x = DapEvent(s, n, r)
  BY <1>1, <1>9 DEF OwnAction, Made, Calls
<1> HIDE DEF x, b2
<1>4. StreamAt(b2, s, c, has \cup {8 * n + r}, 8 * n + r)
  BY <1>2, <1>3, StreamEvent DEF NodeAdded
<1>5. /\ b.size \in Nat /\ b.pushed \in [DapKeys -> Nat] /\ b.popped \in [DapKeys -> Nat]
  BY DEF DapBuilds
<1>6. b.size <= b2.size
  BY <1>2, <1>5 DEF NodeAdded
<1>7. \A k \in DapKeys : /\ Made(b2, s, k) = Made(b, s, k)
                        /\ Made(b2, 1 - s, k) = IF k = key THEN Made(b, 1 - s, k) + 1 ELSE Made(b, 1 - s, k)
  BY <1>1, <1>2, <1>5, <1>9 DEF Made, OwnAction, Called
<1>8. OtherMade(b, b2, s, key)
  BY <1>2, <1>6, <1>7 DEF OtherMade, NodeAdded
<1> QED
  BY <1>4, <1>8, <1>9 DEF b2

LEMMA BatchCompute ==
  ASSUME NEW b \in DapBuilds, NEW s \in Streams, b.own.role = RoleOf(s), NEW c \in Nat, BatchAt(b, s, c)
  PROVE  Moved(b, Dap!Compute(b), s) /\ BatchAt(Dap!Compute(b), s, c)
<1>1. 8 * (c + 1) \in Nat /\ 8 * (c + 1) <= 8 * (c + 1) /\ StreamAt(b, s, c, Body(s, c), 8 * (c + 1))
  BY DEF BatchAt
<1> DEFINE b2 == Dap!Compute(b)
<1>2. /\ Moved(b, b2, s) /\ StreamAt(b2, s, c, Body(s, c), 8 * (c + 1)) /\ b2.own = b.own
      /\ \A k \in DapKeys : Made(b2, s, k) = Made(b, s, k)
  BY <1>1, ComputeStep
<1> HIDE DEF b2
<1>3. BatchAt(b2, s, c)
  BY <1>2 DEF BatchAt, DapKeys
<1> QED
  BY <1>2, <1>3 DEF b2

\* Both batches with m communications and the end.
DapDone(b, m) ==
    /\ b \in DapBuilds
    /\ \A s \in Streams : StreamAt(b, s, m, Whole(s, m), 8 * (m + 1) + 7)
    /\ b.pushed["compute"] = 2 * m + 1 /\ b.pushed["comm"] = 2 * m /\ b.pushed["end"] = 1

LEMMA LayersEnd ==
  ASSUME NEW b, NEW k \in Nat, LayerPoint(b, k), NEW cfg, cfg.after \in Nat, k + cfg.after > 0
  PROVE  DapDone(Dap!AfterLayers(b, cfg), k + cfg.after)
<1> DEFINE n == cfg.after
           m == k + n
           b1 == Dap!Compute(b)
           b2 == Dap!LinearParallel(b1, n, FALSE)
           b3 == Dap!EventNode(b2, "WAIT", "PUSH", "comm", 0)
           b4 == Dap!EventNode(b3, "RECORD", "PUSH", "compute", 0)
           b5 == Dap!EventNode(b4, "WAIT", "POP", "end", 0)
           b6 == Dap!SetRole(b5, "SUCCESSOR")
           b7 == Dap!Compute(b6)
           b8 == Dap!LinearParallel(b7, n, FALSE)
           b9 == Dap!EventNode(b8, "RECORD", "PUSH", "end", 1)
           b10 == Dap!SetRole(b9, "PRECEDER")
           l == 8 * (m + 1)
           has3 == Body(0, m) \cup {l + 2}
           has4 == has3 \cup {l + 6}
           has5 == has4 \cup {l + 7}
           has9 == Body(1, m) \cup {l + 6}
<1>1. Dap!AfterLayers(b, cfg) = b10
  BY DEF Dap!AfterLayers, Dap!AddNodesAfterLayer, Dap!WaitEvent, Dap!RecordEvent, Dap!WaitEnd, Dap!RecordEnd
<1>2. /\ 0 \in Streams /\ 1 \in Streams /\ 1 - 0 = 1 /\ 1 - 1 = 0 /\ RoleOf(0) = "PRECEDER" /\ RoleOf(1) = "SUCCESSOR"
      /\ "PRECEDER" \in DapRoles /\ "SUCCESSOR" \in DapRoles /\ DapKeys = {"compute", "comm", "end"}
      /\ OwnAction(0) = "PUSH" /\ OwnAction(1) = "POP" /\ "WAIT" \in EventKinds /\ "RECORD" \in EventKinds
      /\ 2 \in DapSlots /\ 6 \in DapSlots /\ 7 \in DapSlots
  BY DEF Streams, RoleOf, DapRoles, DapKeys, OwnAction, EventKinds, DapSlots
<1>3. n \in Nat /\ m \in Nat /\ m > 0 /\ l \in Nat /\ m + 1 \in Nat /\ l = 8 * (m + 1)
  OBVIOUS
<1>4. Whole(0, m) = has5 /\ Whole(1, m) = has9 /\ Body(0, m) \in SUBSET Nat /\ Body(1, m) \in SUBSET Nat
  BY <1>2, <1>3, WholeLabels, BodyLabels
<1> HIDE DEF m
<1>5. has3 \in SUBSET Nat /\ has4 \in SUBSET Nat /\ has5 \in SUBSET Nat /\ has9 \in SUBSET Nat
  BY <1>3, <1>4
<1>6. /\ b \in DapBuilds /\ b.own.role = RoleOf(0) /\ BatchAt(b, 0, k) /\ BatchAt(b, 1, k)
      /\ Made(b, 0, "end") = 0 /\ Made(b, 1, "end") = 0
  BY <1>2 DEF LayerPoint
<1>7. /\ b1 \in DapBuilds /\ b1.own.role = RoleOf(0) /\ BatchAt(b1, 0, k) /\ Moved(b, b1, 0)
  BY <1>2, <1>6, BatchCompute DEF Moved
<1> HIDE DEF b1
<1>8. /\ b2 \in DapBuilds /\ b2.own.role = RoleOf(0) /\ BatchAt(b2, 0, m) /\ SameFor(1, b, b2) /\ Made(b2, 0, "end") = 0
  <2>1. Moved(b1, b2, 0) /\ BatchAt(b2, 0, m)
    BY <1>2, <1>3, <1>7, BatchSteps DEF m
  <2>2. Moved(b, b2, 0)
    BY <1>2, <1>6, <1>7, <2>1, MovedTrans
  <2> QED
    BY <1>2, <1>6, <2>1, <2>2 DEF Moved
<1> HIDE DEF b2
<1>9. /\ StreamAt(b2, 0, m, Body(0, m), l) /\ Made(b2, 0, "compute") = 2 * m /\ Made(b2, 0, "comm") = 2 * m - 1
  BY <1>3, <1>8 DEF BatchAt
<1> HIDE DEF l
<1>10. EventMade(b2, b3, 0, "comm") /\ StreamAt(b3, 0, m, has3, l + 2)
  <2>1. DapEvent(0, m + 1, 2) = [kind |-> "WAIT", event |-> <<"comm", Made(b2, 0, "comm") + 1>>]
    <3>1. Made(b2, 0, "comm") + 1 = 2 * (m + 1) - 2 + 0
      BY <1>3, <1>9
    <3> QED
      BY <3>1 DEF DapEvent
  <2>2. l < 8 * (m + 1) + 2 /\ l + 2 = 8 * (m + 1) + 2
    BY <1>3
  <2>3. /\ EventMade(b2, Dap!EventNode(b2, "WAIT", OwnAction(0), "comm", 0), 0, "comm")
        /\ StreamAt(Dap!EventNode(b2, "WAIT", OwnAction(0), "comm", 0), 0, m, Body(0, m) \cup {8 * (m + 1) + 2}, 8 * (m + 1) + 2)
    BY <1>2, <1>3, <1>4, <1>8, <1>9, <2>1, <2>2, OwnEvent
  <2> QED
    BY <1>2, <2>2, <2>3
<1> HIDE DEF b3, has3
<1>11. EventMade(b3, b4, 0, "compute") /\ StreamAt(b4, 0, m, has4, l + 6)
  <2>1. DapEvent(0, m + 1, 6) = [kind |-> "RECORD", event |-> <<"compute", Made(b3, 0, "compute") + 1>>]
    <3>1. Made(b3, 0, "compute") + 1 = 2 * (m + 1) - 1
      BY <1>2, <1>3, <1>9, <1>10 DEF EventMade
    <3> QED
      BY <3>1 DEF DapEvent
  <2>2. l + 2 < 8 * (m + 1) + 6 /\ l + 6 = 8 * (m + 1) + 6 /\ l + 2 \in Nat
    BY <1>3
  <2>3. b3 \in DapBuilds
    BY <1>10 DEF EventMade
  <2>4. /\ EventMade(b3, Dap!EventNode(b3, "RECORD", OwnAction(0), "compute", 0), 0, "compute")
        /\ StreamAt(Dap!EventNode(b3, "RECORD", OwnAction(0), "compute", 0), 0, m, has3 \cup {8 * (m + 1) + 6}, 8 * (m + 1) + 6)
    BY <1>2, <1>3, <1>5, <1>10, <2>1, <2>2, <2>3, OwnEvent
  <2> QED
    BY <1>2, <2>2, <2>4
<1> HIDE DEF b4, has4
<1>12. /\ b4 \in DapBuilds /\ b4.own = b2.own /\ SameFor(1, b, b4)
       /\ Made(b4, 0, "compute") = 2 * m + 1 /\ Made(b4, 0, "comm") = 2 * m /\ Made(b4, 0, "end") = 0
       /\ Made(b4, 1, "end") = 0
  <2>1. b4 \in DapBuilds /\ b4.own = b2.own /\ SameFor(1, b2, b3) /\ SameFor(1, b3, b4)
    BY <1>2, <1>10, <1>11 DEF EventMade
  <2>2. SameFor(1, b, b4)
    <3>1. b3 \in DapBuilds
      BY <1>10 DEF EventMade
    <3> QED
      BY <1>2, <1>6, <1>8, <2>1, <3>1, SameForTrans
  <2>3. Made(b4, 0, "compute") = 2 * m + 1 /\ Made(b4, 0, "comm") = 2 * m /\ Made(b4, 0, "end") = 0
    BY <1>2, <1>3, <1>8, <1>9, <1>10, <1>11 DEF EventMade
  <2> QED
    BY <1>2, <1>6, <2>1, <2>2, <2>3 DEF SameFor
<1>13. OtherMade(b4, b5, 0, "end") /\ StreamAt(b5, 0, m, has5, l + 7)
  <2>1. DapEvent(0, m + 1, 7) = [kind |-> "WAIT", event |-> <<"end", Made(b4, 1, "end") + 1>>]
    BY <1>12 DEF DapEvent
  <2>2. l + 6 < 8 * (m + 1) + 7 /\ l + 7 = 8 * (m + 1) + 7 /\ l + 6 \in Nat
    BY <1>3
  <2>3. /\ OtherMade(b4, Dap!EventNode(b4, "WAIT", OwnAction(1 - 0), "end", 0), 0, "end")
        /\ StreamAt(Dap!EventNode(b4, "WAIT", OwnAction(1 - 0), "end", 0), 0, m, has4 \cup {8 * (m + 1) + 7}, 8 * (m + 1) + 7)
    <3>1. Made(b4, 1 - 0, "end") = Made(b4, 1, "end")
      BY <1>2
    <3>2. DapEvent(0, m + 1, 7) = [kind |-> "WAIT", event |-> <<"end", Made(b4, 1 - 0, "end") + 1>>]
      BY <2>1, <3>1
    <3> QED
      BY <1>2, <1>3, <1>5, <1>11, <1>12, <2>2, <3>2, OtherEvent
  <2> QED
    BY <1>2, <2>2, <2>3
<1> HIDE DEF b5, has5
<1>14. /\ b5 \in DapBuilds /\ b5.own = b2.own /\ BatchAt(b5, 1, k)
       /\ Made(b5, 0, "compute") = 2 * m + 1 /\ Made(b5, 0, "comm") = 2 * m /\ Made(b5, 0, "end") = 0
  <2>1. /\ b5 \in DapBuilds /\ b5.own = b4.own /\ b5.nodes[1] = b4.nodes[1] /\ b4.size <= b5.size
        /\ \A key \in DapKeys : Made(b5, 0, key) = Made(b4, 0, key)
        /\ Made(b5, 1, "compute") = Made(b4, 1, "compute") /\ Made(b5, 1, "comm") = Made(b4, 1, "comm")
    BY <1>2, <1>13 DEF OtherMade
  <2>2. SameBatch(1, b4, b5)
    BY <2>1 DEF SameBatch
  <2>3. BatchAt(b4, 1, k)
    BY <1>2, <1>6, <1>12, BatchStays
  <2>4. BatchAt(b5, 1, k)
    BY <1>2, <1>12, <2>1, <2>2, <2>3, BatchStays
  <2> QED
    BY <1>2, <1>12, <2>1, <2>4
<1>15. b6 \in DapBuilds /\ b6.own.role = RoleOf(1) /\ SameFor(0, b5, b6) /\ SameFor(1, b5, b6) /\ BatchAt(b6, 1, k)
  <2>1. b6 \in DapBuilds /\ b6.own.role = RoleOf(1) /\ SameFor(0, b5, b6) /\ SameFor(1, b5, b6)
    BY <1>2, <1>14, TurnTo
  <2> HIDE DEF b6
  <2> QED
    BY <1>2, <1>14, <2>1, BatchStays
<1> HIDE DEF b6
<1>16. /\ b7 \in DapBuilds /\ b7.own.role = RoleOf(1) /\ BatchAt(b7, 1, k) /\ SameFor(0, b6, b7)
  <2>1. Moved(b6, b7, 1) /\ BatchAt(b7, 1, k)
    BY <1>2, <1>15, BatchCompute
  <2> HIDE DEF b7
  <2> QED
    BY <1>2, <1>15, <2>1 DEF Moved
<1> HIDE DEF b7
<1>17. /\ b8 \in DapBuilds /\ BatchAt(b8, 1, m) /\ SameFor(0, b5, b8)
  <2>1. Moved(b7, b8, 1) /\ BatchAt(b8, 1, m)
    BY <1>2, <1>3, <1>16, BatchSteps DEF m
  <2>2. b8 \in DapBuilds /\ SameFor(0, b7, b8)
    BY <1>2, <2>1 DEF Moved
  <2> HIDE DEF b8
  <2>3. SameFor(0, b5, b7)
    BY <1>2, <1>14, <1>15, <1>16, SameForTrans
  <2>4. SameFor(0, b5, b8)
    BY <1>2, <1>14, <1>16, <2>2, <2>3, SameForTrans
  <2> QED
    BY <2>1, <2>2, <2>4
<1> HIDE DEF b8
<1>18. OtherMade(b8, b9, 1, "end") /\ StreamAt(b9, 1, m, has9, l + 6)
  <2>1. Made(b8, 0, "end") = 0
    BY <1>2, <1>14, <1>17 DEF SameFor
  <2>2. l < 8 * (m + 1) + 6 /\ l + 6 = 8 * (m + 1) + 6 /\ StreamAt(b8, 1, m, Body(1, m), l)
    BY <1>3, <1>17 DEF BatchAt
  <2>3. /\ OtherMade(b8, Dap!EventNode(b8, "RECORD", OwnAction(1 - 1), "end", 1), 1, "end")
        /\ StreamAt(Dap!EventNode(b8, "RECORD", OwnAction(1 - 1), "end", 1), 1, m, Body(1, m) \cup {8 * (m + 1) + 6}, 8 * (m + 1) + 6)
    <3>1. Made(b8, 1 - 1, "end") = 0
      BY <1>2, <2>1
    <3>2. DapEvent(1, m + 1, 6) = [kind |-> "RECORD", event |-> <<"end", Made(b8, 1 - 1, "end") + 1>>]
      BY <3>1 DEF DapEvent
    <3> QED
      BY <1>2, <1>3, <1>4, <1>17, <2>2, <3>2, OtherEvent
  <2> QED
    BY <1>2, <2>2, <2>3
<1> HIDE DEF b9, has9
<1>19. /\ b9 \in DapBuilds /\ b9.nodes[0] = b5.nodes[0] /\ b5.size <= b9.size
       /\ Made(b9, 0, "compute") = 2 * m + 1 /\ Made(b9, 0, "comm") = 2 * m /\ Made(b9, 0, "end") = 1
  <2>1. /\ b9 \in DapBuilds /\ b9.nodes[0] = b8.nodes[0] /\ b8.size <= b9.size
        /\ Made(b9, 0, "compute") = Made(b8, 0, "compute") /\ Made(b9, 0, "comm") = Made(b8, 0, "comm")
        /\ Made(b9, 0, "end") = Made(b8, 0, "end") + 1
    BY <1>2, <1>18 DEF OtherMade
  <2>2. /\ b8.nodes[0] = b5.nodes[0] /\ b5.size <= b8.size
        /\ Made(b8, 0, "compute") = 2 * m + 1 /\ Made(b8, 0, "comm") = 2 * m /\ Made(b8, 0, "end") = 0
    BY <1>2, <1>14, <1>17 DEF SameFor
  <2>3. b5.size \in Nat /\ b8.size \in Nat /\ b9.size \in Nat
    BY <1>14, <1>17, <2>1 DEF DapBuilds
  <2>4. b5.size <= b9.size
    BY <2>1, <2>2, <2>3
  <2>5. b9.nodes[0] = b5.nodes[0]
    BY <2>1, <2>2
  <2>6. Made(b9, 0, "compute") = 2 * m + 1 /\ Made(b9, 0, "comm") = 2 * m /\ Made(b9, 0, "end") = 1
    BY <2>1, <2>2
  <2> QED
    BY <2>1, <2>4, <2>5, <2>6
<1>20. b10 \in DapBuilds /\ SameFor(0, b9, b10) /\ SameFor(1, b9, b10)
  BY <1>2, <1>19, TurnTo
<1> HIDE DEF b10
<1>21. DapDone(b10, m)
  <2>1. l + 7 = 8 * (m + 1) + 7 /\ l + 7 \in Nat /\ l + 6 \in Nat /\ l + 6 <= l + 7 /\ l + 7 <= l + 7 /\ m <= m
    BY <1>3
  <2>2. StreamAt(b10, 0, m, has5, l + 7)
    <3>1. b10.nodes[0] = b5.nodes[0] /\ b5.size <= b10.size
      <4>1. b5.size \in Nat /\ b9.size \in Nat /\ b10.size \in Nat
        BY <1>14, <1>19, <1>20 DEF DapBuilds
      <4>2. b10.nodes[0] = b9.nodes[0] /\ b9.size <= b10.size
        BY <1>20 DEF SameFor
      <4> QED
        BY <1>19, <4>1, <4>2
    <3> QED
      BY <1>2, <1>3, <1>5, <1>13, <1>14, <1>20, <2>1, <3>1, StreamWeaker
  <2>3. StreamAt(b10, 1, m, has9, l + 7)
    <3>1. b10.nodes[1] = b9.nodes[1] /\ b9.size <= b10.size
      BY <1>20 DEF SameFor
    <3> QED
      BY <1>2, <1>3, <1>5, <1>18, <1>19, <1>20, <2>1, <3>1, StreamWeaker
  <2>4. \A s \in Streams : StreamAt(b10, s, m, Whole(s, m), 8 * (m + 1) + 7)
    BY <1>4, <2>1, <2>2, <2>3 DEF Streams
  <2>5. Made(b10, 0, "compute") = 2 * m + 1 /\ Made(b10, 0, "comm") = 2 * m /\ Made(b10, 0, "end") = 1
    BY <1>2, <1>19, <1>20 DEF SameFor
  <2> QED
    BY <1>20, <2>4, <2>5 DEF DapDone, Made
<1> QED
  BY <1>1, <1>21 DEF m

\* Every event of a batch has been pushed.
LEMMA EventPushed ==
  ASSUME NEW m \in Nat, m > 0, NEW s \in Streams, NEW n \in Nat, NEW r \in DapSlots, Occurs(s, m, n, r)
  PROVE  \/ \E v \in Nat : DapEvent(s, n, r).event = <<"compute", v>> /\ v <= 2 * m + 1
         \/ \E v \in Nat : DapEvent(s, n, r).event = <<"comm", v>> /\ v <= 2 * m
         \/ DapEvent(s, n, r).event = <<"end", 1>>
<1>0. s \in {0, 1}
  BY DEF Streams
<1>1. CASE r = 1
  <2>1. n \in 1 .. m
    BY <1>1 DEF Occurs, Around, AtEnd
  <2>2. 2 * n - 1 + s \in Nat /\ 2 * n - 1 + s <= 2 * m + 1
    BY <1>0, <2>1
  <2> QED
    BY <1>1, <2>2 DEF DapEvent
<1>2. CASE r = 2
  <2>1. (n \in 2 - s .. m) \/ (n = m + 1 /\ s = 0)
    BY <1>2 DEF Occurs, Around, AtEnd
  <2>2. 2 * n - 2 + s \in Nat /\ 2 * n - 2 + s <= 2 * m
    BY <1>0, <2>1
  <2> QED
    BY <1>2, <2>2 DEF DapEvent
<1>3. CASE r = 4
  <2>1. n \in 1 .. m
    BY <1>3 DEF Occurs, Around, AtEnd
  <2>2. 2 * n - 1 + s \in Nat /\ 2 * n - 1 + s <= 2 * m
    BY <1>0, <2>1
  <2> QED
    BY <1>3, <2>2 DEF DapEvent
<1>4. CASE r = 5
  <2>1. n \in 1 .. m \/ (s = 1 /\ n = 0)
    BY <1>4 DEF Occurs, Around, AtEnd
  <2>2. 2 * n + s \in Nat /\ 2 * n + s <= 2 * m + 1
    BY <1>0, <2>1
  <2> QED
    BY <1>4, <2>2 DEF DapEvent
<1>5. CASE r = 6
  <2>1. n = m + 1
    BY <1>5 DEF Occurs, Around, AtEnd
  <2>2. 2 * n - 1 \in Nat /\ 2 * n - 1 <= 2 * m + 1
    BY <2>1
  <2> QED
    BY <1>5, <2>2 DEF DapEvent
<1>6. CASE r = 7
  BY <1>6 DEF DapEvent
<1> QED
  BY <1>1, <1>2, <1>3, <1>4, <1>5, <1>6 DEF DapSlots

\* A finished graph.
LEMMA DoneIsGraph ==
  ASSUME NEW m \in Nat, NEW b, DapDone(b, m)
  PROVE  \E lab : DapGraph(b.nodes, lab, m)
<1> DEFINE Fits(s, lb) == DapStream(b.nodes[s], lb, s, m, Whole(s, m), 8 * (m + 1) + 7, b.size)
           lab == [s \in Streams |-> CHOOSE lb : Fits(s, lb)]
<1>1. ASSUME NEW s \in Streams PROVE Fits(s, lab[s])
  <2>1. \E lb : Fits(s, lb)
    BY DEF DapDone, StreamAt
  <2> HIDE DEF Fits
  <2> QED
    BY <2>1
<1>2. b.size \in Nat /\ 8 * (m + 1) + 7 \in Nat /\ DOMAIN b.nodes = Streams
  BY DEF DapDone, DapBuilds
<1> HIDE DEF lab
<1>3. DapGraph(b.nodes, lab, m)
  BY <1>1, <1>2 DEF DapGraph
<1> QED
  BY <1>3

LEMMA FinishedAsBuilt ==
  ASSUME NEW m \in Nat, m > 0, NEW b, DapDone(b, m)
  PROVE  Dap!Finished(b) = b.nodes
<1>1. PICK lab : DapGraph(b.nodes, lab, m)
  BY DoneIsGraph
<1>2. /\ b.nodes \in [Streams -> Seq(NodesFor(DapKeys))]
      /\ b.pushed["compute"] = 2 * m + 1 /\ b.pushed["comm"] = 2 * m /\ b.pushed["end"] = 1
  BY DEF DapDone, DapBuilds
<1>3. ASSUME NEW s \in Streams, NEW i \in 1 .. Len(b.nodes[s])
      PROVE  Dap!Completed(b, b.nodes[s][i]) = b.nodes[s][i]
  <2>1. CASE b.nodes[s][i].kind = "task"
    BY <2>1 DEF Dap!Completed
  <2>2. CASE b.nodes[s][i].kind # "task"
    <3>1. PICK n \in Nat, r \in DapSlots : IsDapEvent(b.nodes, lab, s, i, n, r) /\ Occurs(s, m, n, r)
      BY <1>1, <2>2, DapEventAt
    <3>2. b.nodes[s][i] = DapEvent(s, n, r)
      BY <3>1 DEF IsDapEvent
    <3>3. b.nodes[s][i].event[2] <= b.pushed[b.nodes[s][i].event[1]]
      <4>1. CASE \E v \in Nat : DapEvent(s, n, r).event = <<"compute", v>> /\ v <= 2 * m + 1
        BY <1>2, <3>2, <4>1
      <4>2. CASE \E v \in Nat : DapEvent(s, n, r).event = <<"comm", v>> /\ v <= 2 * m
        BY <1>2, <3>2, <4>2
      <4>3. CASE DapEvent(s, n, r).event = <<"end", 1>>
        BY <1>2, <3>2, <4>3
      <4> QED
        BY <3>1, <4>1, <4>2, <4>3, EventPushed
    <3> QED
      BY <3>3 DEF Dap!Completed
  <2> QED
    BY <2>1, <2>2
<1>4. ASSUME NEW s \in Streams
      PROVE  [i \in DOMAIN b.nodes[s] |-> Dap!Completed(b, b.nodes[s][i])] = b.nodes[s]
  <2>1. b.nodes[s] \in Seq(NodesFor(DapKeys)) /\ DOMAIN b.nodes[s] = 1 .. Len(b.nodes[s])
    BY <1>2
  <2>2. b.nodes[s] = [i \in DOMAIN b.nodes[s] |-> b.nodes[s][i]]
    BY <2>1
  <2> QED
    BY <1>3, <2>1, <2>2
<1>5. Dap!Finished(b) = [s \in Streams |-> b.nodes[s]]
  BY <1>4 DEF Dap!Finished, Dap!Streams, Streams
<1>6. [s \in Streams |-> b.nodes[s]] = b.nodes
  BY <1>2
<1> QED
  BY <1>5, <1>6

\* Whatever layers a configuration has.
LEMMA PlainConfig ==
  ASSUME MaxLayers \in Nat, MaxComms \in Nat, NEW cfg \in Dap!Configs
  PROVE  /\ Len(cfg.layers) \in Nat /\ PlainLayers(cfg, Len(cfg.layers)) /\ cfg.after \in 0 .. 1
         /\ cfg.after > 0 \/ \E i \in 1 .. Len(cfg.layers) : cfg.layers[i] > 0
<1>1. /\ cfg.layers \in UNION {[1 .. n -> 0 .. MaxComms] : n \in 1 .. MaxLayers}
      /\ cfg.after \in 0 .. 1 /\ cfg.flashComm \in {FALSE}
      /\ cfg.after > 0 \/ \E l \in DOMAIN cfg.layers : cfg.layers[l] > 0
  BY DEF Dap!Configs
<1>2. PICK n \in 1 .. MaxLayers : cfg.layers \in [1 .. n -> 0 .. MaxComms]
  BY <1>1
<1>3. n \in Nat /\ cfg.layers \in Seq(0 .. MaxComms) /\ Len(cfg.layers) = n /\ DOMAIN cfg.layers = 1 .. n
  BY <1>2
<1>4. \A i \in 1 .. n : cfg.layers[i] \in Nat
  BY <1>2
<1> QED
  BY <1>1, <1>3, <1>4 DEF PlainLayers

\* The graph of any configuration, whatever an earlier model left in the counter.
LEMMA BuiltIsTied ==
  ASSUME MaxLayers \in Nat, MaxComms \in Nat, NEW count \in Dap!Counts, NEW cfg \in Dap!Configs
  PROVE  WellTied(Dap!Finished(Dap!BuildGraph(count, cfg)))
<1> DEFINE b0 == Dap!Reset(Dap!SetRole(Dap!NewBuild(count), "UNDEFINED_ROLE"))
           b1 == Dap!BeforeLayers(b0)
           b2 == Dap!AddLayer(b1, cfg)
           b3 == Dap!AfterLayers(b2, cfg)
<1>1. Dap!BuildGraph(count, cfg) = b3
  BY DEF Dap!BuildGraph, Dap!AddOperationToGraph
<1>2. FreshBuild(Dap!SetRole(b0, "PRECEDER"))
  <2>1. count \in [DapRoles -> Nat]
    BY DEF Dap!Counts, Dap!Roles, DapRoles
  <2> QED
    BY <2>1, FreshStart
<1> HIDE DEF b0
<1>3. LayerPoint(b1, 0)
  BY <1>2, LayersBegin
<1> HIDE DEF b1
<1>4. /\ Len(cfg.layers) \in Nat /\ PlainLayers(cfg, Len(cfg.layers)) /\ cfg.after \in 0 .. 1
      /\ cfg.after > 0 \/ \E i \in 1 .. Len(cfg.layers) : cfg.layers[i] > 0
  BY PlainConfig
<1>5. PICK c \in Nat : LayerPoint(b2, c) /\ ((\E i \in 1 .. Len(cfg.layers) : cfg.layers[i] > 0) => c > 0)
  BY <1>3, <1>4, LayerSteps
<1> HIDE DEF b2
<1>6. cfg.after \in Nat /\ c + cfg.after > 0 /\ c + cfg.after \in Nat
  BY <1>4, <1>5
<1>7. DapDone(b3, c + cfg.after)
  BY <1>5, <1>6, LayersEnd
<1> HIDE DEF b3
<1>8. PICK m \in Nat : m = c + cfg.after
  BY <1>6
<1>9. DapDone(b3, m) /\ m > 0
  BY <1>6, <1>7, <1>8
<1>10. PICK lab : DapGraph(b3.nodes, lab, m)
  BY <1>9, DoneIsGraph
<1>11. WellTied(b3.nodes)
  BY <1>9, <1>10, DapWellTied
<1>12. Dap!Finished(b3) = b3.nodes
  BY <1>9, FinishedAsBuilt
<1> QED
  BY <1>1, <1>11, <1>12

\* The graphs of the base models are tied together.
THEOREM DapGraphsAreTied ==
  ASSUME MaxLayers \in Nat, MaxComms \in Nat
  PROVE  \A g \in Dap!DapGraphs : WellTied(g)
<1>1. \A g \in Dap!DapGraphs : \E count \in Dap!Counts, cfg \in Dap!Configs :
         g = Dap!Finished(Dap!BuildGraph(count, cfg))
  BY DEF Dap!DapGraphs
<1> QED
  BY <1>1, BuiltIsTied
-----------------------------------------------------------------------------
\* The graphs of MicroBatchLayer, in the same way: the labels number the halves over all layers, eight
\* for each, and a call hands a half over, ends one on stream 1 or takes one back.
MicroKeys == {"cc_start", "comm_control", "compute_control"}

\* The half-batches in the order of their computation: the layer that each is in, which half it
\* is, and the place of its computation.
Halves == [layer : Nat, half : {0, 1}, place : Nat]
GoodHalves(h) ==
    /\ h \in Seq(Halves)
    /\ \A i, j \in 1 .. Len(h) : j = i + 1 => h[i].half # h[j].half
    /\ \A i, j \in 1 .. Len(h) : i < j => h[i].layer <= h[j].layer /\ h[i].place < h[j].place
First(h, n) == n = 1 \/ h[n - 1].layer < h[n].layer

\* Stream 0 records the start of a layer and the end of a computation, stream 1 the end of a
\* communication; the other stream waits for it.
Recorder(key) == IF key = "comm_control" THEN 1 ELSE 0
Slot(s, key) == IF key = "cc_start" THEN 1 ELSE IF key = "compute_control" THEN 4 ELSE IF s = 1 THEN 3 ELSE 5
MicroEvent(s, h, n, key) ==
    [kind |-> IF s = Recorder(key) THEN "RECORD" ELSE "WAIT",
     event |-> <<key, IF key = "cc_start" THEN h[n].layer ELSE n>>]

\* The events of the first p halves and of the starts of all layers.
MicroOccurs(h, p, n, key) == IF key = "cc_start" THEN First(h, n) ELSE n <= p
MicroHas(s, h, p) ==
    {l \in Nat : \E n \in 1 .. Len(h), key \in MicroKeys : l = 8 * n + Slot(s, key) /\ MicroOccurs(h, p, n, key)}

\* What a node with label l is: the computation of a half, which comes before the events of the half
\* before unless it is the first of its layer; some communication of a half; or an event.
ComputeLabel(h, n) == IF First(h, n) THEN 8 * n ELSE 8 * (n - 1) + 3
IsComputation(s, h, l, x, n) ==
    /\ s = 0 /\ l = ComputeLabel(h, n)
    /\ x.kind = "task" /\ x.unit = "compute" /\ x.data = h[n].half /\ x.place = h[n].place
IsCommunication(s, h, l, x, n) ==
    /\ s = 1 /\ l = 8 * n + 2
    /\ x.kind = "task" /\ x.unit = "comm" /\ x.data = h[n].half /\ h[n].place < x.place
    /\ n < Len(h) => x.place < h[n + 1].place
MicroFits(s, h, l, x) ==
    \/ \E n \in 1 .. Len(h) : IsComputation(s, h, l, x, n) \/ IsCommunication(s, h, l, x, n)
    \/ \E n \in 1 .. Len(h), key \in MicroKeys : l = 8 * n + Slot(s, key) /\ x = MicroEvent(s, h, n, key)

MicroStream(q, lab, s, h, has, top, size) ==
    /\ q \in Seq(NodesFor(MicroKeys))
    /\ Labelled(q, lab, has, top, size)
    /\ \A i \in 1 .. Len(q) : MicroFits(s, h, lab[i], q[i])

\* The labels of the two nodes of an event.
MicroSends(h) ==
    [s \in Streams |->
        {e \in Nat \X Nat : \E n \in 1 .. Len(h), key \in MicroKeys :
            /\ Recorder(key) = s /\ MicroOccurs(h, Len(h), n, key)
            /\ e = <<8 * n + Slot(s, key), 8 * n + Slot(1 - s, key)>>}]

\* A graph of both halves.
MicroGraph(g, lab, h) ==
    /\ DOMAIN g = Streams
    /\ GoodHalves(h) /\ Len(h) # 1
    /\ \A s \in Streams :
         \E top \in Nat, size \in Nat : MicroStream(g[s], lab[s], s, h, MicroHas(s, h, Len(h)), top, size)

\* Node i of stream s is the event of half n and this key.
IsMicroEvent(g, lab, s, h, i, n, key) == lab[s][i] = 8 * n + Slot(s, key) /\ g[s][i] = MicroEvent(s, h, n, key)
HasMicroEvent(g, lab, s, h, n, key) == \E i \in 1 .. Len(g[s]) : IsMicroEvent(g, lab, s, h, i, n, key)
-----------------------------------------------------------------------------
\* The order of a labelled stream.
LEMMA MicroOrder ==
  ASSUME NEW g, NEW lab, NEW h, MicroGraph(g, lab, h), NEW s \in Streams
  PROVE  /\ g[s] \in Seq(NodesFor(MicroKeys)) /\ Len(g[s]) \in Nat /\ DOMAIN g[s] = 1 .. Len(g[s])
         /\ \A i \in 1 .. Len(g[s]) : lab[s][i] \in Nat /\ g[s][i] \in NodesFor(MicroKeys)
         /\ \A i, j \in 1 .. Len(g[s]) : lab[s][i] < lab[s][j] => i < j
         /\ \A i, j \in 1 .. Len(g[s]) : lab[s][i] = lab[s][j] /\ g[s][i].kind # "task" => i = j
         /\ \A i, j \in 1 .. Len(g[s]) :
              g[s][i].kind = "task" /\ g[s][j].kind = "task" /\ g[s][i].place < g[s][j].place => i < j
<1>1. PICK top \in Nat, size \in Nat : MicroStream(g[s], lab[s], s, h, MicroHas(s, h, Len(h)), top, size)
  BY DEF MicroGraph
<1> DEFINE q == g[s]
           lb == lab[s]
<1>2. /\ q \in Seq(NodesFor(MicroKeys)) /\ lb \in Seq(Nat) /\ Len(lb) = Len(q) /\ Len(q) \in Nat
      /\ DOMAIN q = 1 .. Len(q)
  BY <1>1 DEF MicroStream, Labelled
<1>3. \A i \in 1 .. Len(q) : lb[i] \in Nat /\ q[i] \in NodesFor(MicroKeys)
  BY <1>2
<1>4. \A i, j \in 1 .. Len(q) : i < j =>
         /\ lb[i] <= lb[j]
         /\ lb[i] = lb[j] => q[i].kind = "task" /\ q[j].kind = "task"
         /\ q[i].kind = "task" /\ q[j].kind = "task" => q[i].place < q[j].place
  BY <1>1 DEF MicroStream, Labelled
<1> HIDE DEF q, lb
<1>5. \A i, j \in 1 .. Len(q) : i < j \/ i = j \/ j < i
  BY <1>2
<1>6. \A i, j \in 1 .. Len(q) : lb[i] < lb[j] => i < j
  BY <1>3, <1>4, <1>5
<1>7. \A i, j \in 1 .. Len(q) : lb[i] = lb[j] /\ q[i].kind # "task" => i = j
  BY <1>3, <1>4, <1>5
<1>8. \A i \in 1 .. Len(q) : q[i].kind = "task" => q[i].place \in Nat
  BY <1>3 DEF NodesFor
<1>9. \A i, j \in 1 .. Len(q) :
              q[i].kind = "task" /\ q[j].kind = "task" /\ q[i].place < q[j].place => i < j
  BY <1>4, <1>5, <1>8
<1> QED
  BY <1>2, <1>3, <1>6, <1>7, <1>9 DEF q, lb

\* A label tells the half and the key.
LEMMA LabelTells ==
  ASSUME NEW s \in Streams, NEW n \in Nat, NEW k \in Nat, NEW key \in MicroKeys, NEW other \in MicroKeys,
         8 * n + Slot(s, key) = 8 * k + Slot(s, other)
  PROVE  n = k /\ key = other
<1>1. Slot(s, key) \in 0 .. 7 /\ Slot(s, other) \in 0 .. 7
  BY DEF Slot
<1>2. Slot(s, key) = Slot(s, other) => key = other
  BY DEF Slot, MicroKeys
<1> DEFINE r == Slot(s, key)
           t == Slot(s, other)
<1>3. r \in 0 .. 7 /\ t \in 0 .. 7 /\ 8 * n + r = 8 * k + t
  BY <1>1
<1> HIDE DEF r, t
<1>4. ~(n < k)
  <2> SUFFICES ASSUME n < k PROVE FALSE
    OBVIOUS
  <2>1. 8 * n + 8 <= 8 * k
    OBVIOUS
  <2> QED
    BY <1>3, <2>1
<1>5. ~(k < n)
  <2> SUFFICES ASSUME k < n PROVE FALSE
    OBVIOUS
  <2>1. 8 * k + 8 <= 8 * n
    OBVIOUS
  <2> QED
    BY <1>3, <2>1
<1>6. n = k
  BY <1>4, <1>5
<1>7. r = t
  BY <1>3, <1>6
<1> QED
  BY <1>2, <1>6, <1>7 DEF r, t

\* An event of a stream is the one of its label.
LEMMA MicroEventAt ==
  ASSUME NEW g, NEW lab, NEW h, MicroGraph(g, lab, h), NEW s \in Streams,
         NEW i \in 1 .. Len(g[s]), g[s][i].kind # "task"
  PROVE  \E n \in 1 .. Len(h), key \in MicroKeys :
            IsMicroEvent(g, lab, s, h, i, n, key) /\ MicroOccurs(h, Len(h), n, key)
<1>1. PICK top \in Nat, size \in Nat : MicroStream(g[s], lab[s], s, h, MicroHas(s, h, Len(h)), top, size)
  BY DEF MicroGraph
<1>2. PICK n \in 1 .. Len(h), key \in MicroKeys :
          lab[s][i] = 8 * n + Slot(s, key) /\ g[s][i] = MicroEvent(s, h, n, key)
  BY <1>1 DEF MicroStream, MicroFits, IsComputation, IsCommunication
<1>3. lab[s][i] \in MicroHas(s, h, Len(h))
  BY <1>1 DEF MicroStream, Labelled
<1>4. PICK k \in 1 .. Len(h), other \in MicroKeys :
          lab[s][i] = 8 * k + Slot(s, other) /\ MicroOccurs(h, Len(h), k, other)
  BY <1>3 DEF MicroHas
<1>5. n = k /\ key = other
  <2>1. n \in Nat /\ k \in Nat /\ 8 * n + Slot(s, key) = 8 * k + Slot(s, other)
    BY <1>2, <1>4
  <2> QED
    BY <2>1, LabelTells
<1> QED
  BY <1>2, <1>4, <1>5 DEF IsMicroEvent

\* Every event occurs.
LEMMA MicroEventOccurs ==
  ASSUME NEW g, NEW lab, NEW h, MicroGraph(g, lab, h), NEW s \in Streams,
         NEW n \in 1 .. Len(h), NEW key \in MicroKeys, MicroOccurs(h, Len(h), n, key)
  PROVE  HasMicroEvent(g, lab, s, h, n, key)
<1>1. PICK top \in Nat, size \in Nat : MicroStream(g[s], lab[s], s, h, MicroHas(s, h, Len(h)), top, size)
  BY DEF MicroGraph
<1>2. 8 * n + Slot(s, key) \in MicroHas(s, h, Len(h))
  BY DEF MicroHas, Slot
<1>3. PICK i \in 1 .. Len(g[s]) : lab[s][i] = 8 * n + Slot(s, key) /\ g[s][i].kind # "task"
  BY <1>1, <1>2 DEF MicroStream, Labelled
<1>4. PICK k \in 1 .. Len(h), other \in MicroKeys : IsMicroEvent(g, lab, s, h, i, k, other)
  BY <1>3, MicroEventAt
<1>5. n = k /\ key = other
  <2>1. n \in Nat /\ k \in Nat /\ 8 * n + Slot(s, key) = 8 * k + Slot(s, other)
    BY <1>3, <1>4 DEF IsMicroEvent
  <2> QED
    BY <2>1, LabelTells
<1> QED
  BY <1>4, <1>5 DEF HasMicroEvent

LEMMA HalvesTyped ==
  ASSUME NEW h, GoodHalves(h)
  PROVE  /\ Len(h) \in Nat
         /\ \A i \in 1 .. Len(h) : h[i].layer \in Nat /\ h[i].half \in {0, 1} /\ h[i].place \in Nat
<1>1. h \in Seq(Halves)
  BY DEF GoodHalves
<1>2. Len(h) \in Nat /\ \A i \in 1 .. Len(h) : h[i] \in Halves
  BY ONLY <1>1
<1> QED
  BY ONLY <1>2 DEF Halves

\* No two events have one name.
LEMMA MicroEventsDiffer ==
  ASSUME NEW h, GoodHalves(h), NEW s \in Streams, NEW t \in Streams,
         NEW n \in 1 .. Len(h), NEW k \in 1 .. Len(h), NEW key \in MicroKeys, NEW other \in MicroKeys,
         MicroOccurs(h, Len(h), n, key), MicroOccurs(h, Len(h), k, other),
         MicroEvent(s, h, n, key).event = MicroEvent(t, h, k, other).event
  PROVE  n = k /\ key = other
<1> DEFINE rank == IF key = "cc_start" THEN h[n].layer ELSE n
           rankOther == IF other = "cc_start" THEN h[k].layer ELSE k
<1>1. <<key, rank>> = <<other, rankOther>>
  BY DEF MicroEvent
<1> HIDE DEF rank, rankOther
<1>2. key = other /\ rank = rankOther
  BY <1>1, PairParts
<1>3. CASE key # "cc_start"
  BY <1>2, <1>3 DEF rank, rankOther
<1>4. CASE key = "cc_start"
  <2>1. h[n].layer = h[k].layer /\ First(h, n) /\ First(h, k)
    BY <1>2, <1>4 DEF rank, rankOther, MicroOccurs
  <2>2. \A i \in 1 .. Len(h) : h[i].layer \in Nat
    BY HalvesTyped
  <2>3. Len(h) \in Nat
    BY HalvesTyped
  <2>4. ASSUME NEW i \in 1 .. Len(h), NEW j \in 1 .. Len(h), i < j, First(h, j) PROVE h[i].layer < h[j].layer
    <3>1. j - 1 \in 1 .. Len(h) /\ j # 1
      BY <2>3, <2>4
    <3>2. h[j - 1].layer < h[j].layer
      BY <2>4, <3>1 DEF First
    <3>3. h[i].layer <= h[j - 1].layer
      <4>1. CASE i = j - 1
        BY <2>2, <4>1
      <4>2. CASE i < j - 1
        BY <3>1, <4>2 DEF GoodHalves
      <4> QED
        BY <2>3, <2>4, <4>1, <4>2
    <3> QED
      BY <2>2, <3>1, <3>2, <3>3
  <2>5. ~(n < k) /\ ~(k < n)
    BY <2>1, <2>2, <2>4
  <2>6. n \in Nat /\ k \in Nat
    BY <2>3
  <2>7. n = k
    BY ONLY <2>5, <2>6
  <2> QED
    BY <1>2, <2>7
<1> QED
  BY <1>3, <1>4

\* Every signal is one of the sends.
LEMMA MicroSignals ==
  ASSUME NEW g, NEW lab, NEW h, MicroGraph(g, lab, h), NEW s \in Streams,
         NEW a \in 1 .. Len(g[s]), NEW b \in 1 .. Len(g[1 - s]), Signal(g, s, a, 1 - s, b)
  PROVE  <<lab[s][a], lab[1 - s][b]>> \in MicroSends(h)[s]
<1>0. PICK t \in Streams : t = 1 - s
  BY DEF Streams
<1>1. t \in Streams /\ b \in 1 .. Len(g[t])
  BY <1>0
<1>2. g[s][a].kind = "RECORD" /\ g[t][b].kind = "WAIT" /\ g[s][a].event = g[t][b].event
  BY <1>0 DEF Signal
<1>3. PICK n \in 1 .. Len(h), key \in MicroKeys :
        IsMicroEvent(g, lab, s, h, a, n, key) /\ MicroOccurs(h, Len(h), n, key)
  <2>1. g[s][a].kind # "task"
    BY <1>2
  <2> QED
    BY <2>1, MicroEventAt
<1>4. PICK k \in 1 .. Len(h), other \in MicroKeys :
        IsMicroEvent(g, lab, t, h, b, k, other) /\ MicroOccurs(h, Len(h), k, other)
  <2>1. g[t][b].kind # "task"
    BY <1>2
  <2> QED
    BY <1>1, <2>1, MicroEventAt
<1>5. MicroEvent(s, h, n, key).event = MicroEvent(t, h, k, other).event
  BY <1>2, <1>3, <1>4 DEF IsMicroEvent
<1>6. n = k /\ key = other
  <2>1. GoodHalves(h)
    BY DEF MicroGraph
  <2> QED
    BY <1>1, <1>3, <1>4, <1>5, <2>1, MicroEventsDiffer
<1>7. Recorder(key) = s
  BY <1>2, <1>3 DEF IsMicroEvent, MicroEvent
<1> DEFINE e == <<lab[s][a], lab[t][b]>>
<1>8. e = <<8 * n + Slot(s, key), 8 * n + Slot(1 - s, key)>>
  BY <1>0, <1>3, <1>4, <1>6 DEF IsMicroEvent
<1>9. e \in Nat \X Nat
  <2>1. Slot(s, key) \in Nat /\ Slot(1 - s, key) \in Nat /\ n \in Nat
    BY DEF Slot
  <2> QED
    BY <1>8, <2>1
<1> HIDE DEF e
<1>10. e \in MicroSends(h)[s]
  BY <1>3, <1>7, <1>8, <1>9 DEF MicroSends
<1> QED
  BY <1>0, <1>10 DEF e

\* Every send is a signal.
LEMMA MicroSignalOccurs ==
  ASSUME NEW g, NEW lab, NEW h, MicroGraph(g, lab, h), NEW s \in Streams,
         NEW n \in 1 .. Len(h), NEW key \in MicroKeys, Recorder(key) = s, MicroOccurs(h, Len(h), n, key)
  PROVE  SentBetween(g, lab, s, <<8 * n + Slot(s, key), 8 * n + Slot(1 - s, key)>>)
<1>0. PICK t \in Streams : t = 1 - s /\ t # s
  BY DEF Streams
<1>1. HasMicroEvent(g, lab, s, h, n, key) /\ HasMicroEvent(g, lab, t, h, n, key)
  BY MicroEventOccurs
<1>2. PICK a \in 1 .. Len(g[s]) : IsMicroEvent(g, lab, s, h, a, n, key)
  BY <1>1 DEF HasMicroEvent
<1>3. PICK b \in 1 .. Len(g[t]) : IsMicroEvent(g, lab, t, h, b, n, key)
  BY <1>1 DEF HasMicroEvent
<1>4. /\ g[s][a].kind = "RECORD" /\ g[t][b].kind = "WAIT" /\ g[s][a].event = g[t][b].event
      /\ lab[s][a] = 8 * n + Slot(s, key) /\ lab[t][b] = 8 * n + Slot(1 - s, key)
  BY <1>0, <1>2, <1>3 DEF IsMicroEvent, MicroEvent
<1> QED
  BY <1>0, <1>4 DEF SentBetween, Signal

LEMMA MicroTiedByLabels ==
  ASSUME NEW g, NEW lab, NEW h, MicroGraph(g, lab, h)
  PROVE  TiedByLabels(g, lab, MicroSends(h))
<1>1. \A s \in Streams : MicroSends(h)[s] \subseteq Nat \X Nat
  BY DEF MicroSends
<1>2. ASSUME NEW s \in Streams, NEW e \in MicroSends(h)[s]
      PROVE  SentBetween(g, lab, s, e)
  <2>1. PICK n \in 1 .. Len(h), key \in MicroKeys :
            /\ Recorder(key) = s /\ MicroOccurs(h, Len(h), n, key)
            /\ e = <<8 * n + Slot(s, key), 8 * n + Slot(1 - s, key)>>
    BY DEF MicroSends
  <2> QED
    BY <2>1, MicroSignalOccurs
<1>3. \A s \in Streams : /\ Len(g[s]) \in Nat /\ DOMAIN g[s] = 1 .. Len(g[s])
                         /\ \A i \in 1 .. Len(g[s]) : lab[s][i] \in Nat
                         /\ \A i, j \in 1 .. Len(g[s]) : lab[s][i] < lab[s][j] => i < j
  BY MicroOrder
<1>4. \A s \in Streams : \A a \in 1 .. Len(g[s]), b \in 1 .. Len(g[1 - s]) :
         Signal(g, s, a, 1 - s, b) => <<lab[s][a], lab[1 - s][b]>> \in MicroSends(h)[s]
  BY MicroSignals
<1>5. \A s \in Streams : \A e \in MicroSends(h)[s] :
         \E a \in 1 .. Len(g[s]), b \in 1 .. Len(g[1 - s]) :
            Signal(g, s, a, 1 - s, b) /\ lab[s][a] = e[1] /\ lab[1 - s][b] = e[2]
  BY <1>2 DEF SentBetween
<1> QED
  BY <1>1, <1>3, <1>4, <1>5 DEF TiedByLabels

\* The events of a graph of both halves pair up.
LEMMA MicroPaired ==
  ASSUME NEW g, NEW lab, NEW h, MicroGraph(g, lab, h)
  PROVE  Paired(g)
<1>0. GoodHalves(h)
  BY DEF MicroGraph
<1>1. ASSUME NEW s \in Streams, NEW i \in 1 .. Len(g[s]), g[s][i].kind # "task"
      PROVE  /\ g[s][i].event # NoEvent
             /\ \A t \in Streams : \A j \in 1 .. Len(g[t]) :
                  /\ g[t][j].kind = g[s][i].kind /\ g[t][j].event = g[s][i].event => s = t /\ i = j
  <2>1. PICK n \in 1 .. Len(h), key \in MicroKeys :
          IsMicroEvent(g, lab, s, h, i, n, key) /\ MicroOccurs(h, Len(h), n, key)
    BY <1>1, MicroEventAt
  <2>2. g[s][i].event # NoEvent
    BY <2>1 DEF IsMicroEvent, MicroEvent, NoEvent
  <2>3. ASSUME NEW t \in Streams, NEW j \in 1 .. Len(g[t]),
               g[t][j].kind = g[s][i].kind, g[t][j].event = g[s][i].event
        PROVE  s = t /\ i = j
    <3>1. g[t][j].kind # "task"
      BY <1>1, <2>3
    <3>2. PICK k \in 1 .. Len(h), other \in MicroKeys :
            IsMicroEvent(g, lab, t, h, j, k, other) /\ MicroOccurs(h, Len(h), k, other)
      BY <3>1, MicroEventAt
    <3>3. MicroEvent(s, h, n, key).event = MicroEvent(t, h, k, other).event
      BY <2>1, <2>3, <3>2 DEF IsMicroEvent
    <3>4. n = k /\ key = other
      BY <1>0, <2>1, <3>2, <3>3, MicroEventsDiffer
    <3>5. s = t
      <4>1. MicroEvent(s, h, n, key).kind = MicroEvent(t, h, n, key).kind
        BY <2>1, <2>3, <3>2, <3>4 DEF IsMicroEvent
      <4>2. s \in {0, 1} /\ t \in {0, 1} /\ Recorder(key) \in {0, 1}
        BY DEF Streams, Recorder
      <4> QED
        BY <4>1, <4>2 DEF MicroEvent
    <3>6. lab[s][i] = lab[s][j] /\ j \in 1 .. Len(g[s])
      BY <2>1, <3>2, <3>4, <3>5 DEF IsMicroEvent
    <3> QED
      BY <1>1, <3>5, <3>6, MicroOrder
  <2> QED
    BY <2>2, <2>3
<1>2. ASSUME NEW s \in Streams, NEW i \in 1 .. Len(g[s]), g[s][i].kind = "RECORD"
      PROVE  \E b \in 1 .. Len(g[1 - s]) : Signal(g, s, i, 1 - s, b)
  <2>1. PICK n \in 1 .. Len(h), key \in MicroKeys :
          IsMicroEvent(g, lab, s, h, i, n, key) /\ MicroOccurs(h, Len(h), n, key)
    BY <1>2, MicroEventAt
  <2>2. Recorder(key) = s
    BY <1>2, <2>1 DEF IsMicroEvent, MicroEvent
  <2>3. SentBetween(g, lab, s, <<8 * n + Slot(s, key), 8 * n + Slot(1 - s, key)>>)
    BY <2>1, <2>2, MicroSignalOccurs
  <2>4. PICK a \in 1 .. Len(g[s]), b \in 1 .. Len(g[1 - s]) :
          Signal(g, s, a, 1 - s, b) /\ lab[s][a] = 8 * n + Slot(s, key)
    BY <2>3 DEF SentBetween
  <2>5. lab[s][a] = lab[s][i]
    BY <2>1, <2>4 DEF IsMicroEvent
  <2>6. a = i
    BY <1>2, <2>5, MicroOrder
  <2> QED
    BY <2>4, <2>6
<1>3. ASSUME NEW s \in Streams, NEW i \in 1 .. Len(g[s]), g[s][i].kind = "WAIT"
      PROVE  \E a \in 1 .. Len(g[1 - s]) : Signal(g, 1 - s, a, s, i)
  <2>1. PICK n \in 1 .. Len(h), key \in MicroKeys :
          IsMicroEvent(g, lab, s, h, i, n, key) /\ MicroOccurs(h, Len(h), n, key)
    BY <1>3, MicroEventAt
  <2>2. PICK t \in Streams : t = 1 - s /\ s = 1 - t
    BY DEF Streams
  <2>3. Recorder(key) = t
    <3>1. Recorder(key) # s
      BY <1>3, <2>1 DEF IsMicroEvent, MicroEvent
    <3> QED
      BY <2>2, <3>1 DEF Streams, Recorder
  <2>4. SentBetween(g, lab, t, <<8 * n + Slot(t, key), 8 * n + Slot(1 - t, key)>>)
    BY <2>1, <2>3, MicroSignalOccurs
  <2>5. PICK a \in 1 .. Len(g[t]), b \in 1 .. Len(g[s]) :
          Signal(g, t, a, s, b) /\ lab[s][b] = 8 * n + Slot(s, key)
    BY <2>2, <2>4 DEF SentBetween
  <2>6. lab[s][b] = lab[s][i]
    BY <2>1, <2>5 DEF IsMicroEvent
  <2>7. b = i
    BY <1>3, <2>6, MicroOrder
  <2> QED
    BY <2>2, <2>5, <2>7
<1>4. \A s \in Streams : /\ Len(g[s]) \in Nat /\ DOMAIN g[s] = 1 .. Len(g[s])
                         /\ \A i \in 1 .. Len(g[s]) : g[s][i].kind \in {"task", "RECORD", "WAIT"}
  <2> SUFFICES ASSUME NEW s \in Streams
               PROVE  /\ Len(g[s]) \in Nat /\ DOMAIN g[s] = 1 .. Len(g[s])
                      /\ \A i \in 1 .. Len(g[s]) : g[s][i].kind \in {"task", "RECORD", "WAIT"}
    OBVIOUS
  <2>1. /\ Len(g[s]) \in Nat /\ DOMAIN g[s] = 1 .. Len(g[s])
        /\ \A i \in 1 .. Len(g[s]) : g[s][i] \in NodesFor(MicroKeys)
    BY MicroOrder
  <2> QED
    BY <2>1 DEF NodesFor
<1>5. \A s \in Streams : 1 - s \in Streams
  BY DEF Streams
<1>6. \A s \in Streams : \A i \in 1 .. Len(g[s]) : g[s][i].kind \in {"RECORD", "WAIT"} =>
         /\ g[s][i].event # NoEvent
         /\ \A t \in Streams : \A j \in 1 .. Len(g[t]) :
              /\ g[t][j].kind = g[s][i].kind /\ g[t][j].event = g[s][i].event => s = t /\ i = j
  BY <1>1
<1>7. ASSUME NEW s \in Streams, NEW i \in DOMAIN g[s]
      PROVE  /\ g[s][i].kind \in {"task", "RECORD", "WAIT"}
             /\ g[s][i].kind \in {"RECORD", "WAIT"} =>
                  /\ g[s][i].event # NoEvent
                  /\ \A t \in Streams : \A j \in DOMAIN g[t] :
                       /\ g[t][j].kind = g[s][i].kind /\ g[t][j].event = g[s][i].event => s = t /\ i = j
             /\ g[s][i].kind = "RECORD" => \E b \in DOMAIN g[1 - s] : Signal(g, s, i, 1 - s, b)
             /\ g[s][i].kind = "WAIT" => \E a \in DOMAIN g[1 - s] : Signal(g, 1 - s, a, s, i)
  <2>1. i \in 1 .. Len(g[s]) /\ 1 - s \in Streams /\ \A t \in Streams : DOMAIN g[t] = 1 .. Len(g[t])
    BY <1>4, <1>5
  <2>3. g[s][i].kind \in {"task", "RECORD", "WAIT"}
    BY <1>4, <2>1
  <2>4. g[s][i].kind \in {"RECORD", "WAIT"} =>
          /\ g[s][i].event # NoEvent
          /\ \A t \in Streams : \A j \in DOMAIN g[t] :
               /\ g[t][j].kind = g[s][i].kind /\ g[t][j].event = g[s][i].event => s = t /\ i = j
    BY <1>6, <2>1
  <2>5. g[s][i].kind = "RECORD" => \E b \in DOMAIN g[1 - s] : Signal(g, s, i, 1 - s, b)
    BY <1>2, <2>1
  <2>6. g[s][i].kind = "WAIT" => \E a \in DOMAIN g[1 - s] : Signal(g, 1 - s, a, s, i)
    BY <1>3, <2>1
  <2> QED
    BY <2>3, <2>4, <2>5, <2>6
<1> QED
  BY <1>4, <1>7 DEF Paired

\* A task of stream 0 computes a half, a task of stream 1 communicates for one.
LEMMA MicroTaskAt ==
  ASSUME NEW g, NEW lab, NEW h, MicroGraph(g, lab, h), NEW s \in Streams,
         NEW i \in 1 .. Len(g[s]), g[s][i].kind = "task"
  PROVE  \E n \in 1 .. Len(h) : IF s = 0 THEN IsComputation(s, h, lab[s][i], g[s][i], n)
                                ELSE IsCommunication(s, h, lab[s][i], g[s][i], n)
<1>1. MicroFits(s, h, lab[s][i], g[s][i])
  BY DEF MicroGraph, MicroStream
<1>2. \A n \in 1 .. Len(h), key \in MicroKeys : MicroEvent(s, h, n, key).kind # "task"
  BY DEF MicroEvent
<1> QED
  BY <1>1, <1>2 DEF MicroFits, IsComputation, IsCommunication

\* The places grow with the halves.
LEMMA PlacesGrow ==
  ASSUME NEW h, GoodHalves(h), NEW j \in 1 .. Len(h), NEW k \in 1 .. Len(h), h[j].place < h[k].place
  PROVE  j < k
<1>1. /\ Len(h) \in Nat
      /\ \A i \in 1 .. Len(h) : h[i].place \in Nat
  BY HalvesTyped
<1>2. ASSUME k < j PROVE FALSE
  <2>1. h[k].place < h[j].place
    BY <1>2 DEF GoodHalves
  <2> QED
    BY <1>1, <2>1
<1>3. k # j
  BY <1>1
<1> QED
  BY <1>1, <1>2, <1>3

\* The events of a half, by their labels.
LEMMA MicroSendsHas ==
  ASSUME NEW h, GoodHalves(h), NEW n \in 1 .. Len(h)
  PROVE  /\ <<8 * n + 4, 8 * n + 4>> \in MicroSends(h)[0]
         /\ <<8 * n + 3, 8 * n + 5>> \in MicroSends(h)[1]
         /\ First(h, n) => <<8 * n + 1, 8 * n + 1>> \in MicroSends(h)[0]
<1>1. Len(h) \in Nat
  BY HalvesTyped
<1>2. n \in Nat /\ n <= Len(h)
  BY <1>1
<1>3. "cc_start" \in MicroKeys /\ "compute_control" \in MicroKeys /\ "comm_control" \in MicroKeys
  BY DEF MicroKeys
<1>4. 0 \in Streams /\ 1 \in Streams /\ 1 - 0 = 1 /\ 1 - 1 = 0
  BY DEF Streams
<1>5. ASSUME NEW s \in Streams, NEW key \in MicroKeys, Recorder(key) = s, MicroOccurs(h, Len(h), n, key)
      PROVE  <<8 * n + Slot(s, key), 8 * n + Slot(1 - s, key)>> \in MicroSends(h)[s]
  <2>1. 8 * n + Slot(s, key) \in Nat /\ 8 * n + Slot(1 - s, key) \in Nat
    BY <1>2 DEF Slot
  <2>2. <<8 * n + Slot(s, key), 8 * n + Slot(1 - s, key)>> \in Nat \X Nat
    BY ONLY <2>1
  <2> QED
    BY <1>5, <2>2 DEF MicroSends
<1>6. <<8 * n + 4, 8 * n + 4>> \in MicroSends(h)[0]
  <2>1. Recorder("compute_control") = 0 /\ MicroOccurs(h, Len(h), n, "compute_control")
    BY <1>2 DEF Recorder, MicroOccurs
  <2>2. Slot(0, "compute_control") = 4 /\ Slot(1 - 0, "compute_control") = 4
    BY DEF Slot
  <2> QED
    BY <1>3, <1>4, <1>5, <2>1, <2>2
<1>7. <<8 * n + 3, 8 * n + 5>> \in MicroSends(h)[1]
  <2>1. Recorder("comm_control") = 1 /\ MicroOccurs(h, Len(h), n, "comm_control")
    BY <1>2 DEF Recorder, MicroOccurs
  <2>2. Slot(1, "comm_control") = 3 /\ Slot(1 - 1, "comm_control") = 5
    BY <1>4 DEF Slot
  <2> QED
    BY <1>3, <1>4, <1>5, <2>1, <2>2
<1>8. ASSUME First(h, n) PROVE <<8 * n + 1, 8 * n + 1>> \in MicroSends(h)[0]
  <2>1. Recorder("cc_start") = 0 /\ MicroOccurs(h, Len(h), n, "cc_start")
    BY <1>8 DEF Recorder, MicroOccurs
  <2>2. Slot(0, "cc_start") = 1 /\ Slot(1 - 0, "cc_start") = 1
    BY DEF Slot
  <2> QED
    BY <1>3, <1>4, <1>5, <2>1, <2>2
<1> QED
  BY <1>6, <1>7, <1>8

\* There are no others.
LEMMA MicroSendsAre ==
  ASSUME NEW h, GoodHalves(h)
  PROVE  /\ \A e \in MicroSends(h)[0] : \E n \in 1 .. Len(h) :
              \/ e[1] = 8 * n + 4 /\ e[2] = 8 * n + 4
              \/ e[1] = 8 * n + 1 /\ e[2] = 8 * n + 1
         /\ \A e \in MicroSends(h)[1] : \E n \in 1 .. Len(h) : e[1] = 8 * n + 3 /\ e[2] = 8 * n + 5
<1>1. ASSUME NEW s \in Streams, NEW e \in MicroSends(h)[s]
      PROVE  \E n \in 1 .. Len(h), key \in MicroKeys :
                Recorder(key) = s /\ e[1] = 8 * n + Slot(s, key) /\ e[2] = 8 * n + Slot(1 - s, key)
  <2>1. PICK n \in 1 .. Len(h), key \in MicroKeys :
            /\ Recorder(key) = s /\ MicroOccurs(h, Len(h), n, key)
            /\ e = <<8 * n + Slot(s, key), 8 * n + Slot(1 - s, key)>>
    BY DEF MicroSends
  <2> QED
    BY <2>1
<1>2. ASSUME NEW e \in MicroSends(h)[0]
      PROVE  \E n \in 1 .. Len(h) : \/ e[1] = 8 * n + 4 /\ e[2] = 8 * n + 4
                                    \/ e[1] = 8 * n + 1 /\ e[2] = 8 * n + 1
  <2>1. 0 \in Streams
    BY DEF Streams
  <2>2. PICK n \in 1 .. Len(h), key \in MicroKeys :
          Recorder(key) = 0 /\ e[1] = 8 * n + Slot(0, key) /\ e[2] = 8 * n + Slot(1 - 0, key)
    BY <1>1, <2>1
  <2>3. CASE key = "cc_start"
    BY <2>2, <2>3 DEF Slot
  <2>4. CASE key = "compute_control"
    BY <2>2, <2>4 DEF Slot
  <2>5. key # "comm_control"
    BY <2>2 DEF Recorder
  <2> QED
    BY <2>3, <2>4, <2>5 DEF MicroKeys
<1>3. ASSUME NEW e \in MicroSends(h)[1]
      PROVE  \E n \in 1 .. Len(h) : e[1] = 8 * n + 3 /\ e[2] = 8 * n + 5
  <2>1. 1 \in Streams
    BY DEF Streams
  <2>2. PICK n \in 1 .. Len(h), key \in MicroKeys :
          Recorder(key) = 1 /\ e[1] = 8 * n + Slot(1, key) /\ e[2] = 8 * n + Slot(1 - 1, key)
    BY <1>1, <2>1
  <2>3. key = "comm_control"
    BY <2>2 DEF Recorder, MicroKeys
  <2>4. Slot(1, key) = 3 /\ Slot(1 - 1, key) = 5
    BY <2>3 DEF Slot
  <2> QED
    BY <2>2, <2>4
<1> QED
  BY <1>2, <1>3

\* The streams neither cross nor lose a signal.
LEMMA MicroAnswered ==
  ASSUME NEW g, NEW lab, NEW h, MicroGraph(g, lab, h)
  PROVE  Answered(g) /\ Uncrossed(g)
<1>1. TiedByLabels(g, lab, MicroSends(h))
  BY MicroTiedByLabels
<1>2. \A s \in Streams : s \in {0, 1} /\ (s = 0 => 1 - s = 1) /\ (s = 1 => 1 - s = 0)
  BY DEF Streams
<1>3. GoodHalves(h) /\ Len(h) # 1
  BY DEF MicroGraph
<1>4. Len(h) \in Nat
  BY <1>3, HalvesTyped
<1>5. /\ \A e \in MicroSends(h)[0] : \E n \in 1 .. Len(h) :
              \/ e[1] = 8 * n + 4 /\ e[2] = 8 * n + 4
              \/ e[1] = 8 * n + 1 /\ e[2] = 8 * n + 1
      /\ \A e \in MicroSends(h)[1] : \E n \in 1 .. Len(h) : e[1] = 8 * n + 3 /\ e[2] = 8 * n + 5
  BY <1>3, MicroSendsAre
<1>6. ASSUME NEW e \in MicroSends(h)[0]
      PROVE  \E f \in MicroSends(h)[1] : e[2] < f[1] \/ f[2] < e[1]
  <2>1. PICK n \in 1 .. Len(h) : \/ e[1] = 8 * n + 4 /\ e[2] = 8 * n + 4
                                 \/ e[1] = 8 * n + 1 /\ e[2] = 8 * n + 1
    BY <1>5
  <2>2. CASE n < Len(h)
    <3>1. PICK k \in 1 .. Len(h) : k = n + 1
      BY <1>4, <2>2
    <3>2. <<8 * k + 3, 8 * k + 5>> \in MicroSends(h)[1]
      BY <1>3, MicroSendsHas
    <3>3. e[2] < 8 * k + 3
      BY <1>4, <2>1, <3>1
    <3> QED
      BY <3>2, <3>3
  <2>3. CASE e[1] = 8 * n + 1 /\ e[2] = 8 * n + 1
    <3>1. <<8 * n + 3, 8 * n + 5>> \in MicroSends(h)[1]
      BY <1>3, MicroSendsHas
    <3>2. e[2] < 8 * n + 3
      BY <1>4, <2>3
    <3> QED
      BY <3>1, <3>2
  <2>4. CASE ~(n < Len(h)) /\ e[1] = 8 * n + 4
    <3>0. n \in Nat /\ n <= Len(h) /\ 1 <= n
      BY <1>4
    <3>4. n - 1 \in 1 .. Len(h)
      <4>1. Len(h) # 1 /\ Len(h) \in Nat /\ ~(n < Len(h))
        BY <1>3, <1>4, <2>4
      <4>2. PICK m \in Nat : m = Len(h)
        BY <1>4
      <4>3. m # 1 /\ ~(n < m) /\ n <= m /\ 1 <= n /\ n \in Nat
        BY <3>0, <4>1, <4>2
      <4>4. n - 1 \in 1 .. m
        BY ONLY <4>3, m \in Nat
      <4> QED
        BY <4>2, <4>4
    <3>1. PICK k \in 1 .. Len(h) : k = n - 1
      BY <3>4
    <3>2. <<8 * k + 3, 8 * k + 5>> \in MicroSends(h)[1]
      BY <1>3, MicroSendsHas
    <3>3. 8 * k + 5 < e[1]
      BY <1>4, <2>4, <3>1
    <3> QED
      BY <3>2, <3>3
  <2> QED
    BY <2>1, <2>2, <2>3, <2>4
<1>7. ASSUME NEW e \in MicroSends(h)[1]
      PROVE  \E f \in MicroSends(h)[0] : e[2] < f[1] \/ f[2] < e[1]
  <2>1. PICK n \in 1 .. Len(h) : e[1] = 8 * n + 3 /\ e[2] = 8 * n + 5
    BY <1>5
  <2>2. 1 \in 1 .. Len(h) /\ First(h, 1)
    BY <1>4 DEF First
  <2>3. <<8 * 1 + 1, 8 * 1 + 1>> \in MicroSends(h)[0]
    BY <1>3, <2>2, MicroSendsHas
  <2>4. 8 * 1 + 1 < e[1]
    BY <1>4, <2>1
  <2> QED
    BY <2>3, <2>4
<1>8. Answered(g)
  <2>1. \A s \in Streams : \A e \in MicroSends(h)[s] : \E f \in MicroSends(h)[1 - s] : e[2] < f[1] \/ f[2] < e[1]
    BY <1>2, <1>6, <1>7
  <2> QED
    BY <1>1, <2>1, AnsweredByLabels
<1>9. ASSUME NEW e \in MicroSends(h)[0], NEW f \in MicroSends(h)[1]
      PROVE  e[1] < f[2] \/ f[1] < e[2]
  <2>1. PICK n \in 1 .. Len(h) : \/ e[1] = 8 * n + 4 /\ e[2] = 8 * n + 4
                                 \/ e[1] = 8 * n + 1 /\ e[2] = 8 * n + 1
    BY <1>5
  <2>2. PICK k \in 1 .. Len(h) : f[1] = 8 * k + 3 /\ f[2] = 8 * k + 5
    BY <1>5
  <2>3. n \in Nat /\ k \in Nat
    BY <1>4
  <2>4. n <= k \/ k + 1 <= n
    BY ONLY <2>3
  <2>5. CASE n <= k
    BY <2>1, <2>2, <2>3, <2>5
  <2>6. CASE k + 1 <= n
    BY <2>1, <2>2, <2>3, <2>6
  <2> QED
    BY <2>4, <2>5, <2>6
<1>10. Uncrossed(g)
  <2>1. \A s \in Streams : \A e \in MicroSends(h)[s] : \A f \in MicroSends(h)[1 - s] : e[1] < f[2] \/ f[1] < e[2]
    BY <1>2, <1>9
  <2> QED
    BY <1>1, <2>1, UncrossedByLabels
<1> QED
  BY <1>8, <1>10

\* The communication for a half comes after its computation and after every earlier one.
LEMMA ComputedFirst ==
  ASSUME NEW g, NEW lab, NEW h, MicroGraph(g, lab, h), NEW i \in 1 .. Len(g[0]), NEW j \in 1 .. Len(g[1]),
         g[0][i].kind = "task", g[1][j].kind = "task", g[0][i].place < g[1][j].place
  PROVE  Before(g, 0, i, 1, j)
<1>0. GoodHalves(h) /\ 0 \in Streams /\ 1 \in Streams /\ 1 - 0 = 1
  BY DEF MicroGraph, Streams
<1>1. /\ Len(h) \in Nat
      /\ \A n \in 1 .. Len(h) : h[n].place \in Nat
  BY <1>0, HalvesTyped
<1>2. PICK n \in 1 .. Len(h) : IsComputation(0, h, lab[0][i], g[0][i], n)
  <2>1. g[0][i].kind = "task"
    OBVIOUS
  <2> QED
    BY <1>0, <2>1, MicroTaskAt
<1>3. PICK k \in 1 .. Len(h) : IsCommunication(1, h, lab[1][j], g[1][j], k)
  <2>1. g[1][j].kind = "task"
    OBVIOUS
  <2>2. \E k \in 1 .. Len(h) : IF 1 = 0 THEN IsComputation(1, h, lab[1][j], g[1][j], k)
                                ELSE IsCommunication(1, h, lab[1][j], g[1][j], k)
    BY <1>0, <2>1, MicroTaskAt
  <2> QED
    BY <2>2
<1>4. g[1][j].place \in Nat
  <2>1. g[1][j] \in NodesFor(MicroKeys)
    BY <1>0, MicroOrder
  <2> QED
    BY <2>1 DEF NodesFor
<1>5. /\ lab[0][i] = ComputeLabel(h, n) /\ h[n].place < g[1][j].place
      /\ lab[1][j] = 8 * k + 2 /\ (k < Len(h) => g[1][j].place < h[k + 1].place)
  BY <1>2, <1>3 DEF IsComputation, IsCommunication
<1>6. n <= k
  <2>1. CASE k < Len(h)
    <3>1. PICK l \in 1 .. Len(h) : l = k + 1
      BY <1>1, <2>1
    <3>2. h[n].place < h[l].place
      <4>1. h[n].place \in Nat /\ h[l].place \in Nat
        BY <1>1
      <4>2. h[n].place < g[1][j].place
        BY <1>5
      <4>3. h[l].place = h[k + 1].place
        BY <3>1
      <4>4. g[1][j].place < h[l].place
        BY ONLY <1>5, <2>1, <4>3
      <4> QED
        BY ONLY <1>4, <4>1, <4>2, <4>4
    <3>3. n < l
      BY <1>0, <3>2, PlacesGrow
    <3> QED
      BY <1>1, <3>1, <3>3
  <2>2. CASE ~(k < Len(h))
    BY <1>1, <2>2
  <2> QED
    BY <2>1, <2>2
<1>7. TiedByLabels(g, lab, MicroSends(h))
  BY MicroTiedByLabels
<1>8. \E e \in MicroSends(h)[0] : lab[0][i] < e[1] /\ e[2] < lab[1][j]
  <2>1. CASE First(h, n)
    <3>1. <<8 * n + 1, 8 * n + 1>> \in MicroSends(h)[0]
      BY <1>0, <2>1, MicroSendsHas
    <3>2. lab[0][i] = 8 * n
      BY <1>5, <2>1 DEF ComputeLabel
    <3>3. lab[0][i] < 8 * n + 1 /\ 8 * n + 1 < lab[1][j]
      BY <1>1, <1>5, <1>6, <3>2
    <3> QED
      BY <3>1, <3>3
  <2>2. CASE ~First(h, n)
    <3>1. PICK p \in 1 .. Len(h) : p = n - 1
      BY <1>1, <2>2 DEF First
    <3>2. <<8 * p + 4, 8 * p + 4>> \in MicroSends(h)[0]
      BY <1>0, MicroSendsHas
    <3>3. lab[0][i] = 8 * p + 3
      BY <1>5, <2>2, <3>1 DEF ComputeLabel
    <3>4. lab[0][i] < 8 * p + 4 /\ 8 * p + 4 < lab[1][j]
      BY <1>1, <1>5, <1>6, <3>1, <3>3
    <3> QED
      BY <3>2, <3>4
  <2> QED
    BY <2>1, <2>2
<1>9. PICK e \in MicroSends(h)[0] : lab[0][i] < e[1] /\ e[2] < lab[1][j]
  BY <1>8
<1>10. Before(g, 0, i, 1 - 0, j)
  BY <1>0, <1>7, <1>9, BeforeByLabels
<1> QED
  BY <1>0, <1>10

\* A half is computed after the communication for the same half-batch before it.
LEMMA CommunicatedFirst ==
  ASSUME NEW g, NEW lab, NEW h, MicroGraph(g, lab, h), NEW i \in 1 .. Len(g[1]), NEW j \in 1 .. Len(g[0]),
         g[1][i].kind = "task", g[0][j].kind = "task", g[1][i].place < g[0][j].place,
         g[1][i].data = g[0][j].data
  PROVE  Before(g, 1, i, 0, j)
<1>0. GoodHalves(h) /\ 0 \in Streams /\ 1 \in Streams /\ 1 - 1 = 0
  BY DEF MicroGraph, Streams
<1>1. /\ Len(h) \in Nat
      /\ \A n \in 1 .. Len(h) : h[n].place \in Nat
  BY <1>0, HalvesTyped
<1>2. PICK k \in 1 .. Len(h) : IsComputation(0, h, lab[0][j], g[0][j], k)
  <2>1. g[0][j].kind = "task"
    OBVIOUS
  <2> QED
    BY <1>0, <2>1, MicroTaskAt
<1>3. PICK n \in 1 .. Len(h) : IsCommunication(1, h, lab[1][i], g[1][i], n)
  <2>1. g[1][i].kind = "task"
    OBVIOUS
  <2>2. \E n \in 1 .. Len(h) : IF 1 = 0 THEN IsComputation(1, h, lab[1][i], g[1][i], n)
                                ELSE IsCommunication(1, h, lab[1][i], g[1][i], n)
    BY <1>0, <2>1, MicroTaskAt
  <2> QED
    BY <2>2
<1>4. g[1][i].place \in Nat
  <2>1. g[1][i] \in NodesFor(MicroKeys)
    BY <1>0, MicroOrder
  <2> QED
    BY <2>1 DEF NodesFor
<1>5. /\ lab[0][j] = ComputeLabel(h, k) /\ h[n].place < g[1][i].place /\ g[1][i].place < h[k].place
      /\ lab[1][i] = 8 * n + 2 /\ h[n].half = h[k].half
  BY <1>2, <1>3 DEF IsComputation, IsCommunication
<1>6. n < k
  <2>1. h[n].place < h[k].place
    <3>1. h[n].place \in Nat /\ h[k].place \in Nat
      BY <1>1
    <3>2. h[n].place < g[1][i].place /\ g[1][i].place < h[k].place
      BY <1>5
    <3> QED
      BY <1>4, <3>1, <3>2
  <2> QED
    BY <1>0, <2>1, PlacesGrow
<1>7. k # n + 1
  BY <1>0, <1>5 DEF GoodHalves
<1>8. 8 * n + 5 < ComputeLabel(h, k)
  <2>1. n + 2 <= k /\ n \in Nat /\ k \in Nat
    BY <1>1, <1>6, <1>7
  <2>2. 8 * n + 5 < 8 * k /\ 8 * n + 5 < 8 * (k - 1) + 3
    BY ONLY <2>1
  <2> QED
    BY <2>2 DEF ComputeLabel
<1>9. TiedByLabels(g, lab, MicroSends(h))
  BY MicroTiedByLabels
<1>10. <<8 * n + 3, 8 * n + 5>> \in MicroSends(h)[1]
  BY <1>0, MicroSendsHas
<1>11. lab[1][i] < 8 * n + 3 /\ 8 * n + 5 < lab[0][j]
  BY <1>1, <1>5, <1>8
<1>12. PICK e \in MicroSends(h)[1] : lab[1][i] < e[1] /\ e[2] < lab[0][j]
  BY <1>10, <1>11
<1>13. Before(g, 1, i, 1 - 1, j)
  BY <1>0, <1>9, <1>12, BeforeByLabels
<1> QED
  BY <1>0, <1>13

LEMMA MicroWellTied ==
  ASSUME NEW g, NEW lab, NEW h, MicroGraph(g, lab, h)
  PROVE  WellTied(g)
<1>1. \A s \in Streams : DOMAIN g[s] = 1 .. Len(g[s])
  BY MicroOrder
<1>2. ASSUME NEW s \in Streams, NEW i \in 1 .. Len(g[s]), g[s][i].kind = "task"
      PROVE  g[s][i].unit = IF s = 0 THEN "compute" ELSE "comm"
  BY <1>2, MicroTaskAt DEF IsComputation, IsCommunication
<1>3. UnitsShared(g)
  <2> SUFFICES ASSUME NEW s \in Streams, NEW i \in DOMAIN g[s], NEW j \in DOMAIN g[1 - s],
                      g[s][i].kind = "task", g[1 - s][j].kind = "task", g[s][i].unit = g[1 - s][j].unit
               PROVE  FALSE
    BY DEF UnitsShared
  <2>1. PICK t \in Streams : t = 1 - s /\ (t = 0 <=> s # 0)
    BY DEF Streams
  <2>2. i \in 1 .. Len(g[s]) /\ j \in 1 .. Len(g[t])
    BY <1>1, <2>1
  <2>3. g[s][i].unit = IF s = 0 THEN "compute" ELSE "comm"
    BY <1>2, <2>2
  <2>4. g[t][j].unit = IF t = 0 THEN "compute" ELSE "comm"
    BY <1>2, <2>1, <2>2
  <2> QED
    BY <2>1, <2>3, <2>4
<1>4. DataOrdered(g)
  <2> SUFFICES ASSUME NEW s \in Streams, NEW t \in Streams, NEW i \in DOMAIN g[s], NEW j \in DOMAIN g[t],
                      g[s][i].kind = "task", g[t][j].kind = "task",
                      g[s][i].data = g[t][j].data, g[s][i].place < g[t][j].place
               PROVE  IF s = t THEN i < j ELSE Before(g, s, i, t, j)
    BY DEF DataOrdered
  <2>1. i \in 1 .. Len(g[s]) /\ j \in 1 .. Len(g[t])
    BY <1>1
  <2>2. CASE s = t
    <3>1. i < j
      BY <2>1, <2>2, MicroOrder
    <3> QED
      BY <2>2, <3>1
  <2>3. CASE s = 0 /\ t = 1
    <3>1. Before(g, 0, i, 1, j)
      BY <2>1, <2>3, ComputedFirst
    <3> QED
      BY <2>3, <3>1
  <2>4. CASE s = 1 /\ t = 0
    <3>1. Before(g, 1, i, 0, j)
      BY <2>1, <2>4, CommunicatedFirst
    <3> QED
      BY <2>4, <3>1
  <2> QED
    BY <2>2, <2>3, <2>4 DEF Streams
<1> QED
  BY <1>3, <1>4, MicroPaired, MicroAnswered DEF WellTied

\* The graphs under construction.
MicroBuilds ==
    [nodes : [Streams -> Seq(NodesFor(MicroKeys))], size : Nat,
     pushed : [MicroKeys -> Nat], popped : [MicroKeys -> Nat], own : [inited : BOOLEAN]]

\* Some labels fit stream s of b.
MicroStreamAt(b, s, h, has, top) == \E lab : MicroStream(b.nodes[s], lab, s, h, has, top, b.size)

\* b2 is b with node x at the end of stream s.
MicroAdded(b, b2, s, x) ==
    /\ b2 \in MicroBuilds
    /\ b2.nodes[s] = Append(b.nodes[s], x)
    /\ b2.nodes[1 - s] = b.nodes[1 - s]
    /\ b2.size = b.size + 1
    /\ b2.own = b.own

LEMMA MicroNode ==
  ASSUME NEW b \in MicroBuilds, NEW s \in Streams, NEW x \in NodesFor(MicroKeys)
  PROVE  /\ Micro!AddNode(b, s, x) \in MicroBuilds
         /\ Micro!AddNode(b, s, x).nodes[s] = Append(b.nodes[s], x)
         /\ Micro!AddNode(b, s, x).nodes[1 - s] = b.nodes[1 - s]
         /\ Micro!AddNode(b, s, x).size = b.size + 1
         /\ Micro!AddNode(b, s, x).pushed = b.pushed
         /\ Micro!AddNode(b, s, x).popped = b.popped
         /\ Micro!AddNode(b, s, x).own = b.own
<1> DEFINE b2 == Micro!AddNode(b, s, x)
<1>1. b2 = [b EXCEPT !.nodes = [b.nodes EXCEPT ![s] = Append(b.nodes[s], x)], !.size = b.size + 1]
  BY DEF Micro!AddNode, MicroBuilds
<1>2. b.nodes \in [Streams -> Seq(NodesFor(MicroKeys))] /\ b.size \in Nat
  BY DEF MicroBuilds
<1>3. Append(b.nodes[s], x) \in Seq(NodesFor(MicroKeys))
  BY <1>2
<1>4. [b.nodes EXCEPT ![s] = Append(b.nodes[s], x)] \in [Streams -> Seq(NodesFor(MicroKeys))]
  BY <1>2, <1>3
<1>8. b2 = [nodes |-> [b.nodes EXCEPT ![s] = Append(b.nodes[s], x)], size |-> b.size + 1,
            pushed |-> b.pushed, popped |-> b.popped, own |-> b.own]
  BY <1>1 DEF MicroBuilds
<1>5. b2 \in MicroBuilds
  <2>1. b.size + 1 \in Nat
    BY <1>2
  <2>2. /\ b.pushed \in [MicroKeys -> Nat] /\ b.popped \in [MicroKeys -> Nat]
        /\ b.own \in [inited : BOOLEAN]
    BY DEF MicroBuilds
  <2> QED
    BY <1>4, <1>8, <2>1, <2>2 DEF MicroBuilds
<1>6. /\ b2.nodes = [b.nodes EXCEPT ![s] = Append(b.nodes[s], x)]
      /\ b2.size = b.size + 1 /\ b2.pushed = b.pushed /\ b2.popped = b.popped /\ b2.own = b.own
  BY <1>1 DEF MicroBuilds
<1>7. 1 - s \in Streams /\ 1 - s # s
  BY DEF Streams
<1> QED
  BY <1>2, <1>5, <1>6, <1>7

LEMMA MicroEventNode ==
  ASSUME NEW b \in MicroBuilds, NEW s \in Streams, NEW kind \in EventKinds,
         NEW action \in Actions, NEW key \in MicroKeys, NEW x,
         x = [kind |-> kind, event |-> <<key, Calls(b, action, key) + 1>>]
  PROVE  /\ x \in NodesFor(MicroKeys)
         /\ MicroAdded(b, Micro!EventNode(b, kind, action, key, s), s, x)
         /\ Called(b, Micro!EventNode(b, kind, action, key, s), action, key)
<1> DEFINE n == Calls(b, action, key) + 1
           b1 == Micro!AddNode(b, s, x)
           b2 == Micro!EventNode(b, kind, action, key, s)
<1>1. b.pushed \in [MicroKeys -> Nat] /\ b.popped \in [MicroKeys -> Nat]
  BY DEF MicroBuilds
<1>2. n \in Nat
  BY <1>1 DEF Calls
<1>3. x \in NodesFor(MicroKeys)
  <2>1. x = [kind |-> kind, event |-> <<key, n>>]
    OBVIOUS
  <2> HIDE DEF n
  <2> QED
    BY <1>2, <2>1 DEF NodesFor, EventKinds
<1>4. Micro!Rank(b, action, key) = n
  BY DEF Micro!Rank, Calls
<1> HIDE DEF n
<1>5. b2 = IF action = "PUSH" THEN [b1 EXCEPT !.pushed[key] = @ + 1] ELSE [b1 EXCEPT !.popped[key] = @ + 1]
  <2>1. x = [kind |-> kind, event |-> <<key, n>>]
    BY DEF n
  <2> QED
    BY <1>4, <2>1 DEF Micro!EventNode
<1>6. /\ b1 \in MicroBuilds /\ b1.nodes[s] = Append(b.nodes[s], x) /\ b1.nodes[1 - s] = b.nodes[1 - s]
      /\ b1.size = b.size + 1 /\ b1.pushed = b.pushed /\ b1.popped = b.popped /\ b1.own = b.own
  BY <1>3, MicroNode
<1> HIDE DEF b1, b2
<1>7. /\ b2 \in MicroBuilds /\ b2.nodes = b1.nodes /\ b2.size = b1.size /\ b2.own = b1.own
      /\ b2.pushed = IF action = "PUSH" THEN [b1.pushed EXCEPT ![key] = @ + 1] ELSE b1.pushed
      /\ b2.popped = IF action = "POP" THEN [b1.popped EXCEPT ![key] = @ + 1] ELSE b1.popped
  <2>1. CASE action = "PUSH"
    <3>1. b2 = [b1 EXCEPT !.pushed = [b1.pushed EXCEPT ![key] = b1.pushed[key] + 1]]
      BY <1>5, <1>6, <2>1 DEF MicroBuilds
    <3>2. [b1.pushed EXCEPT ![key] = b1.pushed[key] + 1] \in [MicroKeys -> Nat]
      BY <1>6 DEF MicroBuilds
    <3>3. b2 \in MicroBuilds
      BY <1>6, <3>1, <3>2 DEF MicroBuilds
    <3>4. /\ b2.nodes = b1.nodes /\ b2.size = b1.size /\ b2.own = b1.own /\ b2.popped = b1.popped
          /\ b2.pushed = [b1.pushed EXCEPT ![key] = b1.pushed[key] + 1]
      BY <1>6, <3>1 DEF MicroBuilds
    <3> QED
      BY <2>1, <3>3, <3>4
  <2>2. CASE action = "POP"
    <3>1. b2 = [b1 EXCEPT !.popped = [b1.popped EXCEPT ![key] = b1.popped[key] + 1]]
      BY <1>5, <1>6, <2>2 DEF MicroBuilds
    <3>2. [b1.popped EXCEPT ![key] = b1.popped[key] + 1] \in [MicroKeys -> Nat]
      BY <1>6 DEF MicroBuilds
    <3>3. b2 \in MicroBuilds
      BY <1>6, <3>1, <3>2 DEF MicroBuilds
    <3>4. /\ b2.nodes = b1.nodes /\ b2.size = b1.size /\ b2.own = b1.own /\ b2.pushed = b1.pushed
          /\ b2.popped = [b1.popped EXCEPT ![key] = b1.popped[key] + 1]
      BY <1>6, <3>1 DEF MicroBuilds
    <3> QED
      BY <2>2, <3>3, <3>4
  <2> QED
    BY <2>1, <2>2 DEF Actions
<1> QED
  BY <1>3, <1>6, <1>7 DEF b2, MicroAdded, Called

\* An event more.
LEMMA MicroStreamEvent ==
  ASSUME NEW b \in MicroBuilds, NEW b2 \in MicroBuilds, NEW s \in Streams, NEW h, NEW has \in SUBSET Nat, NEW top \in Nat,
         MicroStreamAt(b, s, h, has, top), NEW n \in 1 .. Len(h), Len(h) \in Nat, NEW key \in MicroKeys, top < 8 * n + Slot(s, key),
         NEW x \in NodesFor(MicroKeys), x = MicroEvent(s, h, n, key),
         b2.nodes[s] = Append(b.nodes[s], x), b2.size = b.size + 1
  PROVE  MicroStreamAt(b2, s, h, has \cup {8 * n + Slot(s, key)}, 8 * n + Slot(s, key))
<1>1. PICK lab : MicroStream(b.nodes[s], lab, s, h, has, top, b.size)
  BY DEF MicroStreamAt
<1> DEFINE q == b.nodes[s]
           l == 8 * n + Slot(s, key)
           q2 == Append(q, x)
           lab2 == Append(lab, l)
<1>2. q \in Seq(NodesFor(MicroKeys)) /\ Labelled(q, lab, has, top, b.size) /\ \A i \in 1 .. Len(q) : MicroFits(s, h, lab[i], q[i])
  BY <1>1 DEF MicroStream
<1>3. l \in Nat /\ x.kind # "task" /\ b.size \in Nat
  <2>1. l \in Nat
    BY DEF Slot
  <2>2. MicroEvent(s, h, n, key).kind # "task"
    BY DEF MicroEvent
  <2> QED
    BY <2>1, <2>2 DEF MicroBuilds
<1>4. lab \in Seq(Nat) /\ Len(lab) = Len(q) /\ Len(q) \in Nat
  BY <1>2 DEF Labelled
<1>5. MicroFits(s, h, l, x)
  BY DEF MicroFits
<1> HIDE DEF l
<1>6. Labelled(q2, lab2, has \cup {l}, l, b.size + 1)
  <2>1. top < l
    BY DEF l
  <2> HIDE DEF q
  <2> QED
    BY <1>2, <1>3, <2>1, LabelledEvent
<1>7. /\ q2 \in Seq(NodesFor(MicroKeys)) /\ Len(q2) = Len(q) + 1 /\ q2[Len(q) + 1] = x
      /\ \A i \in 1 .. Len(q) : q2[i] = q[i]
  <2> HIDE DEF q
  <2> QED
    BY <1>2, AppendElements
<1>8. /\ lab2[Len(q) + 1] = l
      /\ \A i \in 1 .. Len(q) : lab2[i] = lab[i]
  <2>1. lab2[Len(lab) + 1] = l /\ \A i \in 1 .. Len(lab) : lab2[i] = lab[i]
    <3>1. lab \in Seq(Nat) /\ l \in Nat
      BY <1>3, <1>4
    <3> QED
      BY <3>1, AppendElements
  <2> QED
    BY <1>4, <2>1
<1> HIDE DEF q2, lab2
<1>9. \A i \in 1 .. Len(q2) : MicroFits(s, h, lab2[i], q2[i])
  <2> SUFFICES ASSUME NEW i \in 1 .. Len(q2) PROVE MicroFits(s, h, lab2[i], q2[i])
    OBVIOUS
  <2> HIDE DEF q
  <2>1. CASE i \in 1 .. Len(q)
    BY <1>2, <1>7, <1>8, <2>1
  <2>2. CASE i = Len(q) + 1
    BY <1>5, <1>7, <1>8, <2>2
  <2> QED
    BY <1>4, <1>7, <2>1, <2>2
<1>10. MicroStream(q2, lab2, s, h, has \cup {l}, l, b.size + 1)
  BY <1>6, <1>7, <1>9 DEF MicroStream
<1>11. MicroStreamAt(b2, s, h, has \cup {l}, l)
  BY <1>10 DEF MicroStreamAt, q2
<1> QED
  BY <1>11 DEF l

\* A task more.
LEMMA MicroStreamTask ==
  ASSUME NEW b \in MicroBuilds, NEW b2 \in MicroBuilds, NEW s \in Streams, NEW h, NEW has \in SUBSET Nat, NEW top \in Nat,
         MicroStreamAt(b, s, h, has, top), NEW l \in Nat, top <= l, l \notin has,
         NEW x \in NodesFor(MicroKeys), x.kind = "task", x.place = b.size + 1, MicroFits(s, h, l, x),
         b2.nodes[s] = Append(b.nodes[s], x), b2.size = b.size + 1
  PROVE  MicroStreamAt(b2, s, h, has, l)
<1>1. PICK lab : MicroStream(b.nodes[s], lab, s, h, has, top, b.size)
  BY DEF MicroStreamAt
<1> DEFINE q == b.nodes[s]
           q2 == Append(q, x)
           lab2 == Append(lab, l)
<1>2. q \in Seq(NodesFor(MicroKeys)) /\ Labelled(q, lab, has, top, b.size) /\ \A i \in 1 .. Len(q) : MicroFits(s, h, lab[i], q[i])
  BY <1>1 DEF MicroStream
<1>3. b.size \in Nat
  BY DEF MicroBuilds
<1>4. lab \in Seq(Nat) /\ Len(lab) = Len(q) /\ Len(q) \in Nat
  BY <1>2 DEF Labelled
<1>6. Labelled(q2, lab2, has, l, b.size + 1)
  <2> HIDE DEF q
  <2> QED
    BY <1>2, <1>3, LabelledTask
<1>7. /\ q2 \in Seq(NodesFor(MicroKeys)) /\ Len(q2) = Len(q) + 1 /\ q2[Len(q) + 1] = x
      /\ \A i \in 1 .. Len(q) : q2[i] = q[i]
  <2> HIDE DEF q
  <2> QED
    BY <1>2, AppendElements
<1>8. /\ lab2[Len(q) + 1] = l
      /\ \A i \in 1 .. Len(q) : lab2[i] = lab[i]
  <2>1. lab2[Len(lab) + 1] = l /\ \A i \in 1 .. Len(lab) : lab2[i] = lab[i]
    <3>1. lab \in Seq(Nat) /\ l \in Nat
      BY <1>3, <1>4
    <3> QED
      BY <3>1, AppendElements
  <2> QED
    BY <1>4, <2>1
<1> HIDE DEF q2, lab2
<1>9. \A i \in 1 .. Len(q2) : MicroFits(s, h, lab2[i], q2[i])
  <2> SUFFICES ASSUME NEW i \in 1 .. Len(q2) PROVE MicroFits(s, h, lab2[i], q2[i])
    OBVIOUS
  <2> HIDE DEF q
  <2>1. CASE i \in 1 .. Len(q)
    BY <1>2, <1>7, <1>8, <2>1
  <2>2. CASE i = Len(q) + 1
    BY <1>7, <1>8, <2>2
  <2> QED
    BY <1>4, <1>7, <2>1, <2>2
<1>10. MicroStream(q2, lab2, s, h, has, l, b.size + 1)
  BY <1>6, <1>7, <1>9 DEF MicroStream
<1> QED
  BY <1>10 DEF MicroStreamAt, q2

\* The halves so far, which are all in place, and perhaps one more that comes next.
PlacesUpTo(h, size) == \A n \in 1 .. Len(h) : h[n].place <= size
HalfMore(h, h2, size) ==
    \/ h2 = h
    \/ \E y \in Halves : h2 = Append(h, y) /\ size < y.place

LEMMA OneMoreHalf ==
  ASSUME NEW h, h \in Seq(Halves), NEW h2, NEW size \in Nat, HalfMore(h, h2, size)
  PROVE  /\ Len(h) \in Nat /\ Len(h2) \in Nat
         /\ \A n \in 1 .. Len(h) : n \in 1 .. Len(h2) /\ h2[n] = h[n]
         /\ \A n \in 1 .. Len(h2) : n \in 1 .. Len(h) \/ (n = Len(h) + 1 /\ size < h2[n].place)
<1>1. Len(h) \in Nat
  OBVIOUS
<1>2. CASE h2 = h
  BY <1>1, <1>2
<1>3. CASE \E y \in Halves : h2 = Append(h, y) /\ size < y.place
  <2>1. PICK y \in Halves : h2 = Append(h, y) /\ size < y.place
    BY <1>3
  <2>2. /\ Len(h2) = Len(h) + 1
        /\ \A n \in 1 .. Len(h) : h2[n] = h[n]
        /\ h2[Len(h) + 1] = y
    BY <2>1, AppendElements
  <2> QED
    BY <1>1, <2>1, <2>2
<1> QED
  BY <1>2, <1>3 DEF HalfMore

\* What fits the halves so far fits with one more.
LEMMA MicroFitsMore ==
  ASSUME NEW h, h \in Seq(Halves), NEW h2, NEW size \in Nat, HalfMore(h, h2, size), NEW s \in Streams,
         NEW l, NEW x, MicroFits(s, h, l, x), x \in NodesFor(MicroKeys), x.kind = "task" => x.place <= size
  PROVE  MicroFits(s, h2, l, x)
<1>1. /\ Len(h) \in Nat /\ Len(h2) \in Nat
      /\ \A n \in 1 .. Len(h) : n \in 1 .. Len(h2) /\ h2[n] = h[n]
      /\ \A n \in 1 .. Len(h2) : n \in 1 .. Len(h) \/ (n = Len(h) + 1 /\ size < h2[n].place)
  BY OneMoreHalf
<1>2. ASSUME NEW n \in 1 .. Len(h) PROVE (First(h2, n) <=> First(h, n)) /\ ComputeLabel(h2, n) = ComputeLabel(h, n)
  <2>1. n = 1 \/ n - 1 \in 1 .. Len(h)
    BY <1>1
  <2>2. First(h2, n) <=> First(h, n)
    BY <1>1, <2>1 DEF First
  <2> QED
    BY <2>2 DEF ComputeLabel
<1>3. CASE \E n \in 1 .. Len(h) : IsComputation(s, h, l, x, n)
  <2>1. PICK n \in 1 .. Len(h) : IsComputation(s, h, l, x, n)
    BY <1>3
  <2>2. n \in 1 .. Len(h2) /\ IsComputation(s, h2, l, x, n)
    BY <1>1, <1>2, <2>1 DEF IsComputation
  <2> QED
    BY <2>2 DEF MicroFits
<1>4. CASE \E n \in 1 .. Len(h) : IsCommunication(s, h, l, x, n)
  <2>1. PICK n \in 1 .. Len(h) : IsCommunication(s, h, l, x, n)
    BY <1>4
  <2>2. n < Len(h2) => x.place < h2[n + 1].place
    <3> SUFFICES ASSUME n < Len(h2) PROVE x.place < h2[n + 1].place
      OBVIOUS
    <3>1. n + 1 \in 1 .. Len(h2)
      BY <1>1
    <3>2. CASE n < Len(h)
      <4>1. h2[n + 1] = h[n + 1]
        BY <1>1, <3>2
      <4> QED
        BY <2>1, <3>2, <4>1 DEF IsCommunication
    <3>3. CASE ~(n < Len(h))
      <4>1. n + 1 \notin 1 .. Len(h)
        BY <1>1, <3>3
      <4>2. PICK y \in Halves : h2 = Append(h, y) /\ size < y.place
        BY <1>1, <3>1, <4>1 DEF HalfMore
      <4>3. h2[Len(h) + 1] = y
        BY <4>2, AppendElements
      <4>4. n + 1 = Len(h) + 1
        BY <1>1, <3>1, <4>1
      <4>5. h2[n + 1].place = y.place /\ y.place \in Nat
        BY <4>3, <4>4 DEF Halves
      <4>6. x.place <= size /\ x.place \in Nat
        BY <2>1 DEF IsCommunication, NodesFor
      <4> QED
        BY <4>2, <4>5, <4>6
    <3> QED
      BY <3>2, <3>3
  <2>3. n \in 1 .. Len(h2) /\ IsCommunication(s, h2, l, x, n)
    BY <1>1, <2>1, <2>2 DEF IsCommunication
  <2> QED
    BY <2>3 DEF MicroFits
<1>5. CASE \E n \in 1 .. Len(h), key \in MicroKeys : l = 8 * n + Slot(s, key) /\ x = MicroEvent(s, h, n, key)
  <2>1. PICK n \in 1 .. Len(h), key \in MicroKeys : l = 8 * n + Slot(s, key) /\ x = MicroEvent(s, h, n, key)
    BY <1>5
  <2>2. n \in 1 .. Len(h2) /\ MicroEvent(s, h2, n, key) = MicroEvent(s, h, n, key)
    BY <1>1 DEF MicroEvent
  <2> QED
    BY <2>1, <2>2 DEF MicroFits
<1> QED
  BY <1>3, <1>4, <1>5 DEF MicroFits

\* A stream that gets no node.
LEMMA MicroStreamStays ==
  ASSUME NEW b \in MicroBuilds, NEW b2 \in MicroBuilds, NEW s \in Streams, NEW h, h \in Seq(Halves), NEW h2,
         NEW has \in SUBSET Nat, NEW top \in Nat, NEW top2 \in Nat, MicroStreamAt(b, s, h, has, top),
         b2.nodes[s] = b.nodes[s], b.size <= b2.size, HalfMore(h, h2, b.size), top <= top2
  PROVE  MicroStreamAt(b2, s, h2, has, top2)
<1>1. PICK lab : MicroStream(b.nodes[s], lab, s, h, has, top, b.size)
  BY DEF MicroStreamAt
<1> DEFINE q == b.nodes[s]
<1>2. /\ q \in Seq(NodesFor(MicroKeys)) /\ Labelled(q, lab, has, top, b.size)
      /\ \A i \in 1 .. Len(q) : MicroFits(s, h, lab[i], q[i])
  BY <1>1 DEF MicroStream
<1>3. lab \in Seq(Nat) /\ Len(lab) = Len(q) /\ \A i \in 1 .. Len(q) : lab[i] \in Nat /\ q[i] \in NodesFor(MicroKeys)
  BY <1>2 DEF Labelled
<1>4. \A i \in 1 .. Len(q) : lab[i] <= top2
  BY <1>2, <1>3 DEF Labelled
<1>5. \A i \in 1 .. Len(q) : q[i].kind = "task" => q[i].place \in Nat
  BY <1>3 DEF NodesFor
<1>10. b.size \in Nat /\ b2.size \in Nat
  BY DEF MicroBuilds
<1>11. \A i \in 1 .. Len(q) : q[i].kind = "task" => q[i].place <= b.size
  BY <1>2 DEF Labelled
<1> HIDE DEF q
<1>6. \A i \in 1 .. Len(q) : q[i].kind = "task" => q[i].place <= b2.size
  BY <1>5, <1>10, <1>11
<1>7. Labelled(q, lab, has, top2, b2.size)
  BY <1>2, <1>4, <1>6 DEF Labelled
<1>8. ASSUME NEW i \in 1 .. Len(q) PROVE MicroFits(s, h2, lab[i], q[i])
  <2>1. MicroFits(s, h, lab[i], q[i])
    BY <1>2
  <2>2. q[i] \in NodesFor(MicroKeys)
    BY <1>3
  <2>3. q[i].kind = "task" => q[i].place <= b.size
    BY <1>11
  <2> QED
    BY <1>10, <2>1, <2>2, <2>3, MicroFitsMore
<1>9. MicroStream(q, lab, s, h2, has, top2, b2.size)
  BY <1>2, <1>7, <1>8 DEF MicroStream
<1> QED
  BY <1>9 DEF MicroStreamAt, q

\* b2 is b with one more call.
MicroMade(b, b2, s, action, key) ==
    /\ b2 \in MicroBuilds
    /\ b2.nodes[1 - s] = b.nodes[1 - s]
    /\ b.size <= b2.size
    /\ b2.own = b.own
    /\ \A a \in Actions, k \in MicroKeys :
         Calls(b2, a, k) = IF a = action /\ k = key THEN Calls(b, a, k) + 1 ELSE Calls(b, a, k)

LEMMA MicroEventStep ==
  ASSUME NEW b \in MicroBuilds, NEW s \in Streams, NEW kind \in EventKinds, NEW action \in Actions,
         NEW key \in MicroKeys, NEW h, NEW has \in SUBSET Nat, NEW top \in Nat, MicroStreamAt(b, s, h, has, top),
         NEW n \in 1 .. Len(h), Len(h) \in Nat, top < 8 * n + Slot(s, key),
         MicroEvent(s, h, n, key) = [kind |-> kind, event |-> <<key, Calls(b, action, key) + 1>>]
  PROVE  /\ MicroMade(b, Micro!EventNode(b, kind, action, key, s), s, action, key)
         /\ MicroStreamAt(Micro!EventNode(b, kind, action, key, s), s, h,
                          has \cup {8 * n + Slot(s, key)}, 8 * n + Slot(s, key))
<1> DEFINE b2 == Micro!EventNode(b, kind, action, key, s)
           x == [kind |-> kind, event |-> <<key, Calls(b, action, key) + 1>>]
<1>1. x \in NodesFor(MicroKeys) /\ MicroAdded(b, b2, s, x) /\ Called(b, b2, action, key)
  BY MicroEventNode
<1>2. x = MicroEvent(s, h, n, key)
  OBVIOUS
<1> HIDE DEF x, b2
<1>3. MicroStreamAt(b2, s, h, has \cup {8 * n + Slot(s, key)}, 8 * n + Slot(s, key))
  BY <1>1, <1>2, MicroStreamEvent DEF MicroAdded
<1>4. b.size \in Nat /\ b.pushed \in [MicroKeys -> Nat] /\ b.popped \in [MicroKeys -> Nat]
  BY DEF MicroBuilds
<1>5. b.size <= b2.size
  BY <1>1, <1>4 DEF MicroAdded
<1>6. \A a \in Actions, k \in MicroKeys :
         Calls(b2, a, k) = IF a = action /\ k = key THEN Calls(b, a, k) + 1 ELSE Calls(b, a, k)
  BY <1>1, <1>4 DEF Called, Calls, Actions
<1>7. MicroMade(b, b2, s, action, key)
  BY <1>1, <1>5, <1>6 DEF MicroMade, MicroAdded
<1> QED
  BY <1>3, <1>7 DEF b2

\* b2 is b with one more task on stream s, which sees the halves h.
MicroWorked(b, b2, s) ==
    /\ b2 \in MicroBuilds
    /\ b2.nodes[1 - s] = b.nodes[1 - s]
    /\ b2.size = b.size + 1
    /\ b2.own = b.own
    /\ \A a \in Actions, k \in MicroKeys : Calls(b2, a, k) = Calls(b, a, k)

\* What is known of the task that comes next.
UnitOf(s) == IF s = 0 THEN "compute" ELSE "comm"
FitsNext(s, h, l, half, size, n) ==
    /\ IF s = 0 THEN l = ComputeLabel(h, n) /\ h[n].place = size + 1
       ELSE l = 8 * n + 2 /\ n = Len(h) /\ h[n].place < size + 1
    /\ h[n].half = half

LEMMA MicroTaskStep ==
  ASSUME NEW b \in MicroBuilds, NEW s \in Streams, NEW half \in {0, 1}, NEW h, NEW has \in SUBSET Nat, NEW top \in Nat,
         MicroStreamAt(b, s, h, has, top), NEW l \in Nat, top <= l, l \notin has,
         Len(h) \in Nat, NEW n \in 1 .. Len(h), FitsNext(s, h, l, half, b.size, n)
  PROVE  /\ MicroWorked(b, Micro!Work(b, half, s), s)
         /\ MicroStreamAt(Micro!Work(b, half, s), s, h, has, l)
<1> DEFINE x == [kind |-> "task", data |-> half, unit |-> UnitOf(s), place |-> b.size + 1]
           b2 == Micro!AddNode(b, s, x)
<1>1. Micro!Work(b, half, s) = b2
  BY DEF Micro!Work, Micro!AddTask, UnitOf
<1>2. b.size \in Nat
  BY DEF MicroBuilds
<1>3. x \in NodesFor(MicroKeys) /\ x.kind = "task" /\ x.place = b.size + 1 /\ x.unit = UnitOf(s) /\ x.data = half
  <2>1. UnitOf(s) \in {"compute", "comm"} /\ b.size + 1 \in Nat
    BY <1>2 DEF UnitOf
  <2> QED
    BY <2>1 DEF NodesFor
<1> HIDE DEF x
<1>4. MicroFits(s, h, l, x)
  <2>1. CASE s = 0
    <3>1. IsComputation(s, h, l, x, n)
      BY <1>3, <2>1 DEF IsComputation, FitsNext, UnitOf
    <3> QED
      BY <3>1 DEF MicroFits
  <2>2. CASE s = 1
    <3>1. IsCommunication(s, h, l, x, n)
      BY <1>3, <2>2 DEF IsCommunication, FitsNext, UnitOf
    <3> QED
      BY <3>1 DEF MicroFits
  <2> QED
    BY <2>1, <2>2 DEF Streams
<1>5. /\ b2 \in MicroBuilds /\ b2.nodes[s] = Append(b.nodes[s], x) /\ b2.nodes[1 - s] = b.nodes[1 - s]
      /\ b2.size = b.size + 1 /\ b2.pushed = b.pushed /\ b2.popped = b.popped /\ b2.own = b.own
  BY <1>3, MicroNode
<1> HIDE DEF b2
<1>6. MicroStreamAt(b2, s, h, has, l)
  BY <1>3, <1>4, <1>5, MicroStreamTask
<1>7. MicroWorked(b, b2, s)
  BY <1>5 DEF MicroWorked, Calls
<1> QED
  BY <1>1, <1>6, <1>7

-----------------------------------------------------------------------------
\* The labels of the events.
LEMMA HasFacts ==
  ASSUME NEW h, Len(h) \in Nat, NEW s \in Streams, NEW p \in Nat
  PROVE  /\ MicroHas(s, h, p) \in SUBSET Nat
         /\ \A n \in Nat : 8 * n \notin MicroHas(s, h, p) /\ 8 * n + 2 \notin MicroHas(s, h, p)
         /\ s = 0 => \A n \in Nat : 8 * n + 3 \notin MicroHas(s, h, p)
<1>1. MicroHas(s, h, p) \in SUBSET Nat
  BY DEF MicroHas
<1>2. ASSUME NEW n \in Nat, NEW d \in {0, 2, 3}, 8 * n + d \in MicroHas(s, h, p) PROVE d = 3 /\ s = 1
  <2>1. PICK k \in 1 .. Len(h), key \in MicroKeys : 8 * n + d = 8 * k + Slot(s, key)
    BY <1>2 DEF MicroHas
  <2>2. Slot(s, key) \in {1, 3, 4, 5} /\ (Slot(s, key) = 3 => s = 1)
    BY DEF Slot
  <2>3. k \in Nat
    OBVIOUS
  <2> DEFINE r == Slot(s, key)
  <2>4. r \in {1, 3, 4, 5} /\ (r = 3 => s = 1) /\ 8 * n + d = 8 * k + r
    BY <2>1, <2>2
  <2> HIDE DEF r
  <2>5. ~(n < k) /\ ~(k < n)
    <3>1. ASSUME n + 1 <= k PROVE FALSE
      BY <2>3, <2>4, <3>1
    <3>2. ASSUME k + 1 <= n PROVE FALSE
      BY <2>3, <2>4, <3>2
    <3> QED
      BY <2>3, <3>1, <3>2
  <2>6. d = r
    BY <2>3, <2>4, <2>5
  <2> QED
    BY <2>4, <2>6
<1>3. ASSUME NEW n \in Nat
      PROVE  /\ 8 * n \notin MicroHas(s, h, p) /\ 8 * n + 2 \notin MicroHas(s, h, p)
             /\ s = 0 => 8 * n + 3 \notin MicroHas(s, h, p)
  <2>1. 8 * n + 0 = 8 * n
    OBVIOUS
  <2> QED
    BY <1>2, <2>1
<1> QED
  BY <1>1, <1>3

\* The two events of a half.
LEMMA HasNext ==
  ASSUME NEW h, Len(h) \in Nat, NEW s \in Streams, NEW n \in 1 .. Len(h), NEW p \in Nat, n = p + 1
  PROVE  MicroHas(s, h, n) = MicroHas(s, h, p) \cup {8 * n + Slot(s, "comm_control")}
                                               \cup {8 * n + Slot(s, "compute_control")}
<1> DEFINE new == MicroHas(s, h, p) \cup {8 * n + Slot(s, "comm_control")} \cup {8 * n + Slot(s, "compute_control")}
<1>1. "comm_control" \in MicroKeys /\ "compute_control" \in MicroKeys /\ "comm_control" # "cc_start" /\ "compute_control" # "cc_start"
  BY DEF MicroKeys
<1>2. ASSUME NEW l \in MicroHas(s, h, n) PROVE l \in new
  <2>1. PICK k \in 1 .. Len(h), key \in MicroKeys : l = 8 * k + Slot(s, key) /\ MicroOccurs(h, n, k, key)
    BY DEF MicroHas
  <2>2. CASE MicroOccurs(h, p, k, key)
    BY <2>1, <2>2 DEF MicroHas
  <2>3. CASE ~MicroOccurs(h, p, k, key)
    <3>1. key # "cc_start" /\ k <= n /\ ~(k <= p)
      BY <2>1, <2>3 DEF MicroOccurs
    <3>2. k = n
      BY <3>1
    <3> QED
      BY <2>1, <3>1, <3>2 DEF MicroKeys
  <2> QED
    BY <2>2, <2>3
<1>3. ASSUME NEW l \in MicroHas(s, h, p) PROVE l \in MicroHas(s, h, n)
  <2>1. PICK k \in 1 .. Len(h), key \in MicroKeys : l = 8 * k + Slot(s, key) /\ MicroOccurs(h, p, k, key)
    BY DEF MicroHas
  <2>2. MicroOccurs(h, n, k, key)
    BY <2>1 DEF MicroOccurs
  <2> QED
    BY <2>1, <2>2 DEF MicroHas
<1>4. ASSUME NEW key \in MicroKeys, key # "cc_start" PROVE 8 * n + Slot(s, key) \in MicroHas(s, h, n)
  <2>1. MicroOccurs(h, n, n, key)
    BY <1>4 DEF MicroOccurs
  <2>2. 8 * n + Slot(s, key) \in Nat
    BY DEF Slot
  <2> QED
    BY <2>1, <2>2 DEF MicroHas
<1>5. new \subseteq MicroHas(s, h, n)
  BY <1>1, <1>3, <1>4
<1>6. MicroHas(s, h, n) \subseteq new
  BY <1>2
<1> QED
  BY <1>5, <1>6

\* One more half has the start of its layer.
Grown(h, y, h2, n) == h2 = Append(h, y) /\ n = Len(h) + 1

LEMMA HasMore ==
  ASSUME NEW h, h \in Seq(Halves), NEW y \in Halves, NEW h2, NEW n \in Nat, Grown(h, y, h2, n),
         NEW s \in Streams, NEW p \in Nat, p < n
  PROVE  MicroHas(s, h2, p) = IF First(h2, n) THEN MicroHas(s, h, p) \cup {8 * n + 1} ELSE MicroHas(s, h, p)
<1>0. /\ Len(h) \in Nat /\ n = Len(h) + 1 /\ Len(h2) = n /\ h2[n] = y
      /\ \A k \in 1 .. Len(h) : h2[k] = h[k]
  BY AppendElements DEF Grown
<1>1. ASSUME NEW k \in 1 .. Len(h) PROVE First(h2, k) <=> First(h, k)
  <2>1. k = 1 \/ k - 1 \in 1 .. Len(h)
    BY <1>0
  <2> QED
    BY <1>0, <2>1 DEF First
<1>2. ASSUME NEW l \in MicroHas(s, h2, p) PROVE l \in MicroHas(s, h, p) \/ (First(h2, n) /\ l = 8 * n + 1)
  <2>1. PICK k \in 1 .. Len(h2), key \in MicroKeys : l = 8 * k + Slot(s, key) /\ MicroOccurs(h2, p, k, key)
    BY DEF MicroHas
  <2>2. CASE k \in 1 .. Len(h)
    <3>1. MicroOccurs(h, p, k, key)
      BY <1>1, <2>1, <2>2 DEF MicroOccurs
    <3> QED
      BY <2>1, <2>2, <3>1 DEF MicroHas
  <2>3. CASE k = n
    <3>1. key = "cc_start" /\ First(h2, n)
      BY <2>1, <2>3 DEF MicroOccurs
    <3> QED
      BY <2>1, <2>3, <3>1 DEF Slot
  <2> QED
    BY <1>0, <2>2, <2>3
<1>3. ASSUME NEW l \in MicroHas(s, h, p) PROVE l \in MicroHas(s, h2, p)
  <2>1. PICK k \in 1 .. Len(h), key \in MicroKeys : l = 8 * k + Slot(s, key) /\ MicroOccurs(h, p, k, key)
    BY DEF MicroHas
  <2>2. MicroOccurs(h2, p, k, key) /\ k \in 1 .. Len(h2)
    BY <1>0, <1>1, <2>1 DEF MicroOccurs
  <2> QED
    BY <2>1, <2>2 DEF MicroHas
<1>4. ASSUME First(h2, n) PROVE 8 * n + 1 \in MicroHas(s, h2, p)
  <2>1. "cc_start" \in MicroKeys /\ Slot(s, "cc_start") = 1
    BY DEF MicroKeys, Slot
  <2>2. MicroOccurs(h2, p, n, "cc_start") /\ n \in 1 .. Len(h2) /\ 8 * n + 1 \in Nat
    BY <1>0, <1>4 DEF MicroOccurs
  <2> QED
    BY <2>1, <2>2 DEF MicroHas
<1>5. CASE First(h2, n)
  BY <1>2, <1>3, <1>4, <1>5
<1>6. CASE ~First(h2, n)
  BY <1>2, <1>3, <1>6
<1> QED
  BY <1>5, <1>6

\* The halves h are built; p of them have come back from stream 1, where q have ended.
MicroPoint(b, h, p, q, top0, top1) ==
    /\ b \in MicroBuilds
    /\ GoodHalves(h) /\ PlacesUpTo(h, b.size)
    /\ Len(h) > 0 => h[1].half = 0
    /\ \A n \in 1 .. Len(h) : h[n].layer <= Calls(b, "PUSH", "cc_start")
    /\ MicroStreamAt(b, 0, h, MicroHas(0, h, p), top0)
    /\ MicroStreamAt(b, 1, h, MicroHas(1, h, q), top1)
    /\ Calls(b, "POP", "cc_start") = Calls(b, "PUSH", "cc_start")
    /\ Calls(b, "PUSH", "comm_control") = q /\ Calls(b, "PUSH", "compute_control") = q
    /\ Calls(b, "POP", "comm_control") = p /\ Calls(b, "POP", "compute_control") = p

LEMMA MicroWords ==
  /\ 0 \in Streams /\ 1 \in Streams /\ 1 - 0 = 1 /\ 1 - 1 = 0
  /\ "PUSH" \in Actions /\ "POP" \in Actions /\ "RECORD" \in EventKinds /\ "WAIT" \in EventKinds
  /\ "cc_start" \in MicroKeys /\ "comm_control" \in MicroKeys /\ "compute_control" \in MicroKeys
BY DEF Streams, Actions, EventKinds, MicroKeys

LEMMA MicroCounts ==
  ASSUME NEW b \in MicroBuilds, NEW a \in Actions, NEW k \in MicroKeys
  PROVE  Calls(b, a, k) \in Nat /\ b.size \in Nat
BY DEF MicroBuilds, Calls

\* Later labels may come.
LEMMA PointWeaker ==
  ASSUME NEW b, NEW h, NEW p \in Nat, NEW q \in Nat, NEW t0 \in Nat, NEW t1 \in Nat, MicroPoint(b, h, p, q, t0, t1),
         NEW u0 \in Nat, NEW u1 \in Nat, t0 <= u0, t1 <= u1
  PROVE  MicroPoint(b, h, p, q, u0, u1)
<1>1. b \in MicroBuilds /\ b.size \in Nat /\ b.size <= b.size /\ h \in Seq(Halves) /\ Len(h) \in Nat /\ HalfMore(h, h, b.size)
  BY DEF MicroPoint, MicroBuilds, GoodHalves, HalfMore
<1>2. MicroHas(0, h, p) \in SUBSET Nat /\ MicroHas(1, h, q) \in SUBSET Nat
  BY <1>1, MicroWords, HasFacts
<1>3. MicroStreamAt(b, 0, h, MicroHas(0, h, p), u0)
  <2>1. MicroStreamAt(b, 0, h, MicroHas(0, h, p), t0)
    BY DEF MicroPoint
  <2> QED
    BY <1>1, <1>2, <2>1, MicroWords, MicroStreamStays
<1>4. MicroStreamAt(b, 1, h, MicroHas(1, h, q), u1)
  <2>1. MicroStreamAt(b, 1, h, MicroHas(1, h, q), t1)
    BY DEF MicroPoint
  <2> QED
    BY <1>1, <1>2, <2>1, MicroWords, MicroStreamStays
<1> QED
  BY <1>3, <1>4 DEF MicroPoint

\* Stream 0 hands a half over and takes the other one back.
LEMMA HandOverStep ==
  ASSUME NEW b, NEW h, NEW p \in Nat, NEW k \in 1 .. Len(h), k = p + 1, NEW t0 \in Nat, NEW t1 \in Nat,
         MicroPoint(b, h, p, k, t0, t1), t0 < 8 * k + 4
  PROVE  /\ MicroPoint(Micro!HandOver(b), h, k, k, 8 * k + 5, t1) /\ Micro!HandOver(b).own = b.own
         /\ Calls(Micro!HandOver(b), "PUSH", "cc_start") = Calls(b, "PUSH", "cc_start")
<1> DEFINE b1 == Micro!EventNode(b, "RECORD", "POP", "compute_control", 0)
           b2 == Micro!EventNode(b1, "WAIT", "POP", "comm_control", 0)
           has0 == MicroHas(0, h, p)
           has1 == has0 \cup {8 * k + 4}
           has2 == has1 \cup {8 * k + 5}
<1>1. Micro!HandOver(b) = b2
  BY DEF Micro!HandOver, Micro!RecordEvent, Micro!WaitEvent
<1>2. b \in MicroBuilds /\ h \in Seq(Halves) /\ Len(h) \in Nat /\ k \in Nat
  BY DEF MicroPoint, GoodHalves
<1>3. Slot(0, "compute_control") = 4 /\ Slot(0, "comm_control") = 5
  BY DEF Slot
<1>4. has0 \in SUBSET Nat /\ has1 \in SUBSET Nat /\ MicroHas(0, h, k) = has2 /\ MicroHas(1, h, k) \in SUBSET Nat
  <2>1. has0 \in SUBSET Nat /\ MicroHas(1, h, k) \in SUBSET Nat
    BY <1>2, MicroWords, HasFacts
  <2>2. 8 * k + 4 \in Nat
    BY <1>2
  <2>3. MicroHas(0, h, k) = has0 \cup {8 * k + 5} \cup {8 * k + 4}
    BY <1>2, <1>3, MicroWords, HasNext
  <2> QED
    BY <2>1, <2>2, <2>3
<1>5. /\ MicroStreamAt(b, 0, h, has0, t0)
      /\ Calls(b, "POP", "comm_control") = p /\ Calls(b, "POP", "compute_control") = p
  BY DEF MicroPoint
<1> HIDE DEF has0, has1, has2
<1>6. /\ MicroMade(b, b1, 0, "POP", "compute_control")
      /\ MicroStreamAt(b1, 0, h, has1, 8 * k + 4)
  <2>1. MicroEvent(0, h, k, "compute_control")
          = [kind |-> "RECORD", event |-> <<"compute_control", Calls(b, "POP", "compute_control") + 1>>]
    BY <1>5 DEF MicroEvent, Recorder
  <2>2. t0 < 8 * k + Slot(0, "compute_control")
    BY <1>3
  <2>3. /\ MicroMade(b, b1, 0, "POP", "compute_control")
        /\ MicroStreamAt(b1, 0, h, has0 \cup {8 * k + Slot(0, "compute_control")}, 8 * k + Slot(0, "compute_control"))
    BY <1>2, <1>4, <1>5, <2>1, <2>2, MicroWords, MicroEventStep
  <2> QED
    BY <1>3, <2>3 DEF has1
<1> HIDE DEF b1
<1>7. b1 \in MicroBuilds /\ Calls(b1, "POP", "comm_control") = p
  BY <1>5, <1>6, MicroWords DEF MicroMade
<1>8. /\ MicroMade(b1, b2, 0, "POP", "comm_control")
      /\ MicroStreamAt(b2, 0, h, has2, 8 * k + 5)
  <2>1. MicroEvent(0, h, k, "comm_control")
          = [kind |-> "WAIT", event |-> <<"comm_control", Calls(b1, "POP", "comm_control") + 1>>]
    BY <1>7 DEF MicroEvent, Recorder
  <2>2. 8 * k + 4 < 8 * k + Slot(0, "comm_control") /\ 8 * k + 4 \in Nat
    BY <1>2, <1>3
  <2>3. /\ MicroMade(b1, b2, 0, "POP", "comm_control")
        /\ MicroStreamAt(b2, 0, h, has1 \cup {8 * k + Slot(0, "comm_control")}, 8 * k + Slot(0, "comm_control"))
    BY <1>2, <1>4, <1>6, <1>7, <2>1, <2>2, MicroWords, MicroEventStep
  <2> QED
    BY <1>3, <2>3 DEF has2
<1> HIDE DEF b2
<1>9. b2 \in MicroBuilds /\ b2.own = b.own /\ b2.nodes[1] = b.nodes[1] /\ b.size <= b2.size
  <2>1. b.size \in Nat /\ b1.size \in Nat /\ b2.size \in Nat
    BY <1>2, <1>7, <1>8 DEF MicroMade, MicroBuilds
  <2>2. b.size <= b1.size /\ b1.size <= b2.size
    BY <1>6, <1>8 DEF MicroMade
  <2>3. b2.own = b.own /\ b2.nodes[1] = b.nodes[1] /\ b2 \in MicroBuilds
    BY <1>6, <1>8, MicroWords DEF MicroMade
  <2> QED
    BY <2>1, <2>2, <2>3
<1>10. \A a \in Actions, key \in MicroKeys :
          Calls(b2, a, key) = IF a = "POP" /\ key # "cc_start" THEN Calls(b, a, key) + 1 ELSE Calls(b, a, key)
  <2> SUFFICES ASSUME NEW a \in Actions, NEW key \in MicroKeys
               PROVE  Calls(b2, a, key) = IF a = "POP" /\ key # "cc_start" THEN Calls(b, a, key) + 1 ELSE Calls(b, a, key)
    OBVIOUS
  <2>1. Calls(b1, a, key) = IF a = "POP" /\ key = "compute_control" THEN Calls(b, a, key) + 1 ELSE Calls(b, a, key)
    BY <1>6 DEF MicroMade
  <2>2. Calls(b2, a, key) = IF a = "POP" /\ key = "comm_control" THEN Calls(b1, a, key) + 1 ELSE Calls(b1, a, key)
    BY <1>8 DEF MicroMade
  <2> QED
    BY <2>1, <2>2 DEF MicroKeys
<1>11. MicroStreamAt(b2, 1, h, MicroHas(1, h, k), t1)
  <2>1. MicroStreamAt(b, 1, h, MicroHas(1, h, k), t1) /\ HalfMore(h, h, b.size) /\ t1 <= t1
    BY DEF MicroPoint, HalfMore
  <2> QED
    BY <1>2, <1>4, <1>9, <2>1, MicroWords, MicroStreamStays
<1>12. PlacesUpTo(h, b2.size)
  <2>1. PlacesUpTo(h, b.size) /\ GoodHalves(h)
    BY DEF MicroPoint
  <2>2. \A n \in 1 .. Len(h) : h[n].place \in Nat
    BY <2>1, HalvesTyped
  <2>3. b.size \in Nat /\ b2.size \in Nat
    BY <1>2, <1>9 DEF MicroBuilds
  <2> QED
    BY <1>9, <2>1, <2>2, <2>3 DEF PlacesUpTo
<1>13. /\ Calls(b2, "PUSH", "cc_start") = Calls(b, "PUSH", "cc_start") /\ Calls(b2, "POP", "cc_start") = Calls(b, "POP", "cc_start")
       /\ Calls(b2, "PUSH", "comm_control") = Calls(b, "PUSH", "comm_control")
       /\ Calls(b2, "PUSH", "compute_control") = Calls(b, "PUSH", "compute_control")
       /\ Calls(b2, "POP", "comm_control") = p + 1 /\ Calls(b2, "POP", "compute_control") = p + 1
  BY <1>5, <1>10, MicroWords
<1>14. MicroStreamAt(b2, 0, h, MicroHas(0, h, k), 8 * k + 5)
  BY <1>4, <1>8
<1>15. MicroPoint(b2, h, k, k, 8 * k + 5, t1)
  BY <1>9, <1>11, <1>12, <1>13, <1>14 DEF MicroPoint
<1> QED
  BY <1>1, <1>9, <1>13, <1>15

\* The last half is `half', in the layer that was started last.
LastIs(b, h, half) ==
    Len(h) > 0 /\ h[Len(h)].half = half /\ h[Len(h)].layer = Calls(b, "PUSH", "cc_start")

\* Between layers; a half on stream 1; a half that stream 1 has ended, which stream 0 has not taken back.
HasBoundary(b, h) ==
    /\ MicroPoint(b, h, Len(h), Len(h), 8 * Len(h) + 5, 8 * Len(h) + 4)
    /\ b.own.inited = FALSE
    /\ Len(h) > 0 => h[Len(h)].half = 1
HasHanded(b, h, half) ==
    /\ MicroPoint(b, h, Len(h) - 1, Len(h) - 1, 8 * Len(h) + 1, 8 * Len(h) + 2)
    /\ LastIs(b, h, half)
HasOpen(b, h, half) ==
    /\ MicroPoint(b, h, Len(h) - 1, Len(h), 8 * Len(h) + 1, 8 * Len(h) + 4)
    /\ LastIs(b, h, half)
    /\ b.own.inited = TRUE
Boundary(b) == \E h : HasBoundary(b, h)
Handed(b, half) == \E h : HasHanded(b, h, half)
Open(b, half) == \E h : HasOpen(b, h, half)

\* The other half of a layer, or the first of the next, comes next.
LEMMA MoreHalves ==
  ASSUME NEW h, GoodHalves(h), NEW y \in Halves, NEW size \in Nat, PlacesUpTo(h, size), size < y.place,
         Len(h) > 0 => h[Len(h)].half # y.half,
         \A n \in 1 .. Len(h) : h[n].layer <= y.layer
  PROVE  GoodHalves(Append(h, y))
<1> DEFINE h2 == Append(h, y)
           m == Len(h)
<1>1. h \in Seq(Halves)
  BY DEF GoodHalves
<1>2. /\ h2 \in Seq(Halves) /\ Len(h2) = m + 1 /\ m \in Nat /\ h2[m + 1] = y
      /\ \A n \in 1 .. m : h2[n] = h[n]
  BY <1>1, AppendElements
<1>3. \A n \in 1 .. m : h[n].layer \in Nat /\ h[n].half \in {0, 1} /\ h[n].place \in Nat
  BY HalvesTyped
<1>4. y.place \in Nat
  BY DEF Halves
<1> HIDE DEF h2
<1>5. ASSUME NEW i \in 1 .. Len(h2), NEW j \in 1 .. Len(h2), j = i + 1 PROVE h2[i].half # h2[j].half
  <2>1. i \in 1 .. m /\ (j \in 1 .. m \/ (j = m + 1 /\ i = m))
    BY <1>2, <1>5
  <2>2. CASE j \in 1 .. m
    BY <1>2, <1>5, <2>1, <2>2 DEF GoodHalves
  <2>3. CASE j = m + 1 /\ i = m
    BY <1>2, <2>1, <2>3
  <2> QED
    BY <2>1, <2>2, <2>3
<1>6. ASSUME NEW i \in 1 .. Len(h2), NEW j \in 1 .. Len(h2), i < j
      PROVE  h2[i].layer <= h2[j].layer /\ h2[i].place < h2[j].place
  <2>1. i \in 1 .. m /\ (j \in 1 .. m \/ j = m + 1)
    BY <1>2, <1>6
  <2>2. CASE j \in 1 .. m
    BY <1>2, <1>6, <2>1, <2>2 DEF GoodHalves
  <2>3. CASE j = m + 1
    <3>1. h[i].place <= size /\ h[i].place \in Nat
      BY <1>3, <2>1 DEF PlacesUpTo
    <3>2. h[i].place < y.place
      BY <1>4, <3>1
    <3> QED
      BY <1>2, <2>1, <2>3, <3>2
  <2> QED
    BY <2>1, <2>2, <2>3
<1>7. GoodHalves(h2)
  BY <1>2, <1>5, <1>6 DEF GoodHalves
<1> QED
  BY <1>7 DEF h2

\* The half that is computed next.
NewHalf(b, h, half, layer, y, h2, n) ==
    /\ y = [layer |-> layer, half |-> half, place |-> b.size + 1]
    /\ Grown(h, y, h2, n)
    /\ Len(h) > 0 => h[Len(h)].half # half
    /\ Len(h) = 0 => half = 0
    /\ Calls(b, "PUSH", "cc_start") <= layer

HalfComputed(b, b1, h, p, q, layer, y, h2, n, t1) ==
    /\ MicroWorked(b, b1, 0)
    /\ GoodHalves(h2) /\ PlacesUpTo(h2, b1.size) /\ h2[1].half = 0
    /\ Len(h2) = n /\ h2[n] = y
    /\ \A k \in 1 .. n : h2[k].layer <= layer
    /\ MicroStreamAt(b1, 0, h2, MicroHas(0, h, p), ComputeLabel(h2, n))
    /\ MicroStreamAt(b1, 1, h2, MicroHas(1, h, q), t1)

\* Stream 0 computes a half: what the graph is then, with t0 the label of the computation.
LEMMA ComputeHalf ==
  ASSUME NEW b, NEW h, NEW p \in Nat, p <= Len(h), NEW q \in Nat, q <= Len(h), NEW t0 \in Nat, NEW t1 \in Nat,
         MicroPoint(b, h, p, q, t0, t1),
         NEW half \in {0, 1}, NEW layer \in Nat, NEW y, NEW h2, NEW n \in Nat,
         NewHalf(b, h, half, layer, y, h2, n),
         t0 <= ComputeLabel(h2, n)
  PROVE  HalfComputed(b, Micro!Work(b, half, 0), h, p, q, layer, y, h2, n, t1)
<1> DEFINE b1 == Micro!Work(b, half, 0)
           l == ComputeLabel(h2, n)
<1>0. /\ y = [layer |-> layer, half |-> half, place |-> b.size + 1] /\ h2 = Append(h, y) /\ n = Len(h) + 1
      /\ Len(h) > 0 => h[Len(h)].half # half
      /\ Len(h) = 0 => half = 0
      /\ Calls(b, "PUSH", "cc_start") <= layer
  BY DEF NewHalf, Grown
<1>1. /\ b \in MicroBuilds /\ GoodHalves(h) /\ PlacesUpTo(h, b.size) /\ (Len(h) > 0 => h[1].half = 0)
      /\ \A k \in 1 .. Len(h) : h[k].layer <= Calls(b, "PUSH", "cc_start")
      /\ MicroStreamAt(b, 0, h, MicroHas(0, h, p), t0) /\ MicroStreamAt(b, 1, h, MicroHas(1, h, q), t1)
  BY DEF MicroPoint
<1>2. h \in Seq(Halves) /\ Len(h) \in Nat /\ b.size \in Nat
  BY <1>1 DEF GoodHalves, MicroBuilds
<1>3. y \in Halves /\ y.half = half /\ y.layer = layer /\ y.place = b.size + 1 /\ b.size < y.place
  BY <1>0, <1>2 DEF Halves
<1>4. Len(h2) = n /\ h2[n] = y /\ \A k \in 1 .. Len(h) : h2[k] = h[k]
  BY <1>0, <1>2, <1>3, AppendElements
<1>5. \A k \in 1 .. Len(h) : h[k].layer \in Nat /\ h[k].place \in Nat
  BY <1>1, HalvesTyped
<1>6. Calls(b, "PUSH", "cc_start") \in Nat
  BY <1>1, MicroWords, MicroCounts
<1>7. \A k \in 1 .. Len(h) : h[k].layer <= layer
  BY <1>0, <1>1, <1>5, <1>6
<1>8. GoodHalves(h2)
  BY <1>0, <1>1, <1>2, <1>3, <1>7, MoreHalves
<1>9. HalfMore(h, h2, b.size)
  BY <1>0, <1>3 DEF HalfMore
<1>10. MicroHas(0, h, p) \in SUBSET Nat /\ MicroHas(1, h, q) \in SUBSET Nat
  BY <1>2, MicroWords, HasFacts
<1>11. l \in Nat /\ l \notin MicroHas(0, h, p)
  <2>1. n - 1 \in Nat /\ n \in Nat
    BY <1>0, <1>2
  <2>2. l = 8 * n \/ l = 8 * (n - 1) + 3
    BY DEF ComputeLabel
  <2>3. 8 * n \notin MicroHas(0, h, p) /\ 8 * (n - 1) + 3 \notin MicroHas(0, h, p)
    BY <1>2, <2>1, MicroWords, HasFacts
  <2> QED
    BY <2>1, <2>2, <2>3
<1>12. MicroStreamAt(b, 0, h2, MicroHas(0, h, p), t0)
  <2>1. t0 <= t0 /\ b.size <= b.size
    BY <1>2
  <2> QED
    BY <1>1, <1>2, <1>9, <1>10, <2>1, MicroWords, MicroStreamStays
<1>13. MicroWorked(b, b1, 0) /\ MicroStreamAt(b1, 0, h2, MicroHas(0, h, p), l)
  <2>1. FitsNext(0, h2, l, half, b.size, n)
    BY <1>3, <1>4 DEF FitsNext
  <2>2. n \in 1 .. Len(h2) /\ Len(h2) \in Nat /\ t0 <= l
    BY <1>0, <1>2, <1>4
  <2> HIDE DEF l
  <2> QED
    BY <1>1, <1>10, <1>11, <1>12, <2>1, <2>2, MicroWords, MicroTaskStep
<1> HIDE DEF b1
<1>14. b1 \in MicroBuilds /\ b1.nodes[1] = b.nodes[1] /\ b1.size = b.size + 1
  BY <1>13, MicroWords DEF MicroWorked
<1>15. MicroStreamAt(b1, 1, h2, MicroHas(1, h, q), t1)
  <2>1. t1 <= t1 /\ b.size <= b1.size
    BY <1>2, <1>14
  <2> QED
    BY <1>1, <1>2, <1>9, <1>10, <1>14, <2>1, MicroWords, MicroStreamStays
<1>16. PlacesUpTo(h2, b1.size)
  <2> SUFFICES ASSUME NEW k \in 1 .. Len(h2) PROVE h2[k].place <= b1.size
    BY DEF PlacesUpTo
  <2>1. CASE k = n
    BY <1>0, <1>2, <1>3, <1>4, <1>14, <2>1
  <2>2. CASE k \in 1 .. Len(h)
    <3>1. h[k].place <= b.size /\ h[k].place \in Nat
      BY <1>1, <1>5, <2>2 DEF PlacesUpTo
    <3> QED
      BY <1>2, <1>4, <1>14, <2>2, <3>1
  <2> QED
    BY <1>0, <1>2, <1>4, <2>1, <2>2
<1>17. h2[1].half = 0
  <2>1. CASE Len(h) = 0
    BY <1>0, <1>3, <1>4, <2>1
  <2>2. CASE Len(h) > 0
    <3>1. 1 \in 1 .. Len(h)
      BY <1>2, <2>2
    <3> QED
      BY <1>1, <1>4, <2>2, <3>1
  <2> QED
    BY <1>2, <2>1, <2>2
<1>18. \A k \in 1 .. n : h2[k].layer <= layer
  <2> SUFFICES ASSUME NEW k \in 1 .. n PROVE h2[k].layer <= layer
    OBVIOUS
  <2>1. k = n \/ k \in 1 .. Len(h)
    BY <1>0, <1>2
  <2> QED
    BY <1>3, <1>4, <1>7, <2>1
<1> QED
  BY <1>4, <1>8, <1>13, <1>15, <1>16, <1>17, <1>18 DEF b1, HalfComputed

\* Only the variable of the process changes.
LEMMA MicroInited ==
  ASSUME NEW b, NEW h, NEW p \in Nat, NEW q \in Nat, NEW t0 \in Nat, NEW t1 \in Nat,
         MicroPoint(b, h, p, q, t0, t1), NEW value \in BOOLEAN
  PROVE  /\ MicroPoint(Micro!SetInited(b, value), h, p, q, t0, t1)
         /\ Micro!SetInited(b, value).own.inited = value
         /\ \A a \in Actions, k \in MicroKeys : Calls(Micro!SetInited(b, value), a, k) = Calls(b, a, k)
<1> DEFINE b2 == Micro!SetInited(b, value)
<1>1. b \in MicroBuilds
  BY DEF MicroPoint
<1>2. b2 = [nodes |-> b.nodes, size |-> b.size, pushed |-> b.pushed, popped |-> b.popped,
            own |-> [inited |-> value]]
  <2>1. b2 = [b EXCEPT !.own = [b.own EXCEPT !.inited = value]]
    BY <1>1 DEF Micro!SetInited, MicroBuilds
  <2>2. [b.own EXCEPT !.inited = value] = [inited |-> value]
    BY <1>1 DEF MicroBuilds
  <2> QED
    BY <1>1, <2>1, <2>2 DEF MicroBuilds
<1>3. b2.nodes = b.nodes /\ b2.size = b.size /\ b2.pushed = b.pushed /\ b2.popped = b.popped /\ b2.own.inited = value
  BY <1>2
<1>4. b2 \in MicroBuilds
  <2>1. /\ b.nodes \in [Streams -> Seq(NodesFor(MicroKeys))] /\ b.size \in Nat
        /\ b.pushed \in [MicroKeys -> Nat] /\ b.popped \in [MicroKeys -> Nat]
    BY <1>1 DEF MicroBuilds
  <2> QED
    BY <1>2, <2>1 DEF MicroBuilds
<1> HIDE DEF b2
<1>5. \A a \in Actions, k \in MicroKeys : Calls(b2, a, k) = Calls(b, a, k)
  BY <1>3 DEF Calls
<1>6. /\ MicroStreamAt(b2, 0, h, MicroHas(0, h, p), t0)
      /\ MicroStreamAt(b2, 1, h, MicroHas(1, h, q), t1)
  BY <1>3 DEF MicroPoint, MicroStreamAt
<1>7. MicroPoint(b2, h, p, q, t0, t1)
  BY <1>3, <1>4, <1>5, <1>6, MicroWords DEF MicroPoint
<1> QED
  BY <1>3, <1>5, <1>7 DEF b2

\* A half of the same layer, or the first half of the layer that a stream goes on with, is computed
\* before the half on stream 1 is taken back.
LEMMA OpenGoesOn ==
  ASSUME NEW b, NEW half \in {0, 1}, NEW other \in {0, 1}, other # half, Open(b, other)
  PROVE  Handed(Micro!insert_pop_events(Micro!Work(b, half, 0)), half)
<1>1. PICK h : HasOpen(b, h, other)
  BY DEF Open
<1> DEFINE b1 == Micro!Work(b, half, 0)
           b2 == Micro!HandOver(b1)
           layer == Calls(b, "PUSH", "cc_start")
           y == [layer |-> layer, half |-> half, place |-> b.size + 1]
           h2 == Append(h, y)
<1>2. /\ b \in MicroBuilds /\ GoodHalves(h) /\ h \in Seq(Halves) /\ Len(h) \in Nat /\ Len(h) > 0
      /\ h[Len(h)].half = other /\ h[Len(h)].layer = layer /\ b.own.inited = TRUE
  BY <1>1 DEF HasOpen, MicroPoint, LastIs, GoodHalves
<1>3. PICK m \in Nat : m = Len(h)
  BY <1>2
<1>4. PICK n \in Nat : n = m + 1
  BY <1>3
<1>5. PICK p \in Nat : p = m - 1
  BY <1>2, <1>3
<1>6. MicroPoint(b, h, p, m, 8 * m + 1, 8 * m + 4)
  BY <1>1, <1>3, <1>5 DEF HasOpen
<1>7. layer \in Nat /\ b.size \in Nat /\ y \in Halves
  <2>1. layer \in Nat /\ b.size \in Nat
    BY <1>2, MicroWords, MicroCounts
  <2> QED
    BY <2>1 DEF Halves
<1>8. Len(h2) = n /\ h2[n] = y /\ h2[m] = h[m] /\ y.layer = layer
  BY <1>2, <1>3, <1>4, <1>7, AppendElements
<1>9. ~First(h2, n) /\ ComputeLabel(h2, n) = 8 * m + 3
  <2>1. n - 1 = m /\ n # 1
    BY <1>2, <1>3, <1>4
  <2>2. ~First(h2, n)
    BY <1>2, <1>3, <1>7, <1>8, <2>1 DEF First
  <2> QED
    BY <2>1, <2>2 DEF ComputeLabel
<1> HIDE DEF b1, h2, y, layer
<1>10. /\ MicroWorked(b, b1, 0)
       /\ GoodHalves(h2) /\ PlacesUpTo(h2, b1.size) /\ h2[1].half = 0
       /\ \A k \in 1 .. n : h2[k].layer <= layer
       /\ MicroStreamAt(b1, 0, h2, MicroHas(0, h, p), 8 * m + 3)
       /\ MicroStreamAt(b1, 1, h2, MicroHas(1, h, m), 8 * m + 4)
  <2>1. p <= Len(h) /\ m <= Len(h) /\ n = Len(h) + 1 /\ 8 * m + 1 <= ComputeLabel(h2, n)
        /\ 8 * m + 1 \in Nat /\ 8 * m + 4 \in Nat
    BY <1>3, <1>4, <1>5, <1>9
  <2>2. h[Len(h)].half # half /\ ~(Len(h) = 0) /\ Calls(b, "PUSH", "cc_start") <= layer
    BY <1>2, <1>7 DEF layer
  <2>3. NewHalf(b, h, half, layer, y, h2, n)
    BY <2>1, <2>2 DEF NewHalf, Grown, y, h2
  <2>4. MicroPoint(b, h, p, m, 8 * m + 1, 8 * m + 4)
    BY <1>6
  <2>5. HalfComputed(b, Micro!Work(b, half, 0), h, p, m, layer, y, h2, n, 8 * m + 4)
    BY <1>7, <2>1, <2>3, <2>4, ComputeHalf
  <2> QED
    BY <1>9, <2>5 DEF b1, HalfComputed
<1>11. MicroHas(0, h2, p) = MicroHas(0, h, p) /\ MicroHas(1, h2, m) = MicroHas(1, h, m)
  <2>1. Grown(h, y, h2, n) /\ p < n /\ m < n
    BY <1>3, <1>4, <1>5 DEF h2, Grown
  <2>2. MicroHas(0, h2, p) = MicroHas(0, h, p)
    BY <1>2, <1>7, <1>9, <2>1, MicroWords, HasMore
  <2>3. MicroHas(1, h2, m) = MicroHas(1, h, m)
    BY <1>2, <1>7, <1>9, <2>1, MicroWords, HasMore
  <2> QED
    BY <2>2, <2>3
<1>12. b1 \in MicroBuilds /\ b1.own = b.own /\ \A a \in Actions, k \in MicroKeys : Calls(b1, a, k) = Calls(b, a, k)
  BY <1>10 DEF MicroWorked
<1>13. MicroPoint(b1, h2, p, m, 8 * m + 3, 8 * m + 4)
  <2>1. /\ Calls(b, "POP", "cc_start") = Calls(b, "PUSH", "cc_start")
        /\ Calls(b, "PUSH", "comm_control") = m /\ Calls(b, "PUSH", "compute_control") = m
        /\ Calls(b, "POP", "comm_control") = p /\ Calls(b, "POP", "compute_control") = p
    BY <1>6 DEF MicroPoint
  <2>2. \A k \in 1 .. Len(h2) : h2[k].layer <= Calls(b1, "PUSH", "cc_start")
    BY <1>8, <1>10, <1>12, MicroWords DEF layer
  <2>3. Calls(b1, "POP", "cc_start") = Calls(b1, "PUSH", "cc_start")
        /\ Calls(b1, "PUSH", "comm_control") = m /\ Calls(b1, "PUSH", "compute_control") = m
        /\ Calls(b1, "POP", "comm_control") = p /\ Calls(b1, "POP", "compute_control") = p
    BY <1>12, <2>1, MicroWords
  <2> QED
    BY <1>10, <1>11, <1>12, <2>2, <2>3 DEF MicroPoint
<1>14. /\ MicroPoint(b2, h2, m, m, 8 * m + 5, 8 * m + 4) /\ Calls(b2, "PUSH", "cc_start") = layer
  <2>1. m \in 1 .. Len(h2) /\ m = p + 1 /\ 8 * m + 3 \in Nat /\ 8 * m + 4 \in Nat /\ 8 * m + 3 < 8 * m + 4
    BY <1>2, <1>3, <1>4, <1>5, <1>8
  <2>2. /\ MicroPoint(b2, h2, m, m, 8 * m + 5, 8 * m + 4)
        /\ Calls(b2, "PUSH", "cc_start") = Calls(b1, "PUSH", "cc_start")
    BY <1>13, <2>1, HandOverStep
  <2> QED
    BY <1>12, <2>2, MicroWords DEF layer
<1> HIDE DEF b2
<1>15. MicroPoint(b2, h2, m, m, 8 * n + 1, 8 * n + 2)
  <2>1. /\ 8 * m + 5 \in Nat /\ 8 * m + 4 \in Nat /\ 8 * n + 1 \in Nat /\ 8 * n + 2 \in Nat
        /\ 8 * m + 5 <= 8 * n + 1 /\ 8 * m + 4 <= 8 * n + 2
    BY <1>4
  <2> QED
    BY <1>14, <2>1, PointWeaker
<1>16. HasHanded(b2, h2, half)
  <2>1. Len(h2) = n /\ n - 1 = m /\ n > 0
    BY <1>4, <1>8
  <2>2. h2[n].half = half /\ h2[n].layer = layer
    BY <1>8 DEF y
  <2> QED
    BY <1>14, <1>15, <2>1, <2>2 DEF HasHanded, LastIs
<1>17. Micro!insert_pop_events(b1) = b2
  BY <1>2, <1>12 DEF Micro!insert_pop_events, b2
<1> QED
  BY <1>16, <1>17 DEF Handed, b1

\* The first half of a layer starts both streams.
LEMMA BoundaryStarts ==
  ASSUME NEW b, Boundary(b)
  PROVE  Handed(Micro!insert_pop_events(Micro!Work(b, 0, 0)), 0)
<1>1. PICK h : HasBoundary(b, h)
  BY DEF Boundary
<1> DEFINE b1 == Micro!Work(b, 0, 0)
           b2 == Micro!EventNode(b1, "RECORD", "PUSH", "cc_start", 0)
           b3 == Micro!EventNode(b2, "WAIT", "POP", "cc_start", 1)
           before == Calls(b, "PUSH", "cc_start")
           layer == before + 1
           y == [layer |-> layer, half |-> 0, place |-> b.size + 1]
           h2 == Append(h, y)
<1>2. /\ b \in MicroBuilds /\ GoodHalves(h) /\ h \in Seq(Halves) /\ Len(h) \in Nat
      /\ (Len(h) > 0 => h[Len(h)].half = 1) /\ b.own.inited = FALSE
      /\ \A k \in 1 .. Len(h) : h[k].layer <= before
  BY <1>1 DEF HasBoundary, MicroPoint, GoodHalves
<1>3. PICK m \in Nat : m = Len(h)
  BY <1>2
<1>4. PICK n \in Nat : n = m + 1
  BY <1>3
<1>5. MicroPoint(b, h, m, m, 8 * m + 5, 8 * m + 4)
  BY <1>1, <1>3 DEF HasBoundary
<1>6. before \in Nat /\ layer \in Nat /\ b.size \in Nat /\ y \in Halves
  <2>1. before \in Nat /\ b.size \in Nat
    BY <1>2, MicroWords, MicroCounts
  <2> QED
    BY <2>1 DEF Halves
<1>7. Len(h2) = n /\ h2[n] = y /\ (\A k \in 1 .. m : h2[k] = h[k]) /\ y.layer = layer /\ y.half = 0
  BY <1>2, <1>3, <1>4, <1>6, AppendElements
<1>8. First(h2, n) /\ ComputeLabel(h2, n) = 8 * n
  <2>1. CASE m = 0
    BY <1>4, <2>1 DEF First, ComputeLabel
  <2>2. CASE m > 0
    <3>1. n - 1 = m /\ m \in 1 .. m
      BY <1>4, <2>2
    <3>2. h2[m] = h[m] /\ h[m].layer <= before /\ h[m].layer \in Nat
      BY <1>2, <1>3, <1>7, <3>1, HalvesTyped
    <3>3. h2[n - 1].layer < h2[n].layer
      BY <1>6, <1>7, <3>1, <3>2
    <3> QED
      BY <3>3 DEF First, ComputeLabel
  <2> QED
    BY <2>1, <2>2
<1>9. layer = before + 1
  OBVIOUS
<1> HIDE DEF b1, h2, y, layer, before
<1>10. /\ MicroWorked(b, b1, 0)
       /\ GoodHalves(h2) /\ PlacesUpTo(h2, b1.size) /\ h2[1].half = 0
       /\ \A k \in 1 .. n : h2[k].layer <= layer
       /\ MicroStreamAt(b1, 0, h2, MicroHas(0, h, m), 8 * n)
       /\ MicroStreamAt(b1, 1, h2, MicroHas(1, h, m), 8 * m + 4)
  <2>1. m <= Len(h) /\ n = Len(h) + 1 /\ 8 * m + 5 <= ComputeLabel(h2, n)
        /\ 8 * m + 5 \in Nat /\ 8 * m + 4 \in Nat
    BY <1>3, <1>4, <1>8
  <2>2. (Len(h) > 0 => h[Len(h)].half # 0) /\ Calls(b, "PUSH", "cc_start") <= layer
    BY <1>2, <1>6, <1>9 DEF before
  <2>3. NewHalf(b, h, 0, layer, y, h2, n) /\ 0 \in {0, 1}
    BY <2>1, <2>2 DEF NewHalf, Grown, y, h2
  <2>5. HalfComputed(b, Micro!Work(b, 0, 0), h, m, m, layer, y, h2, n, 8 * m + 4)
    BY <1>5, <1>6, <2>1, <2>3, ComputeHalf
  <2> QED
    BY <1>8, <2>5 DEF b1, HalfComputed
<1>11. /\ b1 \in MicroBuilds /\ b1.own = b.own /\ \A a \in Actions, k \in MicroKeys : Calls(b1, a, k) = Calls(b, a, k)
  BY <1>10 DEF MicroWorked
<1>12. /\ Calls(b1, "PUSH", "cc_start") = before /\ Calls(b1, "POP", "cc_start") = before
       /\ Calls(b1, "PUSH", "comm_control") = m /\ Calls(b1, "PUSH", "compute_control") = m
       /\ Calls(b1, "POP", "comm_control") = m /\ Calls(b1, "POP", "compute_control") = m
  <2>1. /\ Calls(b, "POP", "cc_start") = Calls(b, "PUSH", "cc_start")
        /\ Calls(b, "PUSH", "comm_control") = m /\ Calls(b, "PUSH", "compute_control") = m
        /\ Calls(b, "POP", "comm_control") = m /\ Calls(b, "POP", "compute_control") = m
    BY <1>5 DEF MicroPoint
  <2> QED
    BY <1>11, <2>1, MicroWords DEF before
<1>13. /\ n \in 1 .. Len(h2) /\ Len(h2) \in Nat /\ h2 \in Seq(Halves) /\ h2[n].layer = layer
       /\ Slot(0, "cc_start") = 1 /\ Slot(1, "cc_start") = 1
       /\ MicroHas(0, h, m) \in SUBSET Nat /\ MicroHas(1, h, m) \in SUBSET Nat
  <2>1. MicroHas(0, h, m) \in SUBSET Nat /\ MicroHas(1, h, m) \in SUBSET Nat
    BY <1>2, MicroWords, HasFacts
  <2> QED
    BY <1>4, <1>7, <1>10, <2>1 DEF GoodHalves, Slot
<1>14. MicroMade(b1, b2, 0, "PUSH", "cc_start") /\ MicroStreamAt(b2, 0, h2, MicroHas(0, h, m) \cup {8 * n + 1}, 8 * n + 1)
  <2>1. MicroEvent(0, h2, n, "cc_start") = [kind |-> "RECORD", event |-> <<"cc_start", Calls(b1, "PUSH", "cc_start") + 1>>]
    BY <1>9, <1>12, <1>13 DEF MicroEvent, Recorder
  <2>2. 8 * n < 8 * n + Slot(0, "cc_start") /\ 8 * n \in Nat
    BY <1>13
  <2>3. /\ MicroMade(b1, b2, 0, "PUSH", "cc_start")
        /\ MicroStreamAt(b2, 0, h2, MicroHas(0, h, m) \cup {8 * n + Slot(0, "cc_start")}, 8 * n + Slot(0, "cc_start"))
    BY <1>10, <1>11, <1>13, <2>1, <2>2, MicroWords, MicroEventStep
  <2> QED
    BY <1>13, <2>3
<1> HIDE DEF b2
<1>15. /\ b2 \in MicroBuilds /\ b2.nodes[1] = b1.nodes[1] /\ b1.size <= b2.size /\ b2.own = b1.own
       /\ Calls(b2, "PUSH", "cc_start") = layer /\ Calls(b2, "POP", "cc_start") = before
       /\ Calls(b2, "PUSH", "comm_control") = m /\ Calls(b2, "PUSH", "compute_control") = m
       /\ Calls(b2, "POP", "comm_control") = m /\ Calls(b2, "POP", "compute_control") = m
  BY <1>9, <1>12, <1>14, MicroWords DEF MicroMade
<1>16. MicroStreamAt(b2, 1, h2, MicroHas(1, h, m), 8 * m + 4)
  <2>1. HalfMore(h2, h2, b1.size) /\ 8 * m + 4 \in Nat /\ 8 * m + 4 <= 8 * m + 4
    BY DEF HalfMore
  <2> QED
    BY <1>10, <1>11, <1>13, <1>15, <2>1, MicroWords, MicroStreamStays
<1>17. MicroMade(b2, b3, 1, "POP", "cc_start") /\ MicroStreamAt(b3, 1, h2, MicroHas(1, h, m) \cup {8 * n + 1}, 8 * n + 1)
  <2>1. MicroEvent(1, h2, n, "cc_start") = [kind |-> "WAIT", event |-> <<"cc_start", Calls(b2, "POP", "cc_start") + 1>>]
    BY <1>9, <1>13, <1>15 DEF MicroEvent, Recorder
  <2>2. 8 * m + 4 < 8 * n + Slot(1, "cc_start") /\ 8 * m + 4 \in Nat
    BY <1>4, <1>13
  <2>3. /\ MicroMade(b2, b3, 1, "POP", "cc_start")
        /\ MicroStreamAt(b3, 1, h2, MicroHas(1, h, m) \cup {8 * n + Slot(1, "cc_start")}, 8 * n + Slot(1, "cc_start"))
    BY <1>13, <1>15, <1>16, <2>1, <2>2, MicroWords, MicroEventStep
  <2> QED
    BY <1>13, <2>3
<1> HIDE DEF b3
<1>18. /\ b3 \in MicroBuilds /\ b3.nodes[0] = b2.nodes[0] /\ b2.size <= b3.size /\ b3.own = b1.own
       /\ Calls(b3, "PUSH", "cc_start") = layer /\ Calls(b3, "POP", "cc_start") = layer
       /\ Calls(b3, "PUSH", "comm_control") = m /\ Calls(b3, "PUSH", "compute_control") = m
       /\ Calls(b3, "POP", "comm_control") = m /\ Calls(b3, "POP", "compute_control") = m
  BY <1>9, <1>15, <1>17, MicroWords DEF MicroMade
<1>19. MicroStreamAt(b3, 0, h2, MicroHas(0, h, m) \cup {8 * n + 1}, 8 * n + 1)
  <2>1. HalfMore(h2, h2, b2.size) /\ 8 * n + 1 \in Nat /\ 8 * n + 1 <= 8 * n + 1
    BY DEF HalfMore
  <2>2. MicroHas(0, h, m) \cup {8 * n + 1} \in SUBSET Nat
    BY <1>13, <2>1
  <2> QED
    BY <1>13, <1>14, <1>15, <1>18, <2>1, <2>2, MicroWords, MicroStreamStays
<1>20. MicroHas(0, h2, m) = MicroHas(0, h, m) \cup {8 * n + 1} /\ MicroHas(1, h2, m) = MicroHas(1, h, m) \cup {8 * n + 1}
  <2>1. Grown(h, y, h2, n) /\ m < n
    BY <1>3, <1>4 DEF h2, Grown
  <2>2. MicroHas(0, h2, m) = MicroHas(0, h, m) \cup {8 * n + 1}
    BY <1>2, <1>6, <1>8, <2>1, MicroWords, HasMore
  <2>3. MicroHas(1, h2, m) = MicroHas(1, h, m) \cup {8 * n + 1}
    BY <1>2, <1>6, <1>8, <2>1, MicroWords, HasMore
  <2> QED
    BY <2>2, <2>3
<1>21. PlacesUpTo(h2, b3.size)
  <2>1. b1.size \in Nat /\ b2.size \in Nat /\ b3.size \in Nat /\ b1.size <= b2.size /\ b2.size <= b3.size
    BY <1>11, <1>15, <1>18 DEF MicroBuilds
  <2>2. \A k \in 1 .. Len(h2) : h2[k].place \in Nat
    BY <1>10, HalvesTyped
  <2> QED
    BY <1>10, <2>1, <2>2 DEF PlacesUpTo
<1>22. MicroPoint(b3, h2, m, m, 8 * n + 1, 8 * n + 1)
  <2>1. \A k \in 1 .. Len(h2) : h2[k].layer <= Calls(b3, "PUSH", "cc_start")
    BY <1>7, <1>10, <1>18
  <2> QED
    BY <1>10, <1>17, <1>18, <1>19, <1>20, <1>21, <2>1 DEF MicroPoint
<1>23. MicroPoint(b3, h2, m, m, 8 * n + 1, 8 * n + 2)
  <2>1. 8 * n + 1 \in Nat /\ 8 * n + 2 \in Nat /\ 8 * n + 1 <= 8 * n + 1 /\ 8 * n + 1 <= 8 * n + 2
    OBVIOUS
  <2> QED
    BY <1>22, <2>1, PointWeaker
<1>24. HasHanded(b3, h2, 0)
  <2>1. Len(h2) = n /\ n - 1 = m /\ n > 0
    BY <1>4, <1>7
  <2> QED
    BY <1>7, <1>18, <1>23, <2>1 DEF HasHanded, LastIs
<1>25. Micro!insert_pop_events(b1) = b3
  BY <1>2, <1>11 DEF Micro!insert_pop_events, Micro!insert_start_events, Micro!RecordEvent, Micro!WaitEvent, b2, b3
<1> QED
  BY <1>24, <1>25 DEF Handed, b1

\* Stream 1 goes on with the half that stream 0 has handed over.
LEMMA HandedWorks ==
  ASSUME NEW b, NEW half \in {0, 1}, Handed(b, half)
  PROVE  Handed(Micro!Work(b, half, 1), half)
<1>1. PICK h : HasHanded(b, h, half)
  BY DEF Handed
<1> DEFINE b2 == Micro!Work(b, half, 1)
<1>2. /\ b \in MicroBuilds /\ GoodHalves(h) /\ h \in Seq(Halves) /\ Len(h) \in Nat /\ Len(h) > 0 /\ h[Len(h)].half = half
      /\ PlacesUpTo(h, b.size) /\ b.size \in Nat
  BY <1>1 DEF HasHanded, MicroPoint, LastIs, GoodHalves, MicroBuilds
<1>3. PICK m \in Nat : m = Len(h)
  BY <1>2
<1>4. PICK p \in Nat : p = m - 1
  BY <1>2, <1>3
<1>5. MicroPoint(b, h, p, p, 8 * m + 1, 8 * m + 2)
  BY <1>1, <1>3, <1>4 DEF HasHanded
<1>6. MicroStreamAt(b, 0, h, MicroHas(0, h, p), 8 * m + 1) /\ MicroStreamAt(b, 1, h, MicroHas(1, h, p), 8 * m + 2)
  BY <1>5 DEF MicroPoint
<1>7. /\ MicroHas(0, h, p) \in SUBSET Nat /\ MicroHas(1, h, p) \in SUBSET Nat /\ 8 * m + 2 \notin MicroHas(1, h, p)
  BY <1>2, MicroWords, HasFacts
<1>8. MicroWorked(b, b2, 1) /\ MicroStreamAt(b2, 1, h, MicroHas(1, h, p), 8 * m + 2)
  <2>1. m \in 1 .. Len(h) /\ h[m].place <= b.size /\ h[m].place \in Nat
    BY <1>2, <1>3, HalvesTyped DEF PlacesUpTo
  <2>2. h[m].place < b.size + 1
    BY <1>2, <2>1
  <2>3. FitsNext(1, h, 8 * m + 2, half, b.size, m)
    BY <1>2, <1>3, <2>2 DEF FitsNext
  <2>4. 8 * m + 2 \in Nat /\ 8 * m + 2 <= 8 * m + 2
    OBVIOUS
  <2> QED
    BY <1>2, <1>6, <1>7, <2>1, <2>3, <2>4, MicroWords, MicroTaskStep
<1> HIDE DEF b2
<1>9. /\ b2 \in MicroBuilds /\ b2.nodes[0] = b.nodes[0] /\ b2.size = b.size + 1 /\ b.size <= b2.size
      /\ \A a \in Actions, k \in MicroKeys : Calls(b2, a, k) = Calls(b, a, k)
  BY <1>2, <1>8, MicroWords DEF MicroWorked
<1>10. MicroStreamAt(b2, 0, h, MicroHas(0, h, p), 8 * m + 1)
  <2>1. HalfMore(h, h, b.size) /\ 8 * m + 1 \in Nat /\ 8 * m + 1 <= 8 * m + 1
    BY DEF HalfMore
  <2> QED
    BY <1>2, <1>6, <1>7, <1>9, <2>1, MicroWords, MicroStreamStays
<1>11. PlacesUpTo(h, b2.size)
  <2>1. \A k \in 1 .. Len(h) : h[k].place \in Nat
    BY <1>2, HalvesTyped
  <2> QED
    BY <1>2, <1>9, <2>1 DEF PlacesUpTo
<1>12. /\ Calls(b2, "PUSH", "cc_start") = Calls(b, "PUSH", "cc_start") /\ Calls(b2, "POP", "cc_start") = Calls(b, "POP", "cc_start")
       /\ Calls(b2, "PUSH", "comm_control") = Calls(b, "PUSH", "comm_control")
       /\ Calls(b2, "PUSH", "compute_control") = Calls(b, "PUSH", "compute_control")
       /\ Calls(b2, "POP", "comm_control") = Calls(b, "POP", "comm_control")
       /\ Calls(b2, "POP", "compute_control") = Calls(b, "POP", "compute_control")
  BY <1>9, MicroWords
<1>13. MicroPoint(b2, h, p, p, 8 * m + 1, 8 * m + 2)
  BY <1>5, <1>8, <1>9, <1>10, <1>11, <1>12 DEF MicroPoint
<1>14. HasHanded(b2, h, half)
  BY <1>1, <1>3, <1>4, <1>12, <1>13 DEF HasHanded, LastIs
<1> QED
  BY <1>14 DEF Handed, b2

\* Stream 1 ends a half, and waits for the computation of it.
LEMMA HandedEnds ==
  ASSUME NEW b, NEW half \in {0, 1}, Handed(b, half)
  PROVE  Open(Micro!insert_push_events(b), half)
<1>1. PICK h : HasHanded(b, h, half)
  BY DEF Handed
<1> DEFINE b1 == Micro!EventNode(b, "RECORD", "PUSH", "comm_control", 1)
           b2 == Micro!EventNode(b1, "WAIT", "PUSH", "compute_control", 1)
           b3 == Micro!SetInited(b2, TRUE)
<1>2. Micro!insert_push_events(b) = b3
  BY DEF Micro!insert_push_events, Micro!RecordEvent, Micro!WaitEvent
<1>3. /\ b \in MicroBuilds /\ GoodHalves(h) /\ h \in Seq(Halves) /\ Len(h) \in Nat /\ Len(h) > 0
      /\ PlacesUpTo(h, b.size) /\ b.size \in Nat /\ LastIs(b, h, half)
  BY <1>1 DEF HasHanded, MicroPoint, LastIs, GoodHalves, MicroBuilds
<1>4. PICK m \in Nat : m = Len(h)
  BY <1>3
<1>5. PICK p \in Nat : p = m - 1
  BY <1>3, <1>4
<1>6. MicroPoint(b, h, p, p, 8 * m + 1, 8 * m + 2)
  BY <1>1, <1>4, <1>5 DEF HasHanded
<1>7. /\ MicroStreamAt(b, 0, h, MicroHas(0, h, p), 8 * m + 1) /\ MicroStreamAt(b, 1, h, MicroHas(1, h, p), 8 * m + 2)
      /\ Calls(b, "PUSH", "comm_control") = p /\ Calls(b, "PUSH", "compute_control") = p
  BY <1>6 DEF MicroPoint
<1>8. /\ m \in 1 .. Len(h) /\ m = p + 1 /\ Slot(1, "comm_control") = 3 /\ Slot(1, "compute_control") = 4
  BY <1>3, <1>4, <1>5 DEF Slot
<1>9. /\ MicroHas(0, h, p) \in SUBSET Nat /\ MicroHas(1, h, p) \in SUBSET Nat
      /\ MicroHas(1, h, p) \cup {8 * m + 3} \in SUBSET Nat
  <2>1. MicroHas(0, h, p) \in SUBSET Nat /\ MicroHas(1, h, p) \in SUBSET Nat
    BY <1>3, MicroWords, HasFacts
  <2>2. 8 * m + 3 \in Nat
    OBVIOUS
  <2> QED
    BY <2>1, <2>2
<1> HIDE DEF b1, b2, b3
<1>10. MicroMade(b, b1, 1, "PUSH", "comm_control") /\ MicroStreamAt(b1, 1, h, MicroHas(1, h, p) \cup {8 * m + 3}, 8 * m + 3)
  <2>1. MicroEvent(1, h, m, "comm_control") = [kind |-> "RECORD", event |-> <<"comm_control", Calls(b, "PUSH", "comm_control") + 1>>]
    BY <1>7, <1>8 DEF MicroEvent, Recorder
  <2>2. 8 * m + 2 < 8 * m + Slot(1, "comm_control") /\ 8 * m + 2 \in Nat
    BY <1>8
  <2>3. /\ MicroMade(b, b1, 1, "PUSH", "comm_control")
        /\ MicroStreamAt(b1, 1, h, MicroHas(1, h, p) \cup {8 * m + Slot(1, "comm_control")}, 8 * m + Slot(1, "comm_control"))
    BY <1>3, <1>7, <1>8, <1>9, <2>1, <2>2, MicroWords, MicroEventStep DEF b1
  <2> QED
    BY <1>8, <2>3
<1>11. b1 \in MicroBuilds /\ Calls(b1, "PUSH", "compute_control") = p /\ b1.nodes[0] = b.nodes[0] /\ b.size <= b1.size
  BY <1>7, <1>10, MicroWords DEF MicroMade
<1>12. /\ MicroMade(b1, b2, 1, "PUSH", "compute_control")
       /\ MicroStreamAt(b2, 1, h, MicroHas(1, h, p) \cup {8 * m + 3} \cup {8 * m + 4}, 8 * m + 4)
  <2>1. MicroEvent(1, h, m, "compute_control") = [kind |-> "WAIT", event |-> <<"compute_control", Calls(b1, "PUSH", "compute_control") + 1>>]
    BY <1>8, <1>11 DEF MicroEvent, Recorder
  <2>2. 8 * m + 3 < 8 * m + Slot(1, "compute_control") /\ 8 * m + 3 \in Nat
    BY <1>8
  <2>3. /\ MicroMade(b1, b2, 1, "PUSH", "compute_control")
        /\ MicroStreamAt(b2, 1, h, (MicroHas(1, h, p) \cup {8 * m + 3}) \cup {8 * m + Slot(1, "compute_control")},
                         8 * m + Slot(1, "compute_control"))
    BY <1>3, <1>8, <1>9, <1>10, <1>11, <2>1, <2>2, MicroWords, MicroEventStep DEF b2
  <2> QED
    BY <1>8, <2>3
<1>13. /\ b2 \in MicroBuilds /\ b2.nodes[0] = b.nodes[0] /\ b.size <= b2.size
  <2>1. b.size \in Nat /\ b1.size \in Nat /\ b2.size \in Nat /\ b2 \in MicroBuilds
    BY <1>3, <1>11, <1>12 DEF MicroMade, MicroBuilds
  <2> QED
    BY <1>11, <1>12, <2>1, MicroWords DEF MicroMade
<1>14. \A a \in Actions, k \in MicroKeys :
          Calls(b2, a, k) = IF a = "PUSH" /\ k # "cc_start" THEN Calls(b, a, k) + 1 ELSE Calls(b, a, k)
  <2> SUFFICES ASSUME NEW a \in Actions, NEW key \in MicroKeys
               PROVE  Calls(b2, a, key) = IF a = "PUSH" /\ key # "cc_start" THEN Calls(b, a, key) + 1 ELSE Calls(b, a, key)
    OBVIOUS
  <2>1. Calls(b1, a, key) = IF a = "PUSH" /\ key = "comm_control" THEN Calls(b, a, key) + 1 ELSE Calls(b, a, key)
    BY <1>10 DEF MicroMade
  <2>2. Calls(b2, a, key) = IF a = "PUSH" /\ key = "compute_control" THEN Calls(b1, a, key) + 1 ELSE Calls(b1, a, key)
    BY <1>12 DEF MicroMade
  <2> QED
    BY <2>1, <2>2 DEF MicroKeys
<1>15. MicroStreamAt(b2, 0, h, MicroHas(0, h, p), 8 * m + 1)
  <2>1. HalfMore(h, h, b.size) /\ 8 * m + 1 \in Nat /\ 8 * m + 1 <= 8 * m + 1
    BY DEF HalfMore
  <2> QED
    BY <1>3, <1>7, <1>9, <1>13, <2>1, MicroWords, MicroStreamStays
<1>16. PlacesUpTo(h, b2.size)
  <2>1. \A k \in 1 .. Len(h) : h[k].place \in Nat
    BY <1>3, HalvesTyped
  <2>2. b2.size \in Nat
    BY <1>13 DEF MicroBuilds
  <2> QED
    BY <1>3, <1>13, <2>1, <2>2 DEF PlacesUpTo
<1>17. MicroStreamAt(b2, 1, h, MicroHas(1, h, m), 8 * m + 4)
  <2>1. MicroHas(1, h, m) = MicroHas(1, h, p) \cup {8 * m + Slot(1, "comm_control")} \cup {8 * m + Slot(1, "compute_control")}
    BY <1>3, <1>8, MicroWords, HasNext
  <2>2. MicroHas(1, h, m) = MicroHas(1, h, p) \cup {8 * m + 3} \cup {8 * m + 4}
    BY <1>8, <2>1
  <2> QED
    BY <1>12, <2>2
<1>18. /\ Calls(b2, "PUSH", "cc_start") = Calls(b, "PUSH", "cc_start") /\ Calls(b2, "POP", "cc_start") = Calls(b, "POP", "cc_start")
       /\ Calls(b2, "PUSH", "comm_control") = m /\ Calls(b2, "PUSH", "compute_control") = m
       /\ Calls(b2, "POP", "comm_control") = Calls(b, "POP", "comm_control")
       /\ Calls(b2, "POP", "compute_control") = Calls(b, "POP", "compute_control")
  BY <1>7, <1>8, <1>14, MicroWords
<1>19. MicroPoint(b2, h, p, m, 8 * m + 1, 8 * m + 4)
  BY <1>6, <1>13, <1>15, <1>16, <1>17, <1>18 DEF MicroPoint
<1>20. /\ MicroPoint(b3, h, p, m, 8 * m + 1, 8 * m + 4) /\ b3.own.inited = TRUE
       /\ Calls(b3, "PUSH", "cc_start") = Calls(b2, "PUSH", "cc_start")
  <2>1. 8 * m + 1 \in Nat /\ 8 * m + 4 \in Nat /\ TRUE \in BOOLEAN
    OBVIOUS
  <2> QED
    BY <1>19, <2>1, MicroWords, MicroInited DEF b3
<1>21. LastIs(b3, h, half)
  BY <1>3, <1>18, <1>20 DEF LastIs
<1>22. HasOpen(b3, h, half)
  BY <1>4, <1>5, <1>20, <1>21 DEF HasOpen
<1> QED
  BY <1>2, <1>22 DEF Open

\* The end of a layer takes its second half back.
LEMMA OpenCloses ==
  ASSUME NEW b, Open(b, 1)
  PROVE  Boundary(Micro!SetInited(Micro!insert_pop_events(b), FALSE))
<1>1. PICK h : HasOpen(b, h, 1)
  BY DEF Open
<1> DEFINE b1 == Micro!HandOver(b)
           b2 == Micro!SetInited(b1, FALSE)
<1>2. Len(h) \in Nat /\ Len(h) > 0 /\ h[Len(h)].half = 1 /\ b.own.inited = TRUE
  BY <1>1 DEF HasOpen, MicroPoint, LastIs, GoodHalves
<1>3. PICK m \in Nat : m = Len(h)
  BY <1>2
<1>4. PICK p \in Nat : p = m - 1
  BY <1>2, <1>3
<1>5. MicroPoint(b, h, p, m, 8 * m + 1, 8 * m + 4)
  BY <1>1, <1>3, <1>4 DEF HasOpen
<1>6. Micro!insert_pop_events(b) = b1
  BY <1>2 DEF Micro!insert_pop_events
<1>7. MicroPoint(b1, h, m, m, 8 * m + 5, 8 * m + 4)
  <2>1. m \in 1 .. Len(h) /\ m = p + 1 /\ 8 * m + 1 \in Nat /\ 8 * m + 4 \in Nat /\ 8 * m + 1 < 8 * m + 4
    BY <1>2, <1>3, <1>4
  <2> HIDE DEF b1
  <2> QED
    BY <1>5, <2>1, HandOverStep DEF b1
<1> HIDE DEF b1, b2
<1>8. MicroPoint(b2, h, m, m, 8 * m + 5, 8 * m + 4) /\ b2.own.inited = FALSE
  <2>1. 8 * m + 5 \in Nat /\ 8 * m + 4 \in Nat /\ FALSE \in BOOLEAN
    OBVIOUS
  <2> QED
    BY <1>7, <2>1, MicroInited DEF b2
<1>9. HasBoundary(b2, h)
  BY <1>2, <1>3, <1>8 DEF HasBoundary
<1> QED
  BY <1>6, <1>9 DEF Boundary, b2

\* The half that stream 0 may compute next.
MayCompute(b, half) ==
    \/ half = 0 /\ (Boundary(b) \/ Open(b, 1))
    \/ half = 1 /\ Open(b, 0)

LEMMA NextHalf ==
  ASSUME NEW b, NEW half \in {0, 1}, MayCompute(b, half)
  PROVE  Handed(Micro!insert_pop_events(Micro!Work(b, half, 0)), half)
<1>1. CASE half = 0 /\ Boundary(b)
  BY <1>1, BoundaryStarts
<1>2. CASE half = 0 /\ Open(b, 1)
  <2>1. 0 \in {0, 1} /\ 1 \in {0, 1} /\ 1 # 0
    OBVIOUS
  <2> QED
    BY <1>2, <2>1, OpenGoesOn
<1>3. CASE half = 1 /\ Open(b, 0)
  <2>1. 0 \in {0, 1} /\ 1 \in {0, 1} /\ 0 # 1
    OBVIOUS
  <2> QED
    BY <1>3, <2>1, OpenGoesOn
<1> QED
  BY <1>1, <1>2, <1>3 DEF MayCompute

\* The layers in which both halves of both parts go through stream 1.
BaseFull(l) == l.attnComm = TRUE /\ l.mlpComm = TRUE /\ ~(l.attnSkip = TRUE /\ l.mlpSkip = TRUE)
DeepseekFull(l) == l.dense = l.allReduce
FullLayer(l) ==
    \/ l \in Micro!BaseLayers /\ BaseFull(l)
    \/ l \in Micro!DeepseekLayers /\ DeepseekFull(l)

LEMMA AttentionHalves ==
  ASSUME NEW b, NEW half \in {0, 1}, MayCompute(b, half), NEW l, l \in Micro!BaseLayers, BaseFull(l)
  PROVE  Open(Micro!AttentionHalf(b, half, l), half) /\ Open(Micro!MlpHalf(b, half, l), half)
<1> DEFINE b1 == Micro!insert_pop_events(Micro!Work(b, half, 0))
           b2 == Micro!Work(b1, half, 1)
           b3 == Micro!Work(b2, half, 1)
           b4 == Micro!Work(b3, half, 1)
<1>1. Handed(b1, half)
  BY NextHalf
<1> HIDE DEF b1
<1>2. Handed(b2, half)
  BY <1>1, HandedWorks
<1> HIDE DEF b2
<1>3. Handed(b3, half)
  BY <1>2, HandedWorks
<1> HIDE DEF b3
<1>4. Handed(b4, half)
  BY <1>3, HandedWorks
<1> HIDE DEF b4
<1>5. Open(Micro!insert_push_events(b3), half) /\ Open(Micro!insert_push_events(b4), half)
  BY <1>3, <1>4, HandedEnds
<1>6. l.attnComm = TRUE /\ l.mlpComm = TRUE /\ l.gather \in BOOLEAN
  BY DEF BaseFull, Micro!BaseLayers
<1>7. Micro!AddFusionAttention(b, half, l) = b2 /\ Micro!AddMlp(b, half, l) = b2
  BY <1>6 DEF Micro!AddFusionAttention, Micro!AddMlp, Micro!LinearParallel, b1, b2
<1>8. /\ Micro!AttentionHalf(b, half, l) = Micro!insert_push_events(IF l.gather THEN b4 ELSE b3)
      /\ Micro!MlpHalf(b, half, l) = Micro!insert_push_events(IF l.gather THEN b4 ELSE b3)
  BY <1>7 DEF Micro!AttentionHalf, Micro!MlpHalf, Micro!AddFusionAttentionResidualAdd, Micro!AddMlpResidualAdd,
              Micro!AddFusedAllGather, Micro!AddRevertAllGather, b3, b4
<1>9. CASE l.gather
  BY <1>5, <1>8, <1>9
<1>10. CASE ~l.gather
  BY <1>5, <1>8, <1>10
<1> QED
  BY <1>9, <1>10

LEMMA BaseLayerKeeps ==
  ASSUME NEW b, Boundary(b), NEW l, l \in Micro!BaseLayers, BaseFull(l)
  PROVE  Boundary(Micro!BaseLayer(b, l))
<1>1. 0 \in {0, 1} /\ 1 \in {0, 1}
  OBVIOUS
<1>2. l.attnSkip \in BOOLEAN /\ l.mlpSkip \in BOOLEAN /\ ~(l.attnSkip = TRUE /\ l.mlpSkip = TRUE)
  BY DEF BaseFull, Micro!BaseLayers
<1> DEFINE attn == IF l.attnSkip THEN b ELSE Micro!AttentionHalf(Micro!AttentionHalf(b, 0, l), 1, l)
           mlp == IF l.mlpSkip THEN attn ELSE Micro!MlpHalf(Micro!MlpHalf(attn, 0, l), 1, l)
<1>3. IF l.attnSkip THEN attn = b ELSE Open(attn, 1)
  <2>1. CASE l.attnSkip
    BY <2>1
  <2>2. CASE ~l.attnSkip
    <3>1. MayCompute(b, 0)
      BY DEF MayCompute
    <3>2. Open(Micro!AttentionHalf(b, 0, l), 0)
      BY <1>1, <3>1, AttentionHalves
    <3>3. MayCompute(Micro!AttentionHalf(b, 0, l), 1)
      BY <3>2 DEF MayCompute
    <3>4. Open(Micro!AttentionHalf(Micro!AttentionHalf(b, 0, l), 1, l), 1)
      BY <1>1, <3>3, AttentionHalves
    <3> QED
      BY <2>2, <3>4
  <2> QED
    BY <1>2, <2>1, <2>2
<1>4. MayCompute(attn, 0)
  BY <1>2, <1>3 DEF MayCompute
<1> HIDE DEF attn
<1>5. Open(mlp, 1)
  <2>1. CASE l.mlpSkip
    BY <1>2, <1>3, <2>1
  <2>2. CASE ~l.mlpSkip
    <3>2. Open(Micro!MlpHalf(attn, 0, l), 0)
      BY <1>1, <1>4, AttentionHalves
    <3>3. MayCompute(Micro!MlpHalf(attn, 0, l), 1)
      BY <3>2 DEF MayCompute
    <3>4. Open(Micro!MlpHalf(Micro!MlpHalf(attn, 0, l), 1, l), 1)
      BY <1>1, <3>3, AttentionHalves
    <3> QED
      BY <2>2, <3>4
  <2> QED
    BY <1>2, <2>1, <2>2
<1>6. Micro!BaseLayer(b, l) = Micro!SetInited(Micro!insert_pop_events(mlp), FALSE)
  BY DEF Micro!BaseLayer, mlp, attn
<1> HIDE DEF mlp
<1> QED
  BY <1>5, <1>6, OpenCloses

LEMMA DeepseekHalves ==
  ASSUME NEW b, NEW half \in {0, 1}, MayCompute(b, half), NEW l, l \in Micro!DeepseekLayers, DeepseekFull(l)
  PROVE  /\ Open(Micro!insert_push_events(Micro!SetPostAttnProcess(Micro!SetAttention(b, half, l), half, l)), half)
         /\ Open(Micro!insert_push_events(Micro!SetPostMoeProcess(Micro!SetFFN(b, half), half, l)), half)
<1> DEFINE b1 == Micro!insert_pop_events(Micro!Work(b, half, 0))
           b2 == Micro!Work(b1, half, 1)
           b3 == Micro!Work(b2, half, 1)
<1>1. Handed(b1, half)
  BY NextHalf
<1>2. Handed(b2, half)
  <2> HIDE DEF b1
  <2> QED
    BY <1>1, HandedWorks
<1>3. Handed(b3, half)
  <2> HIDE DEF b2
  <2> QED
    BY <1>2, HandedWorks
<1>4. Open(Micro!insert_push_events(b2), half)
  <2> HIDE DEF b2
  <2> QED
    BY <1>2, HandedEnds
<1>5. Open(Micro!insert_push_events(b3), half)
  <2> HIDE DEF b3
  <2> QED
    BY <1>3, HandedEnds
<1>6. l.dense \in BOOLEAN /\ l.dense = l.allReduce
  BY DEF DeepseekFull, Micro!DeepseekLayers
<1>7. CASE l.dense
  <2>1. Micro!SetPostAttnProcess(Micro!SetAttention(b, half, l), half, l) = b3
    BY <1>6, <1>7 DEF Micro!SetPostAttnProcess, Micro!SetAttention, Micro!LinearParallel
  <2>2. Micro!SetPostMoeProcess(Micro!SetFFN(b, half), half, l) = b3
    BY <1>6, <1>7 DEF Micro!SetPostMoeProcess, Micro!SetFFN, Micro!SetAllReduce
  <2> HIDE DEF b3
  <2> QED
    BY <1>5, <2>1, <2>2
<1>8. CASE ~l.dense
  <2>1. Micro!SetPostAttnProcess(Micro!SetAttention(b, half, l), half, l) = b2
    BY <1>6, <1>8 DEF Micro!SetPostAttnProcess, Micro!SetAttention, Micro!LinearParallel
  <2>2. Micro!SetPostMoeProcess(Micro!SetFFN(b, half), half, l) = b2
    BY <1>6, <1>8 DEF Micro!SetPostMoeProcess, Micro!SetFFN
  <2> HIDE DEF b2
  <2> QED
    BY <1>4, <2>1, <2>2
<1> QED
  BY <1>6, <1>7, <1>8

LEMMA DeepseekLayerKeeps ==
  ASSUME NEW b, Boundary(b), NEW l, l \in Micro!DeepseekLayers, DeepseekFull(l)
  PROVE  Boundary(Micro!DeepseekLayer(b, l))
<1>1. 0 \in {0, 1} /\ 1 \in {0, 1}
  OBVIOUS
<1> DEFINE attn(a, half) == Micro!insert_push_events(Micro!SetPostAttnProcess(Micro!SetAttention(a, half, l), half, l))
           ffn(a, half) == Micro!insert_push_events(Micro!SetPostMoeProcess(Micro!SetFFN(a, half), half, l))
           b1 == attn(b, 0)
           b2 == attn(b1, 1)
           b3 == ffn(b2, 0)
           b4 == ffn(b3, 1)
<1>2. Micro!DeepseekLayer(b, l) = Micro!SetInited(Micro!insert_pop_events(b4), FALSE)
  BY DEF Micro!DeepseekLayer
<1>3. Open(b1, 0)
  <2>1. MayCompute(b, 0)
    BY DEF MayCompute
  <2> QED
    BY <1>1, <2>1, DeepseekHalves
<1> HIDE DEF b1
<1>4. Open(b2, 1)
  <2>1. MayCompute(b1, 1)
    BY <1>3 DEF MayCompute
  <2> QED
    BY <1>1, <2>1, DeepseekHalves
<1> HIDE DEF b2
<1>5. Open(b3, 0)
  <2>1. MayCompute(b2, 0)
    BY <1>4 DEF MayCompute
  <2> QED
    BY <1>1, <2>1, DeepseekHalves
<1> HIDE DEF b3
<1>6. Open(b4, 1)
  <2>1. MayCompute(b3, 1)
    BY <1>5 DEF MayCompute
  <2> QED
    BY <1>1, <2>1, DeepseekHalves
<1> HIDE DEF b4
<1> QED
  BY <1>2, <1>6, OpenCloses

LEMMA LayerKeeps ==
  ASSUME NEW b, Boundary(b), NEW l, FullLayer(l)
  PROVE  Boundary(Micro!AddOperationToGraph(b, l))
<1>1. CASE l \in Micro!BaseLayers /\ BaseFull(l)
  <2>1. l.model = "base"
    BY <1>1 DEF Micro!BaseLayers
  <2> QED
    BY <1>1, <2>1, BaseLayerKeeps DEF Micro!AddOperationToGraph
<1>2. CASE l \in Micro!DeepseekLayers /\ DeepseekFull(l)
  <2>1. l.model # "base"
    BY <1>2 DEF Micro!DeepseekLayers
  <2> QED
    BY <1>2, <2>1, DeepseekLayerKeeps DEF Micro!AddOperationToGraph
<1> QED
  BY <1>1, <1>2 DEF FullLayer

\* No half is built yet.
EmptyMicro == Micro!EmptyBuild([inited |-> FALSE])

LEMMA MicroStart == Boundary(EmptyMicro)
<1> DEFINE b == EmptyMicro
           h == <<>>
<1>1. b = [nodes |-> [s \in Streams |-> <<>>], size |-> 0, pushed |-> [k \in MicroKeys |-> 0],
           popped |-> [k \in MicroKeys |-> 0], own |-> [inited |-> FALSE]]
  BY DEF EmptyMicro, Micro!EmptyBuild, Micro!Streams, Streams, MicroKeys
<1> HIDE DEF b
<1>2. b \in MicroBuilds
  <2>1. /\ [s \in Streams |-> <<>>] \in [Streams -> Seq(NodesFor(MicroKeys))] /\ 0 \in Nat
        /\ [k \in MicroKeys |-> 0] \in [MicroKeys -> Nat] /\ [inited |-> FALSE] \in [inited : BOOLEAN]
    OBVIOUS
  <2> QED
    BY <1>1, <2>1 DEF MicroBuilds
<1>3. Len(h) = 0 /\ h \in Seq(Halves)
  OBVIOUS
<1> HIDE DEF h
<1>4. GoodHalves(h) /\ PlacesUpTo(h, b.size)
  BY <1>3 DEF GoodHalves, PlacesUpTo
<1>5. ASSUME NEW s \in Streams, NEW top \in Nat PROVE MicroStreamAt(b, s, h, MicroHas(s, h, 0), top)
  <2>1. b.nodes[s] = <<>> /\ b.size = 0
    BY <1>1
  <2>2. MicroHas(s, h, 0) = {}
    BY <1>3 DEF MicroHas
  <2>3. Labelled(<<>>, <<>>, {}, top, 0)
    BY DEF Labelled
  <2>4. MicroStream(<<>>, <<>>, s, h, {}, top, 0)
    BY <2>3 DEF MicroStream
  <2> QED
    BY <2>1, <2>2, <2>4 DEF MicroStreamAt
<1>6. \A a \in Actions, k \in MicroKeys : Calls(b, a, k) = 0
  BY <1>1 DEF Calls
<1>7. b.own.inited = FALSE
  BY <1>1
<1>8. MicroPoint(b, h, 0, 0, 5, 4)
  <2>1. MicroStreamAt(b, 0, h, MicroHas(0, h, 0), 5) /\ MicroStreamAt(b, 1, h, MicroHas(1, h, 0), 4)
    BY <1>5, MicroWords
  <2>2. /\ Calls(b, "POP", "cc_start") = Calls(b, "PUSH", "cc_start")
        /\ Calls(b, "PUSH", "comm_control") = 0 /\ Calls(b, "PUSH", "compute_control") = 0
        /\ Calls(b, "POP", "comm_control") = 0 /\ Calls(b, "POP", "compute_control") = 0
    BY <1>6, MicroWords
  <2> QED
    BY <1>2, <1>3, <1>4, <2>1, <2>2 DEF MicroPoint
<1>9. HasBoundary(b, h)
  <2>1. 8 * 0 + 5 = 5 /\ 8 * 0 + 4 = 4
    OBVIOUS
  <2> QED
    BY <1>3, <1>7, <1>8, <2>1 DEF HasBoundary
<1> QED
  BY <1>9 DEF Boundary, b

\* Every layer is full.
FullLayers == {l \in Micro!BaseLayers \cup Micro!DeepseekLayers : FullLayer(l)}

LEMMA MicroLayersExist ==
  ASSUME NEW layers, layers \in Seq(FullLayers)
  PROVE  \E f : f = [n \in 0 .. Len(layers) |-> IF n = 0 THEN EmptyMicro
                                                 ELSE Micro!AddOperationToGraph(f[n - 1], layers[n])]
<1> DEFINE B == {x \in MicroBuilds : Boundary(x)}
           len == Len(layers)
           h == [i \in 1 .. len |-> [x \in B |-> Micro!AddOperationToGraph(x, layers[i])]]
<1>0. \A x : Boundary(x) => x \in MicroBuilds
  BY DEF Boundary, HasBoundary, MicroPoint
<1>1. ASSUME NEW x \in B, NEW i \in 1 .. len PROVE Micro!AddOperationToGraph(x, layers[i]) \in B
  <2>1. Boundary(x)
    OBVIOUS
  <2>2. FullLayer(layers[i])
    BY DEF FullLayers
  <2>3. Boundary(Micro!AddOperationToGraph(x, layers[i]))
    <3> HIDE DEF B
    <3> QED
      BY <2>1, <2>2, LayerKeeps
  <2> QED
    BY <1>0, <2>3
<1>2. EmptyMicro \in B
  BY <1>0, MicroStart
<1>3. h \in [1 .. len -> [B -> B]]
  BY <1>1
<1>4. PICK f \in [0 .. len -> B] : f[0] = EmptyMicro /\ \A i \in 1 .. len : f[i] = h[i][f[i - 1]]
  <2>1. len \in Nat
    OBVIOUS
  <2> HIDE DEF h, B, len
  <2>2. HasTrace(B, EmptyMicro, len, h)
    BY <1>2, <1>3, <2>1, Iterated
  <2> QED
    BY ONLY <2>2 DEF HasTrace
<1>5. f = [n \in 0 .. len |-> IF n = 0 THEN EmptyMicro ELSE Micro!AddOperationToGraph(f[n - 1], layers[n])]
  <2>0. len \in Nat
    OBVIOUS
  <2> HIDE DEF len
  <2>1. ASSUME NEW i \in 0 .. len, i # 0 PROVE f[i] = Micro!AddOperationToGraph(f[i - 1], layers[i])
    <3>1. i \in 1 .. len /\ i - 1 \in 0 .. len
      BY <2>0, <2>1
    <3> HIDE DEF B
    <3> QED
      BY <1>4, <3>1
  <2>2. f = [i \in 0 .. len |-> f[i]]
    BY <1>4
  <2> HIDE DEF B
  <2> QED
    BY <1>4, <2>1, <2>2
<1> QED
  BY <1>5

\* Both streams are between layers when all layers are built.
LEMMA MicroBuilt ==
  ASSUME NEW layers, layers \in Seq(FullLayers)
  PROVE  Boundary(Micro!BuildLayers(layers))
<1> DEFINE upTo[n \in 0 .. Len(layers)] == IF n = 0 THEN EmptyMicro ELSE Micro!AddOperationToGraph(upTo[n - 1], layers[n])
<1>1. Micro!BuildLayers(layers) = upTo[Len(layers)]
  BY DEF Micro!BuildLayers, EmptyMicro
<1>2. upTo = CHOOSE f : f = [n \in 0 .. Len(layers) |-> IF n = 0 THEN EmptyMicro
                                                       ELSE Micro!AddOperationToGraph(f[n - 1], layers[n])]
  OBVIOUS
<1> HIDE DEF upTo
<1>3. upTo = [n \in 0 .. Len(layers) |-> IF n = 0 THEN EmptyMicro
                                          ELSE Micro!AddOperationToGraph(upTo[n - 1], layers[n])]
  <2>1. \E f : f = [n \in 0 .. Len(layers) |-> IF n = 0 THEN EmptyMicro
                                                ELSE Micro!AddOperationToGraph(f[n - 1], layers[n])]
    BY MicroLayersExist
  <2> QED
    BY <1>2, <2>1
<1>4. PICK len \in Nat : len = Len(layers)
  OBVIOUS
<1>5. upTo[0] = EmptyMicro /\ \A i \in 1 .. len : upTo[i] = Micro!AddOperationToGraph(upTo[i - 1], layers[i])
  BY <1>3, <1>4
<1> DEFINE S == {i \in 0 .. len : Boundary(upTo[i])}
<1>6. 0 \in S
  BY <1>5, MicroStart
<1>7. ASSUME NEW i \in 1 .. len, i - 1 \in S PROVE i \in S
  <2>1. Boundary(upTo[i - 1])
    BY <1>7
  <2>2. FullLayer(layers[i])
    BY <1>4 DEF FullLayers
  <2>3. Boundary(Micro!AddOperationToGraph(upTo[i - 1], layers[i]))
    <3> HIDE DEF S
    <3> QED
      BY <2>1, <2>2, LayerKeeps
  <2>4. i \in 0 .. len
    OBVIOUS
  <2> QED
    BY <1>5, <2>3, <2>4
<1>8. len \in S
  <2>1. S \in SUBSET (0 .. len) /\ len \in 0 .. len
    OBVIOUS
  <2> HIDE DEF S
  <2> QED
    BY <1>6, <1>7, <2>1, UpTo
<1> QED
  BY <1>1, <1>4, <1>8

\* Between layers, all halves have all of their events.
LEMMA BoundaryIsGraph ==
  ASSUME NEW b, NEW h, HasBoundary(b, h)
  PROVE  \E lab : MicroGraph(b.nodes, lab, h)
<1>1. /\ b \in MicroBuilds /\ GoodHalves(h) /\ h \in Seq(Halves) /\ Len(h) \in Nat
      /\ (Len(h) > 0 => h[1].half = 0 /\ h[Len(h)].half = 1)
      /\ MicroPoint(b, h, Len(h), Len(h), 8 * Len(h) + 5, 8 * Len(h) + 4)
  BY DEF HasBoundary, MicroPoint, GoodHalves
<1>2. Len(h) # 1
  <2> SUFFICES ASSUME Len(h) = 1 PROVE FALSE
    OBVIOUS
  <2>1. h[1].half = 0 /\ h[1].half = 1
    BY <1>1
  <2> QED
    BY <2>1
<1>3. PICK n \in Nat : n = Len(h)
  BY <1>1
<1>4. PICK lab0 : MicroStream(b.nodes[0], lab0, 0, h, MicroHas(0, h, n), 8 * n + 5, b.size)
  BY <1>1, <1>3 DEF MicroPoint, MicroStreamAt
<1>5. PICK lab1 : MicroStream(b.nodes[1], lab1, 1, h, MicroHas(1, h, n), 8 * n + 4, b.size)
  BY <1>1, <1>3 DEF MicroPoint, MicroStreamAt
<1>6. PICK lab : lab = [s \in Streams |-> IF s = 0 THEN lab0 ELSE lab1]
  OBVIOUS
<1>7. lab[0] = lab0 /\ lab[1] = lab1
  BY <1>6, MicroWords
<1>8. b.size \in Nat /\ 8 * n + 5 \in Nat /\ 8 * n + 4 \in Nat /\ DOMAIN b.nodes = Streams
  BY <1>1 DEF MicroBuilds
<1>9. ASSUME NEW s \in Streams
      PROVE  \E top \in Nat, size \in Nat : MicroStream(b.nodes[s], lab[s], s, h, MicroHas(s, h, n), top, size)
  <2>1. CASE s = 0
    BY <1>4, <1>7, <1>8, <2>1
  <2>2. CASE s = 1
    BY <1>5, <1>7, <1>8, <2>2
  <2> QED
    BY <2>1, <2>2 DEF Streams
<1>10. MicroGraph(b.nodes, lab, h)
  BY <1>1, <1>2, <1>3, <1>8, <1>9 DEF MicroGraph
<1> QED
  BY <1>10

\* Every event has been pushed.
LEMMA MicroFinished ==
  ASSUME NEW b, NEW h, HasBoundary(b, h)
  PROVE  Micro!Finished(b) = b.nodes
<1>1. PICK lab : MicroGraph(b.nodes, lab, h)
  BY BoundaryIsGraph
<1>2. /\ b \in MicroBuilds /\ b.nodes \in [Streams -> Seq(NodesFor(MicroKeys))]
      /\ (\A n \in 1 .. Len(h) : h[n].layer <= b.pushed["cc_start"])
      /\ b.pushed["comm_control"] = Len(h) /\ b.pushed["compute_control"] = Len(h)
  BY DEF HasBoundary, MicroPoint, MicroBuilds, Calls
<1>3. ASSUME NEW s \in Streams, NEW i \in 1 .. Len(b.nodes[s])
      PROVE  Micro!Completed(b, b.nodes[s][i]) = b.nodes[s][i]
  <2>1. CASE b.nodes[s][i].kind = "task"
    BY <2>1 DEF Micro!Completed
  <2>2. CASE b.nodes[s][i].kind # "task"
    <3>1. PICK n \in 1 .. Len(h), key \in MicroKeys : IsMicroEvent(b.nodes, lab, s, h, i, n, key)
      BY <1>1, <2>2, MicroEventAt
    <3>2. b.nodes[s][i].event = <<key, IF key = "cc_start" THEN h[n].layer ELSE n>>
      BY <3>1 DEF IsMicroEvent, MicroEvent
    <3>3. b.nodes[s][i].event[1] = key /\ b.nodes[s][i].event[2] = (IF key = "cc_start" THEN h[n].layer ELSE n)
      BY <3>2
    <3>4. b.nodes[s][i].event[2] <= b.pushed[b.nodes[s][i].event[1]]
      <4>1. CASE key = "cc_start"
        BY <1>2, <3>3, <4>1
      <4>2. CASE key # "cc_start"
        <5>1. n <= Len(h) /\ b.pushed[key] = Len(h)
          BY <1>2, <4>2 DEF MicroKeys
        <5> QED
          BY <3>3, <4>2, <5>1
      <4> QED
        BY <4>1, <4>2
    <3> QED
      BY <3>4 DEF Micro!Completed
  <2> QED
    BY <2>1, <2>2
<1>4. ASSUME NEW s \in Streams
      PROVE  [i \in DOMAIN b.nodes[s] |-> Micro!Completed(b, b.nodes[s][i])] = b.nodes[s]
  <2>1. b.nodes[s] \in Seq(NodesFor(MicroKeys)) /\ DOMAIN b.nodes[s] = 1 .. Len(b.nodes[s])
    BY <1>2
  <2>2. b.nodes[s] = [i \in DOMAIN b.nodes[s] |-> b.nodes[s][i]]
    BY <2>1
  <2> QED
    BY <1>3, <2>1, <2>2
<1>5. Micro!Finished(b) = [s \in Streams |-> b.nodes[s]]
  BY <1>4 DEF Micro!Finished, Micro!Streams, Streams
<1>6. [s \in Streams |-> b.nodes[s]] = b.nodes
  BY <1>2
<1> QED
  BY <1>5, <1>6

\* The graphs of the two-stream prefill layers are tied together, whatever full layers the model has.
THEOREM MicroBatchGraphsAreTied ==
  ASSUME MicroLayers \subseteq Seq(FullLayers)
  PROVE  \A g \in Micro!MicroBatchGraphs : WellTied(g)
<1> SUFFICES ASSUME NEW g \in Micro!MicroBatchGraphs PROVE WellTied(g)
  OBVIOUS
<1>1. PICK layers \in MicroLayers : g = Micro!Finished(Micro!BuildLayers(layers))
  BY DEF Micro!MicroBatchGraphs
<1>2. Boundary(Micro!BuildLayers(layers))
  BY MicroBuilt
<1>3. PICK b : b = Micro!BuildLayers(layers)
  OBVIOUS
<1>4. PICK h : HasBoundary(b, h)
  BY <1>2, <1>3 DEF Boundary
<1>5. PICK lab : MicroGraph(b.nodes, lab, h)
  BY <1>4, BoundaryIsGraph
<1>6. WellTied(b.nodes)
  BY <1>5, MicroWellTied
<1>7. Micro!Finished(b) = b.nodes
  BY <1>4, MicroFinished
<1> QED
  BY <1>1, <1>3, <1>6, <1>7
-----------------------------------------------------------------------------
\* The graphs that the builders make, of the base models with any number of layers and of communication
\* operations in each, whatever the counter was left at, and of the two-stream prefill layers with any
\* sequence of full layers, are tied together when they are handed to the device.
BuiltGraphs == Dap!DapGraphs \cup Micro!MicroBatchGraphs

LEMMA BuiltAreTied ==
  ASSUME MaxLayers \in Nat, MaxComms \in Nat, MicroLayers \subseteq Seq(FullLayers), Graphs \subseteq BuiltGraphs
  PROVE  Tied
<1>1. \A g \in Dap!DapGraphs : WellTied(g)
  BY DapGraphsAreTied
<1>2. \A g \in Micro!MicroBatchGraphs : WellTied(g)
  BY MicroBatchGraphsAreTied
<1> QED
  BY <1>1, <1>2 DEF Tied, BuiltGraphs

\* Each graph of the builders is tied together by its events.
THEOREM BuiltGraphIsTied ==
  ASSUME MaxLayers \in Nat, MaxComms \in Nat, MicroLayers \subseteq Seq(FullLayers), Graphs \subseteq BuiltGraphs
  PROVE  Spec => []GraphIsTied
<1>1. Tied
  BY BuiltAreTied
<1>2. IInv => GraphIsTied
  BY <1>1, Graph DEF GraphIsTied
<1> QED
  BY <1>1, <1>2, Invariance, PTL

\* However often the device runs a graph of the builders, no RECORD raises an event that is still
\* raised, the computing units and the network are each used by one stream at a time, a task
\* starts after the earlier tasks on its data, and the streams do not all wait for each other.
THEOREM BuiltGraphsRunWell ==
  ASSUME MaxLayers \in Nat, MaxComms \in Nat, MicroLayers \subseteq Seq(FullLayers), Graphs \subseteq BuiltGraphs
  PROVE  Spec => [](SignalsAreKept /\ BatchesTakeTurns /\ DataFlowKept /\ NotStuck)
<1>1. Tied
  BY BuiltAreTied
<1>2. IInv => SignalsAreKept /\ BatchesTakeTurns /\ DataFlowKept /\ NotStuck
  BY <1>1, Graph, Kept, Turns, Flows, Goes
<1> QED
  BY <1>1, <1>2, Invariance, PTL
=============================================================================
