-------------------------- MODULE SharedExecutors --------------------------
(***************************************************************************)
(* What the executor cache promises, without caches or counts: an executor *)
(* that is shared stays in existence exactly as long as somebody holds it. *)
(***************************************************************************)
CONSTANTS Holder, Executor, Nobody

VARIABLES
  holders,  \* who holds each executor
  alive     \* the executors in existence

vars == <<holders, alive>>

TypeOK ==
  /\ holders \in [Executor -> SUBSET Holder]
  /\ alive \subseteq Executor

Init ==
  /\ holders = [e \in Executor |-> {}]
  /\ alive = {}

(* One holder lets go of what it holds and takes executor e, which may be  *)
(* in existence already or be created; or takes nothing.                   *)
Move(h, e) ==
  /\ holders' = [x \in Executor |-> IF x = e THEN holders[x] \cup {h} ELSE holders[x] \ {h}]
  /\ alive' = {x \in Executor : holders'[x] # {}}

Next == \E h \in Holder, e \in Executor \cup {Nobody} : Move(h, e)

Spec == Init /\ [][Next]_vars

(* An executor exists exactly while it is held.                            *)
AliveIffHeld == \A e \in Executor : e \in alive <=> holders[e] # {}
=============================================================================
