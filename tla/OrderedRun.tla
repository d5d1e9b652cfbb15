----------------------------- MODULE OrderedRun -----------------------------
(***************************************************************************)
(* What a caller of Model::Execute relies on, whatever threads the model   *)
(* uses: a call launches every node of the graph once, in graph order, and *)
(* returns when all have been launched.  Only after a failure may a call   *)
(* end early, and only then may nodes be launched out of order or late.    *)
(***************************************************************************)
EXTENDS Integers

CONSTANT NodeCount

VARIABLES busy, launched, broken

Nodes == 0 .. NodeCount - 1

Init == busy = FALSE /\ launched = {} /\ broken = FALSE

Call == ~busy /\ busy' = TRUE /\ launched' = {} /\ UNCHANGED broken

Launch ==
  /\ \E n \in Nodes :
       /\ (busy /\ launched = 0 .. n - 1) \/ broken
       /\ launched' = launched \cup {n}
  /\ UNCHANGED <<busy, broken>>

Return == busy /\ (launched = Nodes \/ broken) /\ busy' = FALSE /\ UNCHANGED <<launched, broken>>

(* A node fails.  The call may end with it.                                *)
Break == broken' = TRUE /\ busy' \in {busy, FALSE} /\ UNCHANGED launched

Next == Call \/ Launch \/ Return \/ Break

Spec == Init /\ [][Next]_<<busy, launched, broken>>
=============================================================================
