-------------------------- MODULE BufferAssignment --------------------------
(***************************************************************************)
(* What a graph may expect of whoever hands out memory for its internal    *)
(* tensors: while a tensor is live, no other live tensor has its buffer.   *)
(***************************************************************************)
CONSTANTS Tensor, Buffer, NoBuffer

VARIABLES live, buffer    \* tensors that hold a value; where each is

Distinct(S, b) == \A t, u \in S : b[t] = b[u] => t = u

Init == live = {} /\ buffer = [t \in Tensor |-> NoBuffer]

(* One tensor gets a buffer and becomes live; others may have died.        *)
Assign ==
  \E t \in Tensor, b \in Buffer :
    /\ buffer' = [buffer EXCEPT ![t] = b]
    /\ t \in live'
    /\ live' \subseteq live \cup {t}
    /\ Distinct(live', buffer')

Die == live' \subseteq live /\ UNCHANGED buffer

Next == Assign \/ Die

Spec == Init /\ [][Next]_<<live, buffer>>
=============================================================================
