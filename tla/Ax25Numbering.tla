---------------------------- MODULE Ax25Numbering ----------------------------
(***************************************************************************)
(* What the send numbering of an AX.25 endpoint promises, with the counter *)
(* abstracted away: the numbered I frames of an endpoint carry 0, 1, ...,  *)
(* Window - 1, 0, 1, ... until the link is reset or a flag-sharing burst,  *)
(* which draws from the same counter, moves the numbering elsewhere.       *)
(***************************************************************************)
EXTENDS Integers

CONSTANTS
  Endpoints,  \* the endpoints, each with a numbering of its own
  Window      \* how many numbers are used before they start again, from 1 on

VARIABLES
  next,       \* next[e]: the number the next I frame of e carries
  last        \* last[e]: the number of e's last I frame, Fresh if none yet

vars == <<next, last>>

Fresh == -1

Init ==
  /\ next = [e \in Endpoints |-> 0]
  /\ last = [e \in Endpoints |-> Fresh]

Send(e) ==
  /\ last' = [last EXCEPT ![e] = next[e]]
  /\ next' = [next EXCEPT ![e] = (next[e] + 1) % Window]

Reset(e) ==
  /\ last' = [last EXCEPT ![e] = Fresh]
  /\ next' = [next EXCEPT ![e] = 0]

Burst(e) ==
  /\ last' = [last EXCEPT ![e] = Fresh]
  /\ \E s \in 0..(Window - 1) : next' = [next EXCEPT ![e] = s]

Next == \E e \in Endpoints : Send(e) \/ Reset(e) \/ Burst(e)

Spec == Init /\ [][Next]_vars
=============================================================================
