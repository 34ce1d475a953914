---------------------------- MODULE AlertDelivery ----------------------------
(***************************************************************************)
(* What the queue to PagerDuty promises of each event: it comes into the   *)
(* queue at most once, the server answers for it while it is there, again  *)
(* if it must be, and it goes only after that.                             *)
(***************************************************************************)
CONSTANT Events

VARIABLES
    queued,     \* the events in the queue
    answered    \* those the server has given a final answer for

vars == <<queued, answered>>

Put(e) ==
    /\ e \notin queued \cup answered
    /\ queued' = queued \cup {e}
    /\ UNCHANGED answered

Answer(e) ==
    /\ e \in queued
    /\ answered' = answered \cup {e}
    /\ UNCHANGED queued

Remove(e) ==
    /\ e \in queued \cap answered
    /\ queued' = queued \ {e}
    /\ UNCHANGED answered

Init == queued = {} /\ answered = {}

Next == \E e \in Events : Put(e) \/ Answer(e) \/ Remove(e)

Spec == Init /\ [][Next]_vars
=============================================================================
