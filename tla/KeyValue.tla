------------------------------ MODULE KeyValue ------------------------------
(***************************************************************************)
(* What unitdata.Storage promises: a map that is changed in a draft.  The  *)
(* draft becomes the map as a whole or it is dropped as a whole, and a     *)
(* hook that fails leaves nothing behind in it.                            *)
(***************************************************************************)
CONSTANTS Keys, Values, NoValue

VARIABLES
    stored,  \* what other processes, and later ones, read
    draft,   \* what this process reads
    scope    \* whether a hook is under way

Maps == [Keys -> Values \cup {NoValue}]

Init == stored = [k \in Keys |-> NoValue] /\ draft = stored /\ scope = FALSE

Begin == ~scope /\ scope' = TRUE /\ UNCHANGED <<stored, draft>>

Change == draft' \in Maps /\ UNCHANGED <<stored, scope>>

Commit == stored' = draft /\ draft' = draft /\ scope' \in {scope, FALSE}

Abort == draft' = stored /\ scope' = FALSE /\ UNCHANGED stored

Next == Begin \/ Change \/ Commit \/ Abort

Spec == Init /\ [][Next]_<<stored, draft, scope>>
=============================================================================
