---------------------------- MODULE Publication ----------------------------
(***************************************************************************)
(* What replacing the configuration amounts to: one version of what the    *)
(* units publish is in force, and a newer one takes its place as a whole,  *)
(* never one that is older or that nobody has published.  Only when a run  *)
(* was cut off, files may get lost, until a version is written again.      *)
(***************************************************************************)
EXTENDS Naturals

VARIABLES
    published,  \* the version the units have published last
    inForce,    \* the version of the configuration
    files,      \* "all" of its files, or only "some"
    cut         \* a run was cut off

vars == <<published, inForce, files, cut>>

Publish ==
    /\ published' = published + 1
    /\ UNCHANGED <<inForce, files, cut>>

\* A newer version takes over, or the same one is written again.
TakeOver ==
    /\ inForce' \in inForce .. published
    /\ files' = "all"
    /\ UNCHANGED <<published, cut>>

Cut ==
    /\ cut' = TRUE
    /\ UNCHANGED <<published, inForce, files>>

Prune ==
    /\ cut
    /\ files' = "some"
    /\ UNCHANGED <<published, inForce, cut>>

Init == published = 0 /\ inForce = 0 /\ files = "all" /\ cut = FALSE

Next == Publish \/ TakeOver \/ Cut \/ Prune

Spec == Init /\ [][Next]_vars
=============================================================================
