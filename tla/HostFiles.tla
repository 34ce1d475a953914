------------------------------ MODULE HostFiles ------------------------------
(***************************************************************************)
(* Files of services and the services themselves                           *)
(* (src/hooks/charmhelpers/core/host.py): write_file writes what differs,  *)
(* restart_on_change restarts the services whose files differ from before  *)
(* the function, install_ca_cert updates the trusted certificates after it *)
(* has written one.  The hook may be cut off anywhere and is run again.    *)
(***************************************************************************)
EXTENDS Naturals, Sequences, FiniteSets

CONSTANTS
    Paths, ca_cert,   \* the files, that of the certificate among them
    Contents,
    NoFile, Partial,  \* a file that is missing, and one that is cut short
    Services, restart_map,
    MaxChanges, MaxCuts

VARIABLES
    wanted,      \* what the charm would write
    file,
    before,      \* the contents whose hashes were taken before the function
    inUse,       \* what each service read when it was last started
    trusted,     \* the certificate that the host trusts
    pc, todo,    \* the step of the hook, and the files not yet written
    owed,        \* files whose services a hook that was cut off has not restarted
    missed,      \* services whose last restart failed
    changes, cuts

vars == <<wanted, file, before, inUse, trusted, pc, todo, owed, missed, changes, cuts>>

Configs == Paths \ {ca_cert}

Change ==
    /\ pc = "idle" /\ changes < MaxChanges
    /\ changes' = changes + 1
    /\ \E p \in Paths, c \in Contents : wanted' = [wanted EXCEPT ![p] = c]
    /\ pc' = "due"
    /\ UNCHANGED <<file, before, inUse, trusted, todo, owed, missed, cuts>>

\* restart_on_change_helper takes path_hash of all files.
TakeHashes ==
    /\ pc = "due"
    /\ before' = file
    /\ pc' = "function" /\ todo' = Configs
    /\ UNCHANGED <<wanted, file, inUse, trusted, owed, missed, changes, cuts>>

\* write_file: whatever is there that is not the content is replaced.
WriteFile(p) == file' = [file EXCEPT ![p] = wanted[p]]

Function ==
    /\ pc = "function"
    /\ \E p \in todo : WriteFile(p) /\ todo' = todo \ {p}
    /\ UNCHANGED <<wanted, before, inUse, trusted, pc, owed, missed, changes, cuts>>

Changed == {p \in Configs : file[p] # before[p]}

\* Broken variant of Restarted: the services of the first file that has changed.
Bug_Restarted ==
    IF Changed = {} THEN {} ELSE restart_map[CHOOSE p \in Changed : TRUE]

Restarted == UNION {restart_map[p] : p \in Changed}

\* What the services work with when those in us have started anew.
Read(us) == [s \in Services |-> IF s \in us THEN file ELSE inUse[s]]

\* Each service once, whichever of its files have changed.  Nobody looks at the result: a
\* restart that fails leaves the service as it was, or stopped.
RestartServices ==
    /\ pc = "function" /\ todo = {}
    /\ \E failing \in SUBSET Restarted :
          /\ inUse' = Read(Restarted \ failing)
          /\ missed' = (missed \ Restarted) \cup failing
    /\ owed' = {p \in owed : p = ca_cert \/ ~(restart_map[p] \subseteq Restarted)}
    /\ pc' = "cert"
    /\ UNCHANGED <<wanted, file, before, trusted, todo, changes, cuts>>

\* Nothing is done for a file that has the certificate's hash.
InstallCert ==
    /\ pc = "cert"
    /\ IF file[ca_cert] = wanted[ca_cert]
       THEN pc' = "idle" /\ UNCHANGED file
       ELSE pc' = "update" /\ WriteFile(ca_cert)
    /\ UNCHANGED <<wanted, before, inUse, trusted, todo, owed, missed, changes, cuts>>

UpdateCertificates ==
    /\ pc = "update"
    /\ trusted' = file[ca_cert]
    /\ owed' = owed \ {ca_cert}
    /\ pc' = "idle"
    /\ UNCHANGED <<wanted, file, before, inUse, todo, missed, changes, cuts>>

\* Between two steps, in the middle of a write or of the restarts, or raising at one of them:
\* the hook is run again from the start.
CutOff ==
    /\ pc \notin {"idle", "due"} /\ cuts < MaxCuts
    /\ cuts' = cuts + 1 /\ pc' = "due"
    /\ \/ UNCHANGED file
       \/ \E p \in todo : file[p] # wanted[p] /\ file' = [file EXCEPT ![p] = Partial]
       \/ pc = "update" /\ file' = [file EXCEPT ![ca_cert] = Partial]
    /\ owed' = owed \cup (IF pc = "function" THEN Changed ELSE {})
                    \cup (IF pc = "update" THEN {ca_cert} ELSE {})
    /\ \E us \in SUBSET Services :
          /\ us = {} \/ (pc = "function" /\ todo = {} /\ us \subseteq Restarted)
          /\ inUse' = Read(us) /\ missed' = missed \ us
    /\ UNCHANGED <<wanted, before, trusted, todo, changes>>

Init ==
    /\ wanted \in [Paths -> Contents]
    /\ file = [p \in Paths |-> NoFile] /\ before = file
    /\ inUse = [s \in Services |-> file] /\ trusted = NoFile
    /\ pc = "due" /\ todo = {} /\ owed = {} /\ missed = {} /\ changes = 0 /\ cuts = 0

Next == \/ Change \/ TakeHashes \/ Function \/ RestartServices
        \/ InstallCert \/ UpdateCertificates \/ CutOff

Spec == Init /\ [][Next]_vars
-----------------------------------------------------------------------------
TypeOK ==
    /\ file \in [Paths -> Contents \cup {NoFile, Partial}]
    /\ pc \in {"idle", "due", "function", "cert", "update"}
    /\ todo \subseteq Configs /\ owed \subseteq Paths /\ missed \subseteq Services

\* Between hooks the files are whole and as the charm wants them, however often it was
\* cut off in the middle of one; and services and host work with them, but for files that
\* a hook has written before it was cut off, as the next one finds no change in those, and
\* for services whose last restart failed, as no later hook looks at that.
ServicesUseFiles ==
    pc = "idle" =>
        /\ file = wanted
        /\ \A p \in Configs \ owed, s \in Services \ missed :
              s \in restart_map[p] => inUse[s][p] = file[p]
        /\ trusted = file[ca_cert] \/ ca_cert \in owed
=============================================================================
