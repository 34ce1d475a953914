----------------------------- MODULE NrpeChecks -----------------------------
(***************************************************************************)
(* nrpe.NRPE (src/hooks/charmhelpers/contrib/charmsupport/nrpe.py): each   *)
(* hook of a monitored charm says which checks there are and which there   *)
(* are no longer.  A check is a command of the nrpe server, a service file *)
(* in the export directory and an entry of the monitors on the relation,   *)
(* which Juju forgets when the hook fails.                                 *)
(***************************************************************************)
EXTENDS Naturals, Sequences, FiniteSets

CONSTANTS
    Checks,        \* shortnames
    EndsWith,      \* EndsWith[c]: names whose "check_" form ends in "_check_" of c, and c
    Relations,     \* ids of local-monitors and nrpe-external-master
    Versions,      \* what versions of the charm do: calls of add_check and remove_check
    MaxHooks, MaxFailures

VARIABLES
    version,        \* the calls of the current version
    commands,       \* files in nrpe.d
    services,       \* files in the export directory
    loaded,         \* the commands that the running nrpe server knows
    joined,         \* the relations that are there
    monitors,       \* on each of them
    unseen,         \* commands that were there before it was, and that no hook has added since
    nagios_user,    \* the package of the user is installed
    next,           \* the next call of this hook, or 0
    checks, remove_check_queue,
    behind,         \* the server was not restarted since commands were changed
    failed,         \* the last hook failed: Juju runs it again, with the same version
    hooks, failures

proc == <<next, checks, remove_check_queue>>
disk == <<commands, services, loaded>>
related == <<joined, monitors, unseen>>
vars == <<version, disk, related, nagios_user, proc, behind, failed, hooks,
          failures>>

Upgrade ==
    /\ next = 0 /\ ~failed
    /\ version' \in Versions
    /\ UNCHANGED <<disk, related, nagios_user, proc, behind, failed, hooks, failures>>

Begin ==
    /\ next = 0 /\ hooks < MaxHooks
    /\ hooks' = hooks + 1
    /\ next' = 1 /\ checks' = << >> /\ remove_check_queue' = {}
    /\ UNCHANGED <<version, disk, related, nagios_user, behind, failed, failures>>

Calls(kind) == next \in 1 .. Len(version) /\ version[next][1] = kind /\ next' = next + 1

add_check ==
    /\ Calls("add")
    /\ checks' = Append(checks, version[next][2])
    /\ remove_check_queue' = remove_check_queue \ {version[next][2]}
    /\ UNCHANGED <<version, disk, related, nagios_user, behind, failed, hooks, failures>>

\* Files are removed at once, also those of checks whose names end alike.
remove_check ==
    /\ Calls("remove")
    /\ LET c == version[next][2] IN
         /\ commands' = commands \ {c}
         /\ services' = services \ EndsWith[c]
         /\ remove_check_queue' = remove_check_queue \cup {c}
    /\ behind' = (behind \/ commands' # commands)
    /\ UNCHANGED <<version, loaded, related, nagios_user, checks, failed, hooks, failures>>

\* write_service_config of the checks in turn: a check first removes the files that end
\* in its name.  The last one to do so is found from the right.
Written ==
    {c \in Checks : \E i \in 1 .. Len(checks) :
        /\ checks[i] = c
        /\ \A j \in i + 1 .. Len(checks) : c \in EndsWith[checks[j]] => checks[j] = c}
  \cup {c \in services : \A j \in 1 .. Len(checks) : c \notin EndsWith[checks[j]]}

Named == {checks[i] : i \in 1 .. Len(checks)}

\* Broken variant of Merged: what is there is replaced, not updated.
Bug_Merged(there) == Named

\* The monitors that are there, if any, without those removed by this process, and its own.
Merged(there) == (there \ remove_check_queue) \cup Named

\* update-status does not restart the server; nobody looks whether others did, and a server
\* that did not start again goes on with what it knows, or stops.
write(update_status) ==
    /\ next = Len(version) + 1
    /\ next' = 0 /\ failed' = FALSE
    /\ IF nagios_user
       THEN /\ commands' = commands \cup Named
            /\ services' = Written
            /\ \/ update_status /\ UNCHANGED loaded /\ behind' = (behind \/ commands' # commands)
               \/ ~update_status /\ loaded' = commands' /\ behind' = FALSE
               \/ ~update_status /\ loaded' \in {loaded, {}} /\ behind' = TRUE
            /\ monitors' = [r \in Relations |-> IF r \in joined THEN Merged(monitors[r]) ELSE {}]
            /\ unseen' = [r \in Relations |-> unseen[r] \ Named]
            /\ remove_check_queue' = {}
       ELSE UNCHANGED <<disk, behind, monitors, unseen, remove_check_queue>>
    /\ UNCHANGED <<version, joined, nagios_user, checks, hooks, failures>>

\* The hook fails before, or in the middle of, write.
Fail ==
    /\ next > 0 /\ failures < MaxFailures
    /\ failures' = failures + 1
    /\ next' = 0 /\ failed' = TRUE
    /\ IF next = Len(version) + 1 /\ nagios_user
       THEN \E done \in SUBSET Named : commands' = commands \cup done
       ELSE UNCHANGED commands
    /\ behind' = (behind \/ commands' # commands)
    /\ UNCHANGED <<version, services, loaded, related, nagios_user, checks,
                   remove_check_queue, hooks>>

\* Relations come, without monitors, and go between hooks.
Join(r) ==
    /\ next = 0 /\ r \notin joined
    /\ joined' = joined \cup {r}
    /\ unseen' = [unseen EXCEPT ![r] = commands]
    /\ UNCHANGED <<version, disk, monitors, nagios_user, proc, behind, failed, hooks, failures>>

Break(r) ==
    /\ next = 0 /\ r \in joined
    /\ joined' = joined \ {r}
    /\ monitors' = [monitors EXCEPT ![r] = {}]
    /\ unseen' = [unseen EXCEPT ![r] = {}]
    /\ UNCHANGED <<version, disk, nagios_user, proc, behind, failed, hooks, failures>>

\* nagios-nrpe-server is installed, which creates the user.
InstallServer ==
    /\ ~nagios_user
    /\ nagios_user' = TRUE /\ loaded' = commands
    /\ UNCHANGED <<version, commands, services, related, proc, behind, failed, hooks,
                   failures>>

Init ==
    /\ version \in Versions
    /\ commands = {} /\ services = {} /\ loaded = {}
    /\ joined \in SUBSET Relations
    /\ monitors = [r \in Relations |-> {}] /\ unseen = monitors
    /\ nagios_user \in BOOLEAN
    /\ next = 0 /\ checks = << >> /\ remove_check_queue = {}
    /\ behind = FALSE /\ failed = FALSE /\ hooks = 0 /\ failures = 0

Next == \/ Upgrade \/ Begin \/ add_check \/ remove_check \/ Fail \/ InstallServer
        \/ \E status \in BOOLEAN : write(status)
        \/ \E r \in Relations : Join(r) \/ Break(r)

Spec == Init /\ [][Next]_vars
-----------------------------------------------------------------------------
TypeOK ==
    /\ commands \subseteq Checks /\ services \subseteq Checks
    /\ joined \subseteq Relations
    /\ monitors \in [Relations -> SUBSET Checks] /\ unseen \in [Relations -> SUBSET Checks]
    /\ remove_check_queue \subseteq Checks
    /\ next \in 0 .. Len(version) + 1

\* On every relation nagios is told the commands that have a file and no others, and no
\* service file is left of a check that was removed, after hooks that add, remove and add
\* again in any order and that fail and are run again.  A relation that came later is told of
\* what hooks have added since.  And the server knows the commands, unless its last restart
\* failed or it had none since they were changed.
MonitorsHaveCommands ==
    next = 0 /\ ~failed =>
        /\ \A r \in joined : monitors[r] = commands \ unseen[r]
        /\ services \subseteq commands
        /\ nagios_user /\ ~behind => loaded = commands
=============================================================================
