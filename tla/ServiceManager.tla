--------------------------- MODULE ServiceManager ---------------------------
(***************************************************************************)
(* services.ServiceManager with the service functions of host              *)
(* (src/hooks/charmhelpers/core): each hook configures and restarts the    *)
(* services whose data is there and stops the others, keeps the ports of a *)
(* service and the services that were ready in files of its own, and asks  *)
(* Juju to open and close ports.  Juju applies that when the hook ends     *)
(* well; files and services stay as they are when it fails.                *)
(***************************************************************************)
EXTENDS Integers, Sequences, FiniteSets, SequencesExt

CONSTANTS
    Order,         \* the services, as they are registered
    Units, Keys,
    required_keys, \* of a service's relation context
    Definitions,   \* the ports of the services, in every version of the charm
    Torn,          \* a ready file that does not parse
    MaxChanges, MaxFailures

Services == ToSet(Order)

VARIABLES
    published,         \* the keys that each unit has set
    ports,             \* the definitions of the charm's version
    port_file,         \* .{service}.ports
    ready_file,        \* READY-SERVICES.json
    running, masked,   \* services that run, services that are paused
    opened, draft,     \* Juju's open ports, and what this hook makes of them
    next,              \* the service the hook has come to, or 0
    due,               \* a hook is to be run
    told,              \* services told data_ready, and not data_lost since
    unsaved,           \* ... by a hook that failed before it has saved that
    forgotten,         \* ports dropped from files by this hook
    leaked,            \* ports that Juju was not told to close for that reason
    stray,             \* services that would not stop, or that were resumed since
    swallowed,         \* a callback has ended a hook with a status other than 0
    changes, failures

files == <<port_file, ready_file>>
host == <<running, masked>>
ghosts == <<told, unsaved, forgotten, leaked, stray, swallowed>>
vars == <<published, ports, files, host, opened, draft, next, due, ghosts,
          changes, failures>>

\* RelationContext: some unit alone has set all of the keys.
is_ready(s) == \E u \in Units : required_keys[s] \subseteq published[u]

was_ready(s) == ready_file # Torn /\ s \in ready_file

\* Old ports are closed, then the ports of the definition opened or closed.
manage_ports(s, started) ==
    LET kept == draft \ (port_file[s] \ ports[s])
    IN  IF started THEN kept \cup ports[s] ELSE kept \ ports[s]

WritePorts(s) ==
    /\ port_file' = [port_file EXCEPT ![s] = ports[s]]
    /\ forgotten' = forgotten \cup (port_file[s] \ ports[s])

\* systemctl tells that it failed and nobody looks: a service may go on as it was, or not
\* run any more, and a masked one does not start.
service_restart(s) ==
    /\ \/ running' \in {running, running \ {s}}
       \/ s \notin masked /\ running' = running \cup {s}
    /\ stray' = stray \ {s}

service_stop(s) ==
    \/ running' = running \ {s} /\ stray' = stray \ {s}
    \/ s \in running /\ UNCHANGED running /\ stray' = stray \cup {s}

\* The events of a service up to its ports; told follows the callbacks.
Events(s) ==
    /\ \/ is_ready(s) /\ told' = told \cup {s} /\ service_restart(s)
       \/ ~is_ready(s) /\ told' = told \ {q \in {s} : was_ready(q)} /\ service_stop(s)
    /\ WritePorts(s)
-----------------------------------------------------------------------------
Begin ==
    /\ next = 0 /\ due
    /\ next' = 1 /\ draft' = opened /\ forgotten' = {}
    /\ UNCHANGED <<published, ports, files, host, opened, due, told, unsaved, leaked,
                   stray, swallowed, changes, failures>>

\* Broken variant of save_lost: the service stays in the file.
Bug_save_lost(s) == ready_file

save_lost(s) == ready_file \ {s}

save_ready(s) == ready_file \cup {s}

\* One round of reconfigure_services.
Reconfigure ==
    /\ next \in 1 .. Len(Order)
    /\ ready_file # Torn
    /\ LET s == Order[next] IN
         /\ Events(s)
         /\ draft' = manage_ports(s, is_ready(s))
         /\ ready_file' = IF is_ready(s) THEN save_ready(s) ELSE save_lost(s)
         /\ unsaved' = IF is_ready(s) THEN unsaved \ {s} ELSE unsaved
    /\ next' = next + 1
    /\ UNCHANGED <<published, ports, masked, opened, due, leaked, swallowed,
                   changes, failures>>

\* The hook fails; nothing that Juju was asked to do is done.
Failed ==
    /\ failures < MaxFailures
    /\ failures' = failures + 1
    /\ next' = 0
    /\ leaked' = leaked \cup (forgotten' \cap opened)
    /\ UNCHANGED <<published, ports, masked, opened, draft, due, swallowed, changes>>

\* A callback raises, before anything is done for the service.
CallbackRaises ==
    /\ next \in 1 .. Len(Order)
    /\ UNCHANGED <<files, running, told, unsaved, forgotten, stray>>
    /\ Failed

\* The hook is cut off, or reads a torn ready file, after the events of a service; or
\* it is cut off while it writes the ready file.
CutOff ==
    /\ next \in 1 .. Len(Order)
    /\ Events(Order[next])
    /\ ready_file' \in {ready_file, Torn}
    /\ unsaved' = unsaved \cup {Order[next]}
    /\ Failed

\* manage() ends the hook well when a callback has called sys.exit(1).
ExitSwallowed ==
    /\ next \in 1 .. Len(Order)
    /\ failures < MaxFailures
    /\ failures' = failures + 1
    /\ next' = 0 /\ due' = FALSE /\ swallowed' = TRUE
    /\ opened' = draft
    /\ UNCHANGED <<published, ports, files, host, draft, told, unsaved, forgotten,
                   leaked, stray, changes>>

\* provide_data, the callbacks of atexit and Juju's end of the hook.
End ==
    /\ next > Len(Order)
    /\ next' = 0 /\ due' = FALSE /\ swallowed' = FALSE
    /\ opened' = draft
    /\ leaked' = (leaked \cap draft) \ UNION {ports[s] : s \in Services}
    /\ UNCHANGED <<published, ports, files, host, draft, told, unsaved, forgotten,
                   stray, changes, failures>>
-----------------------------------------------------------------------------
\* A unit publishes or withdraws keys, or the charm is upgraded.
Change ==
    /\ next = 0 /\ changes < MaxChanges
    /\ changes' = changes + 1 /\ due' = TRUE
    /\ \/ \E u \in Units, set \in SUBSET Keys :
             published' = [published EXCEPT ![u] = set] /\ UNCHANGED ports
       \/ ports' \in Definitions /\ UNCHANGED published
    /\ UNCHANGED <<files, host, opened, draft, next, ghosts, failures>>

\* service_pause: stopped, unless it would not, and disabled and masked.
Pause(s) ==
    /\ next = 0 /\ s \notin masked /\ changes < MaxChanges
    /\ changes' = changes + 1
    /\ running' \in {running, running \ {s}} /\ masked' = masked \cup {s}
    /\ UNCHANGED <<published, ports, files, opened, draft, next, due, ghosts, failures>>

\* service_resume: started, if it will, whether its data is there or not; no hook follows.
Resume(s) ==
    /\ next = 0 /\ s \in masked
    /\ running' \in {running, running \cup {s}} /\ masked' = masked \ {s}
    /\ stray' = stray \cup {s}
    /\ UNCHANGED <<published, ports, files, opened, draft, next, due, told, unsaved,
                   forgotten, leaked, swallowed, changes, failures>>
-----------------------------------------------------------------------------
Init ==
    /\ published = [u \in Units |-> {}] /\ ports \in Definitions
    /\ port_file = [s \in Services |-> {}] /\ ready_file = {}
    /\ running = {} /\ masked = {} /\ opened = {} /\ draft = {}
    /\ next = 0 /\ due = TRUE
    /\ told = {} /\ unsaved = {} /\ forgotten = {} /\ leaked = {} /\ stray = {}
    /\ swallowed = FALSE
    /\ changes = 0 /\ failures = 0

Next == \/ Begin \/ Reconfigure \/ CallbackRaises \/ CutOff \/ ExitSwallowed \/ End
        \/ Change \/ \E s \in Services : Pause(s) \/ Resume(s)

Spec == Init /\ [][Next]_vars
-----------------------------------------------------------------------------
TypeOK ==
    /\ ready_file = Torn \/ ready_file \subseteq Services
    /\ running \subseteq Services /\ masked \subseteq Services
    /\ next \in 0 .. Len(Order) + 1
    /\ told \subseteq Services /\ unsaved \subseteq Services

AtRest == next = 0 /\ ~due /\ ~swallowed

\* A port that two services have, in this version of the charm or in two versions.
Contended(x) ==
    \E s, q \in Services, d, e \in Definitions : s # q /\ x \in d[s] /\ x \in e[q]

\* Once the hooks are through, however many of them have failed: an open port is one of a
\* service that has its data, also when a new version of the charm has other ports, unless
\* a failed hook has dropped it from its file; and all their ports are open, but for those
\* that two services have, which one of them may have closed.  data_lost is told to exactly
\* the services that were told data_ready and have lost their data, but for those that
\* failed before they had saved it.  And no service runs without its data, unless it would
\* not stop, or was resumed by an action, after which no hook runs.
ServicesFollowData ==
    AtRest =>
        LET ready == {s \in Services : is_ready(s)}
            wanted == UNION {ports[s] : s \in ready}
        IN  /\ opened \ leaked \subseteq wanted
            /\ \A x \in wanted : x \in opened \/ Contended(x)
            /\ ready_file = ready
            /\ told \ unsaved = ready \ unsaved
            /\ running \ stray \subseteq ready
=============================================================================
