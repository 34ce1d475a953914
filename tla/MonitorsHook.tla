---------------------------- MODULE MonitorsHook ----------------------------
(***************************************************************************)
(* The hook that turns relation data into nagios host and host group files *)
(* (src/hooks/monitors_relation_changed.py over src/hooks/common.py).      *)
(*                                                                         *)
(* Juju tells the charm about units one hook at a time, while the units go *)
(* on publishing: a hook that runs for one unit reads the latest data of   *)
(* all of them.  It regenerates only the files it holds to be related to   *)
(* its own unit, keeps the other files as they are, and removes the hosts  *)
(* that no unit asks for any more.  Is what is on disk what the units      *)
(* asked for?                                                              *)
(*                                                                         *)
(* One run of the hook is one action: Juju runs one hook of the charm at a *)
(* time, a run reads a snapshot of the relation data, and it prepares the  *)
(* new configuration in a directory of its own (module ConfigSwap opens    *)
(* that step).                                                             *)
(***************************************************************************)
EXTENDS HostNaming, FiniteSets, Functions

CONSTANTS
    Units,        \* remote units, each of them in one relation of the charm
    Generic,      \* those related through "nagios" (juju-info), not "monitors"
    GenericTarget,\* the target faked for them: the unit name, "/" as "-"
    Position,     \* their places in the order relation-ids and relation-list give
    Offers,       \* what each unit may publish: [Units -> SUBSET Settings]
    NoTarget,     \* "no target-id in the relation data"
    Addresses, NoAddress,
    Monitors, NoMonitors, NoServices, Malformed,
    Machines, NoMachine, ParentOf,  \* "3/lxd/1" is a container on machine "3"
    NoHost, NoHook,
    Escaped       \* targets and apps whose file name differs from the name

Settings == [target : Targets \cup {NoTarget}, model : Models \cup {NoModel},
             address : Addresses \cup {NoAddress},  \* target-address
             ingress : Addresses \cup {NoAddress},  \* set by Juju
             monitors : Monitors \cup {NoMonitors},
             machine : Machines \cup {NoMachine}]

ASSUME UnitAssumption ==
    /\ Generic \subseteq Units
    /\ GenericTarget \in [Units -> Targets]
    /\ IsFiniteSet(Units)
    /\ Position \in [Units -> 1 .. Cardinality(Units)]
    /\ \A u, w \in Units : Position[u] = Position[w] => u = w
    /\ \A u \in Generic, w \in Units \ Generic : Position[u] < Position[w]
    /\ NoHook \notin {"changed", "departed"} \X Units

ASSUME DataAssumption ==
    /\ Offers \in [Units -> SUBSET Settings]
    /\ NoTarget \notin Targets
    /\ NoAddress \notin Addresses
    /\ NoMonitors \notin Monitors /\ {NoServices, Malformed} \subseteq Monitors
    /\ NoMachine \notin Machines
    /\ ParentOf \in [Machines -> Machines \cup {NoMachine}]
    /\ NoHost \notin HostNames

VARIABLES
    remote,      \* what each unit has published
    members,     \* the units relation-list gives
    alive,       \* the members that have not left yet
    dirty,       \* the units whose relation-changed hook is due
    failed,      \* the hook Juju has to retry before any other
    hostFiles,   \* host name -> what its file says
    hostgroups,  \* group name -> the members its file lists, {} once deleted
    reported,    \* the duplicate targets in the status of the charm
    overwritten  \* there were some, and another hook has set the status since

env == <<remote, members, alive>>
vars == <<remote, members, alive, dirty, failed, hostFiles, hostgroups, reported, overwritten>>

Blank == [target |-> NoTarget, model |-> NoModel, address |-> NoAddress,
          ingress |-> NoAddress, monitors |-> NoMonitors, machine |-> NoMachine]
-----------------------------------------------------------------------------
(***************************************************************************)
(* What one run of the hook reads.                                         *)
(***************************************************************************)
\* _prepare_relation_data: the 'nagios' relation gets a faked target and an
\* empty set of monitors; a missing address is the unit's ingress address.
Prepared(u, raw) ==
    [raw EXCEPT !.target = IF u \in Generic THEN GenericTarget[u] ELSE @,
                !.monitors = IF u \in Generic THEN NoServices ELSE @,
                !.address = IF @ = NoAddress THEN raw.ingress ELSE @]

\* Broken variant of Ready: monitors are not required.
Bug_ReadyWithoutMonitors(u) ==
    LET settings == Prepared(u, remote[u])
    IN settings.target # NoTarget /\ settings.address # NoAddress

\* Units that miss a required key are skipped.
Ready(u) == LET settings == Prepared(u, remote[u])
            IN /\ settings.target # NoTarget
               /\ settings.monitors # NoMonitors
               /\ settings.address # NoAddress

\* _collect_relation_data over the units us.
ViewOf(us) == [u \in {w \in us : Ready(w)} |-> Prepared(u, remote[u])]

View == ViewOf(members)

\* The unit of us whose settings are applied last.
Last(us) == CHOOSE u \in us : \A w \in us : Position[w] <= Position[u]

\* The targets are gone through in the order of their first unit, and the units
\* of one target in the order of the listing.
FirstPosition(view, t) ==
    LET us == {u \in DOMAIN view : view[u].target = t}
        first == CHOOSE u \in us : \A w \in us : Position[u] <= Position[w]
    IN Position[first]

Before(view, u, w) ==
    \/ FirstPosition(view, view[u].target) < FirstPosition(view, view[w].target)
    \/ view[u].target = view[w].target /\ Position[u] <= Position[w]

\* all_hosts: of the hosts on one machine of a model the last one is kept.
HostOfMachine(view, model, machine) ==
    LET us == {u \in DOMAIN view : view[u].model = model /\ view[u].machine = machine}
    IN IF us = {} THEN NoHost
       ELSE HostName(view, CHOOSE u \in us : \A w \in us : Before(view, w, u))

\* The host of the machine that a container runs on.
ParentHost(view, u) ==
    IF view[u].machine = NoMachine \/ ParentOf[view[u].machine] = NoMachine
    THEN NoHost
    ELSE HostOfMachine(view, view[u].model, ParentOf[view[u].machine])
-----------------------------------------------------------------------------
(***************************************************************************)
(* What one run of the hook writes.                                        *)
(***************************************************************************)
\* The file of host n, written from nothing: the settings of all the units of
\* that name are applied in turn, the parent only when there is one.
Written(view, n) ==
    LET us == {u \in DOMAIN view : HostName(view, u) = n}
        children == {u \in us : ParentHost(view, u) # NoHost}
    IN [address  |-> view[Last(us)].address,
        parents  |-> IF children = {} THEN NoHost
                     ELSE ParentHost(view, Last(children)),
        services |-> {view[u].monitors : u \in us} \ {NoServices}]

\* _get_minimal_related_config_paths: built from the name as it is, although
\* the files are named by its escaped form.
RelatedHost(raw, n) ==
    /\ raw.target # NoTarget
    /\ n.target = raw.target /\ n.target \notin Escaped
    /\ Matches(n.prefix, raw.model)

RelatedGroup(raw, g) ==
    /\ raw.target # NoTarget
    /\ AppOf[raw.target] # NoApp
    /\ g.app = AppOf[raw.target] /\ g.app \notin Escaped
    /\ Matches(g.prefix, raw.model)

Without(files, removed) == Restrict(files, DOMAIN files \ removed)

\* Broken variants of HostsUnrelatedTo and GroupsUnrelatedTo: only names with a prefix of
\* minimal length are removed, or none.
Bug_HostsNotShort(raw) ==
    Without(hostFiles, {n \in DOMAIN hostFiles :
                           RelatedHost(raw, n) /\ Len(n.prefix) <= HOST_PREFIX_MIN_LENGTH})
Bug_AllGroups(raw) == hostgroups

HostsUnrelatedTo(raw) ==
    Without(hostFiles, {n \in DOMAIN hostFiles : RelatedHost(raw, n)})
GroupsUnrelatedTo(raw) ==
    Without(hostgroups, {g \in DOMAIN hostgroups : RelatedGroup(raw, g)})

\* apply_relation_config: files that are there are skipped.
ApplyRelationConfig(view, files) ==
    [n \in DOMAIN files \cup Names(view) |->
        IF n \in DOMAIN files THEN files[n] ELSE Written(view, n)]

\* Monitors that do not parse raise, but only when their file is written.
RaisesOn(view, files) ==
    \E u \in DOMAIN view : /\ HostName(view, u) \notin DOMAIN files
                           /\ view[u].monitors = Malformed

\* Broken variant of CleanupLeftoverHosts: there is no cleanup.
Bug_KeepLeftoverHosts(view, files) == files

\* cleanup_leftover_hosts: remove the files that no unit asks for.
CleanupLeftoverHosts(view, files) == Without(files, DOMAIN files \ Names(view))

\* refresh_hostgroups: groups without hosts are deleted (pynag removes the
\* definition; it may leave the empty file, of which there is one per group in
\* emptied), groups with a file are skipped, the others are written.
WantedGroups(hosts) == {GroupOf(n) : n \in {h \in hosts : HasGroup(h)}}

HostsOfGroup(g, hosts) == {n \in hosts : HasGroup(n) /\ GroupOf(n) = g}

DeletedGroups(groups, hosts) ==
    {g \in DOMAIN groups : groups[g] # {}} \ WantedGroups(hosts)

RefreshHostgroups(groups, hosts, emptied) ==
    LET deleted == DeletedGroups(groups, hosts)
    IN [g \in (DOMAIN groups \ deleted) \cup emptied \cup WantedGroups(hosts) |->
           IF g \in deleted THEN {}
           ELSE IF g \in DOMAIN groups THEN groups[g]
           ELSE HostsOfGroup(g, hosts)]

\* main, from the related files that were removed on: view is what it read,
\* files and groups what it kept.
Regenerate(view, files, groups) ==
    /\ ~RaisesOn(view, files)
    /\ reported' = DuplicateTargets(view)
    /\ overwritten' = FALSE
    /\ hostFiles' = CleanupLeftoverHosts(view, ApplyRelationConfig(view, files))
    /\ \E emptied \in SUBSET DeletedGroups(groups, DOMAIN hostFiles') :
          hostgroups' = RefreshHostgroups(groups, DOMAIN hostFiles', emptied)

\* A run that raises has set the status and left the configuration alone.
Raise(view, files) ==
    /\ RaisesOn(view, files)
    /\ reported' = DuplicateTargets(view)
    /\ overwritten' = FALSE
    /\ UNCHANGED <<hostFiles, hostgroups>>
-----------------------------------------------------------------------------
(***************************************************************************)
(* The remote units and Juju.                                              *)
(***************************************************************************)
Join(u, s) ==
    /\ failed = NoHook
    /\ u \notin members
    /\ remote' = [remote EXCEPT ![u] = s]
    /\ members' = members \cup {u}
    /\ alive' = alive \cup {u}
    /\ dirty' = dirty \cup {u}
    /\ UNCHANGED <<failed, hostFiles, hostgroups, reported, overwritten>>

Publish(u, s) ==
    /\ u \in alive
    /\ remote[u] # s
    /\ remote' = [remote EXCEPT ![u] = s]
    /\ dirty' = dirty \cup {u}
    /\ UNCHANGED <<members, alive, failed, hostFiles, hostgroups, reported, overwritten>>

Leave(u) ==
    /\ u \in alive
    /\ alive' = alive \ {u}
    /\ UNCHANGED <<remote, members, dirty, failed, hostFiles, hostgroups, reported, overwritten>>

\* What charms that announce a target do: they keep it, and their model, for as long as
\* they are related.
KeepsIdentity ==
    \A u \in members \cap members' :
        remote[u].target # NoTarget => /\ remote'[u].target = remote[u].target
                                       /\ remote'[u].model = remote[u].model

\* A target with an application is announced by the units of one model only.
GroupsOfOneModel ==
    \A u, w \in members :
        /\ remote[u].target = remote[w].target
        /\ remote[u].target # NoTarget /\ AppOf[remote[u].target] # NoApp
        => remote[u].model = remote[w].model

\* Units whose hooks find the files that are named after them.
OwnFilesFound ==
    /\ Generic = {}
    /\ \A u \in Units : \A s \in Offers[u] :
          s.target # NoTarget => {s.target, AppOf[s.target]} \cap Escaped = {}

(***************************************************************************)
(* The hooks and the action of the charm.  A relation hook that raises is  *)
(* retried, with the data of that moment, before any other hook runs.      *)
(***************************************************************************)
RelationChanged(u) ==
    /\ u \in members
    /\ \/ failed = NoHook /\ u \in alive /\ u \in dirty
       \/ failed = <<"changed", u>>
    /\ \/ /\ Regenerate(View, HostsUnrelatedTo(remote[u]), GroupsUnrelatedTo(remote[u]))
          /\ failed' = NoHook
          /\ dirty' = dirty \ {u}
       \/ /\ Raise(View, HostsUnrelatedTo(remote[u]))
          /\ failed' = <<"changed", u>>
          /\ UNCHANGED dirty
    /\ UNCHANGED env

\* relation-list leaves the unit out from the start of this hook on.
RelationDeparted(u) ==
    /\ \/ failed = NoHook /\ u \in members \ alive
       \/ failed = <<"departed", u>>
    /\ members' = members \ {u}
    /\ dirty' = dirty \ {u}
    /\ LET view == ViewOf(members \ {u})
       IN \/ /\ Regenerate(view, HostsUnrelatedTo(remote[u]),
                                 GroupsUnrelatedTo(remote[u]))
             /\ failed' = NoHook
             /\ remote' = [remote EXCEPT ![u] = Blank]
          \/ /\ Raise(view, HostsUnrelatedTo(remote[u]))
             /\ failed' = <<"departed", u>>
             /\ UNCHANGED remote
    /\ UNCHANGED alive

\* config-changed runs the same script without a remote unit, so that nothing
\* is held to be related, and does not look at its exit status.
ConfigChanged ==
    /\ failed = NoHook
    /\ \/ Regenerate(View, HostsUnrelatedTo(Blank), GroupsUnrelatedTo(Blank))
       \/ Raise(View, HostsUnrelatedTo(Blank))
    /\ UNCHANGED <<remote, members, alive, dirty, failed>>

\* update-status sets the status by what systemd says of nagios, over whatever is there; the
\* start hook and a config-changed that exits before it runs the script set it, too.
UpdateStatus ==
    /\ failed = NoHook
    /\ reported' = {}
    /\ overwritten' = (overwritten \/ reported # {})
    /\ UNCHANGED <<env, dirty, failed, hostFiles, hostgroups>>

\* The rewrite-peer-config action removes every generated file first; Juju runs
\* actions while a hook is waiting to be retried, too.
RewritePeerConfig ==
    /\ \/ Regenerate(View, << >>, << >>)
       \/ Raise(View, << >>)
    /\ UNCHANGED <<remote, members, alive, dirty, failed>>
-----------------------------------------------------------------------------
Init ==
    /\ remote = [u \in Units |-> Blank]
    /\ members = {} /\ alive = {} /\ dirty = {}
    /\ failed = NoHook
    /\ hostFiles = << >> /\ hostgroups = << >>
    /\ reported = {} /\ overwritten = FALSE

Environment ==
    \E u \in Units : \/ Leave(u)
                     \/ \E s \in Offers[u] : Join(u, s) \/ Publish(u, s)

RelationHook == \E u \in Units : RelationChanged(u) \/ RelationDeparted(u)

Next == Environment \/ RelationHook \/ ConfigChanged \/ UpdateStatus \/ RewritePeerConfig

Spec == Init /\ [][Next]_vars

\* Juju runs the hooks that are due, one at a time and in no promised order.
FairSpec == Spec /\ WF_vars(RelationHook)
-----------------------------------------------------------------------------
(***************************************************************************)
(* Properties.                                                             *)
(***************************************************************************)
TypeOK ==
    /\ remote \in [Units -> Settings]
    /\ alive \subseteq members /\ members \subseteq Units /\ dirty \subseteq members
    /\ failed \in ({"changed", "departed"} \X Units) \cup {NoHook}
    /\ DOMAIN hostFiles \subseteq HostNames
    /\ \A n \in DOMAIN hostFiles :
          hostFiles[n] \in [address : Addresses,
                            parents : HostNames \cup {NoHost},
                            services : SUBSET Monitors]
    /\ DOMAIN hostgroups \subseteq GroupNames
    /\ \A g \in DOMAIN hostgroups : hostgroups[g] \subseteq HostNames
    /\ reported \subseteq Targets /\ overwritten \in BOOLEAN

\* No relation hook is due: Juju has told the charm everything there is to tell
\* about the data of its members.
NothingDue == failed = NoHook /\ dirty = {}

\* Whenever no hook is due there is a host file for every name the units ask for
\* and no other: no unit goes unmonitored and cleanup_leftover_hosts leaves
\* nothing behind, whatever renaming the hooks of other units brought about.
HostFilesFollowRelations == NothingDue => DOMAIN hostFiles = Names(View)

\* Two units come under one nagios host only when they announce one target from
\* one model: the prefixes of compute_host_prefixes tell the models apart.
NamesTellModelsApart ==
    \A u, w \in DOMAIN View :
        HostName(View, u) = HostName(View, w) =>
            View[u].target = View[w].target /\ View[u].model = View[w].model

\* A unit whose hook is due and whose name, prefixed or not, may be n.
DueFor(n) == {u \in dirty : RelatedHost(remote[u], n)}

\* A file says what its units have published last, unless the hook of one of
\* them is still due: a file that is skipped as unrelated is up to date.
ContentsFollowRelations ==
    failed = NoHook =>
        \A n \in DOMAIN hostFiles \cap Names(View) :
            DueFor(n) = {} =>
                /\ hostFiles[n].address = Written(View, n).address
                /\ hostFiles[n].services = Written(View, n).services

\* A group file that no due hook relates to lists exactly the hosts of its group:
\* what refresh_hostgroups promises, "removing any old hosts".
GroupsFollowHosts ==
    failed = NoHook =>
        \A g \in DOMAIN hostgroups \cup WantedGroups(DOMAIN hostFiles) :
            (\A u \in dirty : ~RelatedGroup(remote[u], g)) =>
                /\ g \in DOMAIN hostgroups
                /\ hostgroups[g] = HostsOfGroup(g, DOMAIN hostFiles)

\* A group file never lists a host that has no file of its own when no hook is
\* due: refresh_hostgroups is documented as "removing any old hosts".
NoOldHosts ==
    NothingDue => \A g \in DOMAIN hostgroups : hostgroups[g] \subseteq DOMAIN hostFiles

\* When no hook is due, the status names exactly the targets that are monitored under a
\* prefixed name, or none because another hook has overwritten it.
StatusMatchesFiles ==
    NothingDue =>
        \/ reported = {n.target : n \in {h \in DOMAIN hostFiles : h.prefix # << >>}}
        \/ overwritten /\ reported = {}

\* Once the units stay quiet and publish nothing malformed, the charm comes to
\* rest with exactly the host files the units ask for: no hook is lost, and one
\* that failed on malformed monitors gets through when they have been repaired.
Settled == /\ NothingDue
           /\ alive = members
           /\ DOMAIN hostFiles = Names(View)

NothingMalformed == \A u \in members : remote[u].monitors # Malformed

ComesToRest ==
    (<>[][~Environment]_vars /\ <>[]NothingMalformed) => <>[]Settled
=============================================================================
