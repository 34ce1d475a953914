------------------------ MODULE ConfigChangedProofs ------------------------
(***************************************************************************)
(* What a run of the config-changed script leaves behind, for all          *)
(* configurations, numbers of changes and of runs that are cut off.        *)
(***************************************************************************)
EXTENDS ConfigChanged, FiniteSetTheorems, TLAPS

\* The functions that come after others in the script.
Settling == {"ropassword", "xinetd", "dashboard", "password", "admin", "livestatus",
             "socket", "monitors", "idle"}
AfterApache == Settling \cup {"notification", "cgi", "contacts again"}
AfterContacts == AfterApache \cup {"config", "apache"}
AfterPagerduty == AfterContacts \cup {"commands", "contacts"}
AfterTraps == AfterPagerduty \cup {"ssl", "cert", "chain", "pagerduty"}
Stages == AfterTraps \cup {"extra", "traps", "failed"}

Ran == o # NoOptions

\* The records have their fields, and a run has options to work with.
Shape ==
    /\ DOMAIN conf = {"extra", "traps", "pagerduty", "cron", "limiter", "contacts", "members",
                      "broker", "interval", "notify", "cgi"}
    /\ DOMAIN pem = {"key", "cert", "chain", "torn"}
    /\ DOMAIN livestatus = {"package", "socket", "xinetd"}
    /\ wanted \in Options
    /\ o \in Options \cup {NoOptions}
    /\ pc \in Stages
    /\ pc \notin {"idle", "failed"} => o \in Options

LEMMA ShapeInit == Init => Shape
BY DEF Init, Shape, WebInit, Fresh, Stages, AfterTraps, AfterPagerduty, AfterContacts,
       AfterApache, Settling

LEMMA ShapeNext == Shape /\ [Next]_vars => Shape'
<1> SUFFICES ASSUME Shape, [Next]_vars PROVE Shape'
    OBVIOUS
<1> USE DEF Shape, At, webVars, Stages, AfterTraps, AfterPagerduty, AfterContacts,
            AfterApache, Settling
<1>1. CASE Begin
    BY <1>1 DEF Begin
<1>2. CASE write_extra_config \/ enable_traps_config \/ enable_pagerduty_config
    BY <1>2 DEF write_extra_config, enable_traps_config, enable_pagerduty_config
<1>3. CASE EnableSsl \/ DecodeSslKeys
    BY <1>3 DEF EnableSsl, DecodeSslKeys, generate_selfsigned, SelfsignedFails, decode_key,
                decode_cert, decode_chain
<1>4. CASE DecodeFails
    BY <1>4 DEF DecodeFails, Spoil
<1>5. CASE update_commands \/ update_contacts \/ ContactsFail \/ update_config
    BY <1>5 DEF update_commands, update_contacts, ContactsFail, update_config
<1>6. CASE UpdateApache \/ UpdateNotification \/ update_cgi_config
    BY <1>6 DEF UpdateApache, UpdateNotification, update_cgi_config
<1>7. CASE UpdatePassword \/ Skip \/ configure_livestatus_xinetd \/ Dashboard
    BY <1>7 DEF UpdatePassword, Skip, configure_livestatus_xinetd, Dashboard
<1>8. CASE LivestatusPackage \/ LivestatusSocket \/ MonitorsRelationChanged \/ CutOff
    BY <1>8 DEF LivestatusPackage, LivestatusSocket, MonitorsRelationChanged, CutOff
<1>9. CASE Change \/ UpdateStatus \/ NagiosStarts \/ Website \/ UNCHANGED vars
    BY <1>9 DEF Change, UpdateStatus, NagiosStarts, Website, vars
<1> QED BY <1>1, <1>2, <1>3, <1>4, <1>5, <1>6, <1>7, <1>8, <1>9 DEF Next, Script
-----------------------------------------------------------------------------
(***************************************************************************)
(* The files of nagios.                                                    *)
(***************************************************************************)
\* The contact that an option adds to the members, unless they mention it.
Added(name, on) == IF on /\ ~Mentioned(name) THEN {name} ELSE {}

\* What has been written since the script began, and who is to be added to the members.
Written ==
    /\ pc \in AfterTraps \cup {"traps"} => conf.extra = o.extraconfig
    /\ pc \in AfterTraps => conf.traps = o.traps
    /\ pc \in AfterPagerduty => conf.pagerduty = o.pagerduty /\ conf.cron = o.pagerduty
    /\ pc \in AfterContacts => /\ o.admins # {}
                              /\ conf.contacts = Contacts \cup o.extra
                              /\ conf.members = resulting_members \cup o.extra
    /\ pc \in AfterApache \cup {"apache"} => conf.broker = o.livestatus

Forcing ==
    /\ pc \in {"extra", "traps"} => forced = {}
    /\ pc \in {"ssl", "cert", "chain", "pagerduty"} => forced = Added("managementstation", o.traps)
    /\ pc \in AfterPagerduty => forced = Added("managementstation", o.traps)
                                         \cup Added("pagerduty", o.pagerduty)

LEMMA WrittenNext ==
    Shape /\ (Ran => Written /\ Forcing) /\ [Next]_vars => (Ran => Written /\ Forcing)'
<1> SUFFICES ASSUME Shape, Ran => Written /\ Forcing, [Next]_vars, Ran'
             PROVE  Written' /\ Forcing'
    OBVIOUS
<1> USE DEF Shape, Ran, Written, Forcing, At, Stages, AfterTraps, AfterPagerduty,
            AfterContacts, AfterApache, Settling
<1>0. ASSUME o' = o
      PROVE  /\ Contacts' = Contacts /\ (forced' = forced => resulting_members' = resulting_members)
             /\ \A on : /\ Added("pagerduty", on)' = Added("pagerduty", on)
                       /\ Added("managementstation", on)' = Added("managementstation", on)
    BY <1>0 DEF Added, Mentioned, Contacts, resulting_members, AdminNames
<1>1. CASE Begin
    BY <1>1 DEF Begin
<1>2. CASE write_extra_config
    BY <1>2 DEF write_extra_config
<1>3. CASE enable_traps_config
    <2>1. /\ pc = "traps" /\ pc' = "ssl" /\ o' = o
          /\ conf' = [conf EXCEPT !.traps = o.traps]
          /\ forced' = IF o.traps THEN AddForced("managementstation") ELSE forced
        BY <1>3 DEF enable_traps_config
    <2>2. conf'.extra = o.extraconfig /\ conf'.traps = o.traps
        BY <2>1
    <2>3. forced' = Added("managementstation", o.traps)
        BY <2>1 DEF AddForced, Added
    <2> QED BY <1>0, <2>1, <2>2, <2>3
<1>4. CASE enable_pagerduty_config
    <2>1. /\ pc = "pagerduty" /\ pc' = "commands" /\ o' = o
          /\ conf' = [conf EXCEPT !.pagerduty = o.pagerduty, !.cron = o.pagerduty]
          /\ forced' = IF o.pagerduty THEN AddForced("pagerduty") ELSE forced
        BY <1>4 DEF enable_pagerduty_config
    <2>2. /\ conf'.extra = o.extraconfig /\ conf'.traps = o.traps
          /\ conf'.pagerduty = o.pagerduty /\ conf'.cron = o.pagerduty
        BY <2>1
    <2>3. forced' = Added("managementstation", o.traps) \cup Added("pagerduty", o.pagerduty)
        BY <2>1 DEF AddForced, Added
    <2> QED BY <1>0, <2>1, <2>2, <2>3
<1>5. CASE update_commands \/ UpdateNotification \/ update_cgi_config
    BY <1>5 DEF update_commands, UpdateNotification, update_cgi_config, Added, Mentioned,
                Contacts, resulting_members, AdminNames
<1>6. CASE update_contacts
    BY <1>6 DEF update_contacts, Added, Mentioned, Contacts, resulting_members, AdminNames
<1>7. CASE update_config
    BY <1>7 DEF update_config, Added, Mentioned, Contacts, resulting_members, AdminNames
<1>8. CASE EnableSsl \/ DecodeSslKeys
    <2>1. UNCHANGED <<o, conf, forced>> /\ pc \in {"ssl", "cert", "chain"}
        BY <1>8 DEF EnableSsl, DecodeSslKeys
    <2>2. pc' \in {"cert", "chain", "pagerduty"}
        BY <1>8 DEF EnableSsl, DecodeSslKeys
    <2> QED BY <1>0, <2>1, <2>2
<1>9. CASE \/ UpdateApache \/ UpdatePassword \/ Skip \/ Dashboard
           \/ configure_livestatus_xinetd \/ LivestatusPackage \/ LivestatusSocket
           \/ MonitorsRelationChanged
    <2>1. UNCHANGED <<o, conf, forced>>
        BY <1>9 DEF UpdateApache, UpdatePassword, Skip, Dashboard,
               configure_livestatus_xinetd, LivestatusPackage, LivestatusSocket,
               MonitorsRelationChanged
    <2>2. \/ pc = "apache" /\ pc' = "notification"
          \/ pc \in Settling /\ pc' \in Settling \cup {"failed"}
        BY <1>9 DEF UpdateApache, UpdatePassword, Skip, Dashboard,
               configure_livestatus_xinetd, LivestatusPackage, LivestatusSocket,
               MonitorsRelationChanged
    <2> QED BY <1>0, <2>1, <2>2
<1>10. CASE DecodeFails \/ ContactsFail \/ CutOff
    BY <1>10 DEF DecodeFails, ContactsFail, CutOff
<1>11. CASE Change \/ UpdateStatus \/ NagiosStarts \/ Website \/ UNCHANGED vars
    BY <1>11 DEF Change, UpdateStatus, NagiosStarts, Website, vars, Added, Mentioned, Contacts,
                 resulting_members, AdminNames
<1> QED BY <1>1, <1>2, <1>3, <1>4, <1>5, <1>6, <1>7, <1>8, <1>9, <1>10, <1>11 DEF Next, Script

\* Contacts of the operator's that are not named like those the charm adds.
NamesFree ==
    \A w \in Options :
        /\ w.extra \cap Forceable = {}
        /\ w.members \cap Forceable \subseteq DOMAIN Within
        /\ \A e \in w.admins : NameOf[e] \notin Forceable

IInv == Shape /\ (Ran => Written /\ Forcing)

LEMMA IInvHolds == Spec => []IInv
<1>1. Init => IInv
    BY ShapeInit DEF Init, IInv, Ran
<1>2. IInv /\ [Next]_vars => IInv'
    BY ShapeNext, WrittenNext DEF IInv
<1> QED BY <1>1, <1>2, PTL DEF Spec

\* After every run that ends well the files of nagios follow the options of that run,
\* whatever was on disk before it.
THEOREM FilesFollow ==
    ASSUME NamesFree
    PROVE  Spec => []FilesFollowOptions
<1>1. ASSUME IInv, Settled PROVE FilesFollowOptions
    <2>1. /\ conf.extra = o.extraconfig /\ conf.traps = o.traps
          /\ conf.pagerduty = o.pagerduty /\ conf.cron = o.pagerduty
          /\ conf.broker = o.livestatus
          /\ conf.members = resulting_members \cup o.extra
          /\ forced = Added("managementstation", o.traps) \cup Added("pagerduty", o.pagerduty)
          /\ o \in Options
        BY <1>1 DEF IInv, Settled, Ran, Shape, Written, Forcing, AfterTraps, AfterPagerduty,
                    AfterContacts, AfterApache, Settling
    <2>2. forced \subseteq Forceable
        BY <2>1 DEF Added, Forceable
    <2>3. o.extra \cap Forceable = {} /\ AdminNames \cap Forceable = {}
        BY <2>1 DEF NamesFree, AdminNames
    <2>4. Cardinality(o.admins) = 1 =>
             conf.members \ Forceable = (o.members \cup o.extra) \ Forceable
        BY <2>1, <2>2 DEF resulting_members
    <2>5. Cardinality(o.admins) > 1 => conf.members \ Forceable = AdminNames \cup o.extra
        BY <2>1, <2>2, <2>3 DEF resulting_members
    <2>6. ASSUME NEW name \in Forceable, ~Mentioned(name)
          PROVE  name \in conf.members <=> name \in forced
        <3>1. name \in o.members => name \in DOMAIN Within
            BY <2>1, <2>6, Zenon DEF NamesFree
        <3>2. name \in DOMAIN Within => name \in Within[name]
            BY OptionAssumption
        <3>3. name \notin o.members
            BY <2>6, <3>1, <3>2 DEF Mentioned
        <3> QED BY <2>1, <2>3, <2>6, <3>3 DEF resulting_members
    <2>7. Mentioned("pagerduty") \/ (o.pagerduty <=> "pagerduty" \in conf.members)
        BY <2>1, <2>6 DEF Forceable, Added
    <2>8. Mentioned("managementstation") \/ (o.traps <=> "managementstation" \in conf.members)
        BY <2>1, <2>6 DEF Forceable, Added
    <2> QED BY <2>1, <2>4, <2>5, <2>7, <2>8 DEF FilesFollowOptions
<1>2. IInv => FilesFollowOptions
    BY <1>1 DEF FilesFollowOptions
<1> QED BY <1>2, IInvHolds, PTL
-----------------------------------------------------------------------------
(***************************************************************************)
(* What nagios has loaded.                                                 *)
(***************************************************************************)
\* From the last writing of the contacts on nothing is written that nagios is not told of,
\* but for the module of livestatus, of which it is told where it makes the socket.
Loading ==
    /\ livestatus.socket \/ HasModule(loaded) => livestatus.package
    /\ Ran /\ pc \in Settling => \/ told = Objects(conf, livestatus)
                                 \/ pc = "socket" /\ ~livestatus.socket /\ ~HasModule(loaded)
    /\ Ran /\ pc \in {"monitors", "idle"} => (o.livestatus => livestatus.package)
    /\ ~missed /\ Fits(told) => loaded = told

\* What a signal leaves.
LEMMA SignalFacts ==
    ASSUME HasModule(loaded) => livestatus.package,
           livestatus.package => livestatus'.package,
           NEW caught \in BOOLEAN, Signal(caught)
    PROVE  /\ told' = Objects(conf, livestatus)'
           /\ HasModule(loaded)' => livestatus'.package
           /\ ~missed' /\ Fits(told)' => loaded' = told'
<1>1. told' = Objects(conf', livestatus') /\ missed' = ~caught
    BY DEF Signal
<1>2. /\ told'.module <=> conf'.broker
      /\ told'.missing <=> conf'.broker /\ ~livestatus'.package
    BY <1>1 DEF Objects
<1>3. CASE loaded' = loaded /\ ~(~missed' /\ Fits(told)')
    BY <1>1, <1>3 DEF HasModule, Objects
<1>4. CASE loaded' = told' /\ Fits(told')
    BY <1>1, <1>2, <1>4 DEF HasModule, Objects, Fits
<1>5. CASE loaded' = NotRunning /\ ~Fits(told')
    BY <1>1, <1>5 DEF HasModule, Objects, Fits
<1> QED BY <1>1, <1>3, <1>4, <1>5 DEF Signal, Fits

LEMMA ReloadFacts ==
    ASSUME HasModule(loaded) => livestatus.package,
           livestatus.package => livestatus'.package, Reload
    PROVE  /\ told' = Objects(conf, livestatus)'
           /\ HasModule(loaded)' => livestatus'.package
           /\ ~missed' /\ Fits(told)' => loaded' = told'
BY SignalFacts DEF Reload

\* A step that neither signals nor writes what nagios loads.
LEMMA LoadingStays ==
    ASSUME Loading, UNCHANGED <<o, conf, nagios>>,
           livestatus'.package = livestatus.package, livestatus'.socket = livestatus.socket,
           \/ pc' \notin Settling
           \/ pc' = pc
           \/ pc \in Settling \ {"socket"} /\ pc' \in Settling
              /\ (pc' \in {"monitors", "idle"} => pc = "monitors" \/ ~o.livestatus)
    PROVE  Loading'
<1>1. Objects(conf, livestatus)' = Objects(conf, livestatus) /\ HasModule(loaded)' = HasModule(loaded)
    BY DEF Objects, HasModule, nagios
<1>2. Fits(told)' = Fits(told)
    BY DEF Fits, nagios
<1> QED BY <1>1, <1>2 DEF Loading, Ran, nagios, Settling

\* A step that tells nagios of everything.
LEMMA LoadingAnew ==
    ASSUME Loading, Reload, o' = o, livestatus' = livestatus,
           pc' \in {"monitors", "idle"} => pc = "monitors"
    PROVE  Loading'
<1>1. /\ told' = Objects(conf, livestatus)'
      /\ HasModule(loaded)' => livestatus'.package
      /\ ~missed' /\ Fits(told)' => loaded' = told'
    BY ReloadFacts DEF Loading
<1> QED BY <1>1 DEF Loading, Ran

LEMMA LoadingNext == Shape /\ Loading /\ [Next]_vars => Loading'
<1> SUFFICES ASSUME Shape, Loading, [Next]_vars PROVE Loading'
    OBVIOUS
<1> USE DEF At, webVars
<1>1. CASE Begin
    <2>1. pc' = "extra" /\ UNCHANGED <<conf, nagios, livestatus>>
        BY <1>1 DEF Begin
    <2> QED BY <2>1 DEF Loading, Settling, HasModule, Fits, nagios
<1>2. CASE write_extra_config \/ enable_traps_config \/ enable_pagerduty_config
              \/ UpdateNotification
    <2>1. pc' \notin Settling /\ UNCHANGED <<nagios, livestatus>>
        BY <1>2 DEF write_extra_config, enable_traps_config, enable_pagerduty_config,
               UpdateNotification, Settling
    <2> QED BY <2>1 DEF Loading, Settling, HasModule, Fits, nagios
<1>3. CASE update_commands \/ update_contacts \/ update_config \/ update_cgi_config
    <2>1. Reload /\ UNCHANGED <<o, livestatus>> /\ pc' \notin {"monitors", "idle"}
        BY <1>3 DEF update_commands, update_contacts, update_config, update_cgi_config
    <2> QED BY <2>1, LoadingAnew
<1>4. CASE \/ EnableSsl \/ DecodeSslKeys \/ DecodeFails \/ UpdateApache
           \/ ContactsFail \/ CutOff
    <2>1. pc' \notin Settling /\ UNCHANGED <<o, conf, nagios, livestatus>>
        BY <1>4 DEF EnableSsl, DecodeSslKeys, DecodeFails, UpdateApache, ContactsFail, CutOff,
               Settling
    <2> QED BY <2>1, LoadingStays
<1>5. CASE UpdatePassword \/ Skip \/ Dashboard
    <2>1. UNCHANGED <<o, conf, nagios, livestatus>>
        BY <1>5 DEF UpdatePassword, Skip, Dashboard
    <2>2. /\ pc \in Settling \ {"socket"} /\ pc' \in Settling
          /\ pc' \in {"monitors", "idle"} => ~o.livestatus
        BY <1>5 DEF UpdatePassword, Skip, Dashboard, Settling
    <2> QED BY <2>1, <2>2, LoadingStays
<1>6. CASE configure_livestatus_xinetd
    <2>1. /\ livestatus'.package = livestatus.package
          /\ livestatus'.socket = livestatus.socket
          /\ pc = "xinetd" /\ pc' = "dashboard" /\ UNCHANGED <<o, conf, nagios>>
        BY <1>6 DEF configure_livestatus_xinetd, Shape
    <2> QED BY <2>1, LoadingStays DEF Settling
<1>7. CASE LivestatusPackage
    <2>1. /\ pc = "livestatus" /\ pc' = "socket" /\ UNCHANGED <<o, conf, nagios>>
          /\ livestatus'.socket = livestatus.socket
          /\ livestatus'.package = livestatus.package \/ (livestatus'.package /\ ~livestatus.package)
        BY <1>7 DEF LivestatusPackage, Shape
    <2>2. CASE livestatus'.package = livestatus.package
        BY <2>1, <2>2, LoadingStays DEF Settling
    <2>3. CASE livestatus'.package /\ ~livestatus.package
        BY <2>1, <2>3 DEF Loading, Settling, HasModule, Fits, nagios
    <2> QED BY <2>1, <2>2, <2>3
<1>8. CASE LivestatusSocket
    <2>1. /\ pc = "socket" /\ UNCHANGED <<o, conf>>
          /\ livestatus'.package = livestatus.package
          /\ pc' = IF livestatus'.socket THEN "monitors" ELSE "failed"
        BY <1>8 DEF LivestatusSocket, Shape
    <2>2. CASE (livestatus.socket \/ HasModule(loaded)) /\ UNCHANGED nagios
        <3>1. livestatus.package /\ Objects(conf, livestatus)' = Objects(conf, livestatus)
            BY <2>1, <2>2 DEF Loading, Objects
        <3>2. Ran' => told = Objects(conf, livestatus)
            BY <2>1, <2>2 DEF Loading, Settling, Ran
        <3> QED BY <2>1, <2>2, <3>1, <3>2 DEF Loading, HasModule, Fits, nagios
    <2>3. CASE ~livestatus.socket /\ (Reload \/ Signal(TRUE))
        <3>1. /\ told' = Objects(conf, livestatus)'
              /\ HasModule(loaded)' => livestatus'.package
              /\ ~missed' /\ Fits(told)' => loaded' = told'
            BY <2>1, <2>3, ReloadFacts, SignalFacts DEF Loading
        <3>2. livestatus'.socket => livestatus'.package
            BY <1>8, <2>1, <2>3, <3>1 DEF LivestatusSocket, Shape, Loading, HasModule
        <3> QED BY <2>1, <3>1, <3>2 DEF Loading
    <2> QED BY <1>8, <2>2, <2>3 DEF LivestatusSocket
<1>9. CASE MonitorsRelationChanged
    <2>1. pc = "monitors" /\ pc' = "idle" /\ UNCHANGED <<o, conf, livestatus>>
        BY <1>9 DEF MonitorsRelationChanged
    <2>2. UNCHANGED nagios \/ Reload
        BY <1>9 DEF MonitorsRelationChanged
    <2> QED BY <2>1, <2>2, LoadingStays, LoadingAnew DEF Settling
<1>10. CASE Change \/ UpdateStatus \/ Website \/ UNCHANGED vars
    <2>1. UNCHANGED <<o, pc, conf, nagios, livestatus>>
        BY <1>10 DEF Change, UpdateStatus, Website, vars
    <2> QED BY <2>1, LoadingStays
<1>11. CASE NagiosStarts
    <2>0. UNCHANGED <<o, pc, conf, livestatus>>
        BY <1>11 DEF NagiosStarts
    <2> SUFFICES ASSUME ~UNCHANGED nagios PROVE Loading'
        BY <2>0, LoadingStays
    <2>1. /\ UNCHANGED <<o, pc, conf, livestatus>>
          /\ loaded' = Objects(conf, livestatus) /\ Fits(loaded') /\ told' = loaded'
        BY <1>11 DEF NagiosStarts
    <2>2. Objects(conf, livestatus)' = Objects(conf, livestatus)
        BY <2>1 DEF Objects
    <2>3. HasModule(loaded)' => livestatus.package
        BY <2>1 DEF HasModule, Objects, Fits
    <2> QED BY <2>1, <2>2, <2>3 DEF Loading, Ran
<1> QED BY <1>1, <1>2, <1>3, <1>4, <1>5, <1>6, <1>7, <1>8, <1>9, <1>10, <1>11 DEF Next, Script

\* With one administrator the operator's members are contacts that exist: root, whom the
\* charm defines, or extra ones.
MembersKnown == \A w \in Options :
                   Cardinality(w.admins) = 1 => w.members \subseteq {"root"} \cup w.extra

\* A member of the group is a contact that update_contacts defines, or a forced one.
LEMMA MembersOf ==
    ASSUME MembersKnown, o \in Options, o.admins # {}
    PROVE  resulting_members \cup o.extra \subseteq Contacts \cup o.extra \cup forced
<1>1. CASE Cardinality(o.admins) = 1
    BY <1>1 DEF resulting_members, Contacts, MembersKnown
<1>2. CASE Cardinality(o.admins) # 1
    <2>1. Cardinality(o.admins) \in Nat /\ Cardinality(o.admins) # 0
        BY OptionAssumption, FS_CardinalityType, FS_EmptySet
    <2>2. Cardinality(o.admins) > 1
        BY <1>2, <2>1
    <2> QED BY <1>2, <2>2 DEF resulting_members, Contacts
<1> QED BY <1>1, <1>2

\* After every run that ends well nagios was told of what is on disk, it fits together, and
\* nagios works with it if it caught a signal.
THEOREM LoadsAll ==
    ASSUME MembersKnown
    PROVE  Spec => []LoadedIsWhole
<1>1. Init => Loading
    BY DEF Init, Loading, Ran, Fresh, HasModule, Objects
<1>2. ASSUME IInv, Loading, Settled PROVE LoadedIsWhole
    <2>1. /\ conf.pagerduty = o.pagerduty /\ conf.traps = o.traps /\ conf.broker = o.livestatus
          /\ conf.contacts = Contacts \cup o.extra
          /\ conf.members = resulting_members \cup o.extra
          /\ forced = Added("managementstation", o.traps) \cup Added("pagerduty", o.pagerduty)
          /\ o \in Options /\ o.admins # {}
        BY <1>2 DEF IInv, Settled, Ran, Shape, Written, Forcing, AfterTraps, AfterPagerduty,
                    AfterContacts, AfterApache, Settling
    <2>2. told = Objects(conf, livestatus) /\ (o.livestatus => livestatus.package)
        BY <1>2 DEF Loading, Settled, Ran, Settling
    <2>3. /\ told.members = conf.members
          /\ told.defined = conf.contacts \cup (IF o.pagerduty THEN {"pagerduty"} ELSE {})
                                          \cup (IF o.traps THEN {"managementstation"} ELSE {})
          /\ told.missing <=> (conf.broker /\ ~livestatus.package)
        BY <2>1, <2>2 DEF Objects
    <2>4. ~told.missing
        BY <2>1, <2>2, <2>3
    <2>5. forced \subseteq told.defined
        BY <2>1, <2>3 DEF Added
    <2>6. told.members \subseteq told.defined
        BY <2>1, <2>3, <2>5, MembersOf
    <2>7. Fits(told)
        BY <2>4, <2>6 DEF Fits
    <2> QED BY <1>2, <2>2, <2>7 DEF LoadedIsWhole, Loading
<1>3. IInv /\ Loading => LoadedIsWhole
    BY <1>2 DEF LoadedIsWhole
<1>4. IInv /\ Loading /\ [Next]_vars => Loading'
    BY LoadingNext DEF IInv
<1> QED BY <1>1, <1>3, <1>4, IInvHolds, PTL DEF Spec

\* Even between runs, and wherever a run was cut off, the only members of the group that
\* may be undefined are those of PagerDuty and of traps.
Known == conf.members \ conf.contacts \subseteq Forceable

LEMMA KnownNext ==
    ASSUME MembersKnown, IInv, Known, [Next]_vars
    PROVE  Known'
<1>1. CASE update_contacts
    <2>1. /\ o \in Options /\ o.admins # {} /\ o # NoOptions
          /\ pc \in {"contacts", "contacts again"}
        BY <1>1, OptionAssumption DEF update_contacts, IInv, Shape, At
    <2>2. forced \subseteq Forceable
        BY <2>1 DEF IInv, Ran, Forcing, Added, Forceable, AfterPagerduty, AfterContacts,
                    AfterApache
    <2>3. /\ conf'.contacts = Contacts \cup o.extra
          /\ conf'.members = resulting_members \cup o.extra
        BY <1>1 DEF update_contacts, IInv, Shape
    <2> QED BY <2>1, <2>2, <2>3, MembersOf DEF Known
<1>2. CASE ~update_contacts
    <2>1. conf'.members = conf.members /\ conf'.contacts = conf.contacts
        BY <1>2 DEF IInv, Shape, webVars,
               Next, Script, Begin, write_extra_config, enable_traps_config, EnableSsl,
               DecodeSslKeys, DecodeFails, enable_pagerduty_config, update_commands, ContactsFail, update_config,
               UpdateApache, UpdateNotification, update_cgi_config, UpdatePassword, Skip,
               configure_livestatus_xinetd, Dashboard, LivestatusPackage,
               LivestatusSocket, MonitorsRelationChanged, CutOff, Change, UpdateStatus,
               NagiosStarts, Website, vars
    <2> QED BY <2>1 DEF Known
<1> QED BY <1>1, <1>2

\* Whatever nagios is told to load fits together, but for the contacts of a PagerDuty or
\* of traps just disabled, and for livestatus before its package is installed.
THEOREM FitsOrInBetween ==
    ASSUME MembersKnown
    PROVE  Spec => UnfitOnlyInBetween
<1> DEFINE Whole == told'.members \subseteq told'.defined
           Excused == \A c \in told'.members \ told'.defined :
                        c \in Forceable /\ ~(IF c = "pagerduty" THEN o.pagerduty ELSE o.traps)
           Installed == told'.missing => pc' \notin {"monitors", "idle"}
<1>1. ASSUME IInv, Loading, Known, [Next]_vars, told' # told
      PROVE  Excused /\ (Whole \/ pc = "commands") /\ Installed
    <2>0. CASE NagiosStarts
        BY <1>1, <2>0 DEF NagiosStarts, nagios, Fits
    <2> SUFFICES ASSUME ~NagiosStarts PROVE Excused /\ (Whole \/ pc = "commands") /\ Installed
        BY <2>0
    <2>1. \/ update_commands \/ update_contacts \/ update_config \/ update_cgi_config
          \/ LivestatusSocket \/ MonitorsRelationChanged
        BY <1>1 DEF webVars, nagios,
               Next, Script, Begin, write_extra_config, enable_traps_config, EnableSsl,
               DecodeSslKeys, DecodeFails, enable_pagerduty_config, ContactsFail,
               UpdateApache, UpdateNotification, UpdatePassword, Skip,
               configure_livestatus_xinetd, Dashboard, LivestatusPackage, CutOff, Change,
               UpdateStatus, Website, vars
    <2>2. /\ pc \in {"commands", "contacts", "contacts again", "config", "cgi", "socket",
                     "monitors"}
          /\ told' = Objects(conf', livestatus')
        BY <1>1, <2>1 DEF update_commands, update_contacts, update_config, update_cgi_config,
               LivestatusSocket, MonitorsRelationChanged, Reload, Signal, nagios, At
    <2>3. /\ told'.members = conf'.members
          /\ told'.defined = conf'.contacts
                 \cup (IF conf'.pagerduty THEN {"pagerduty"} ELSE {})
                 \cup (IF conf'.traps THEN {"managementstation"} ELSE {})
          /\ told'.missing <=> (conf'.broker /\ ~livestatus'.package)
        BY <2>2 DEF Objects
    <2>4. /\ o \in Options /\ Ran
          /\ conf.pagerduty = o.pagerduty /\ conf.traps = o.traps
          /\ forced = Added("managementstation", o.traps) \cup Added("pagerduty", o.pagerduty)
        BY <1>1, <2>2, OptionAssumption
           DEF IInv, Shape, Ran, Written, Forcing, AfterTraps, AfterPagerduty, AfterContacts,
               AfterApache, Settling
    <2>5. conf'.pagerduty = o.pagerduty /\ conf'.traps = o.traps
        BY <1>1, <2>1, <2>4 DEF IInv, Shape, update_commands, update_contacts, update_config,
               update_cgi_config, LivestatusSocket, MonitorsRelationChanged
    <2>6. forced \subseteq (IF o.pagerduty THEN {"pagerduty"} ELSE {})
                          \cup (IF o.traps THEN {"managementstation"} ELSE {})
        BY <2>4 DEF Added
    <2>7. Excused
        <3>1. Known'
            BY <1>1, KnownNext
        <3> QED BY <2>3, <2>5, <3>1 DEF Known, Forceable
    <2>8. Whole \/ pc = "commands"
        <3>1. CASE update_contacts
            <4>1. o.admins # {}
                BY <3>1 DEF update_contacts
            <4>2. /\ conf'.contacts = Contacts \cup o.extra
                  /\ conf'.members = resulting_members \cup o.extra
                BY <1>1, <3>1 DEF update_contacts, IInv, Shape
            <4> QED BY <2>3, <2>4, <2>5, <2>6, <4>1, <4>2, MembersOf
        <3>2. CASE ~update_contacts /\ pc # "commands"
            <4>1. pc \in AfterContacts
                BY <2>1, <2>2, <3>2 DEF update_commands, update_config, update_cgi_config,
                   LivestatusSocket, MonitorsRelationChanged, At, AfterContacts,
                   AfterApache, Settling
            <4>2. /\ o.admins # {}
                  /\ conf.contacts = Contacts \cup o.extra
                  /\ conf.members = resulting_members \cup o.extra
                BY <1>1, <2>4, <4>1 DEF IInv, Written
            <4>3. conf'.members = conf.members /\ conf'.contacts = conf.contacts
                BY <1>1, <2>1, <3>2 DEF IInv, Shape, update_commands, update_config,
                   update_cgi_config, LivestatusSocket, MonitorsRelationChanged, At
            <4> QED BY <2>3, <2>4, <2>5, <2>6, <4>2, <4>3, MembersOf
        <3> QED BY <3>1, <3>2
    <2>9. Installed
        <3>1. CASE LivestatusSocket
            <4>1. livestatus'.socket => livestatus'.package
                BY <1>1, LoadingNext DEF IInv, Loading
            <4>2. pc' = IF livestatus'.socket THEN "monitors" ELSE "failed"
                BY <3>1 DEF LivestatusSocket
            <4> QED BY <2>3, <4>1, <4>2
        <3>2. CASE MonitorsRelationChanged
            <4>1. pc = "monitors" /\ conf' = conf /\ livestatus' = livestatus
                BY <3>2 DEF MonitorsRelationChanged, At
            <4>2. conf.broker = o.livestatus /\ (o.livestatus => livestatus.package)
                BY <1>1, <2>4, <4>1 DEF IInv, Loading, Written, AfterApache, Settling
            <4> QED BY <2>3, <4>1, <4>2
        <3>3. CASE ~LivestatusSocket /\ ~MonitorsRelationChanged
            BY <2>1, <3>3 DEF update_commands, update_contacts, update_config,
               update_cgi_config, At
        <3> QED BY <3>1, <3>2, <3>3
    <2> QED BY <2>7, <2>8, <2>9
<1>2. Init => Loading /\ Known
    BY DEF Init, Loading, Ran, Known, Fresh, HasModule, Objects
<1>3. IInv /\ Loading /\ Known /\ [Next]_vars => Loading' /\ Known'
    BY LoadingNext, KnownNext DEF IInv
<1>4. IInv /\ Loading /\ Known /\ [Next]_vars =>
        [told' # told => Excused /\ (Whole \/ pc = "commands") /\ Installed]_vars
    BY <1>1
<1> QED BY <1>2, <1>3, <1>4, IInvHolds, PTL DEF Spec, UnfitOnlyInBetween
-----------------------------------------------------------------------------
(***************************************************************************)
(* Certificates, sites and ports.                                          *)
(***************************************************************************)
Agree ==
    /\ 443 \in ports <=> SSL_CONFIGURED(o)
    /\ 80 \in ports <=> HTTP_ENABLED(o)
    /\ 80 \in ports => 80 \in apache.listen
    /\ "default-ssl" \in apache.failed \/ ("default-ssl" \in apache.sites <=> 443 \in ports)
    /\ \A s \in Sites \ apache.failed : s \in apache.sites <=> 80 \in ports

\* Sites and ports are set to one option, whatever they were before.
LEMMA SitesAndPorts ==
    ASSUME NEW failed \in SUBSET (Sites \cup {"default-ssl"}), update_apache(o, failed), o' = o
    PROVE  Agree'
<1> USE SiteAssumption
<1>1. /\ ports' = PortsAfter(o)
      /\ apache'.sites = (SitesAfter(o) \ failed) \cup (apache.sites \cap failed)
      /\ apache'.failed = failed
      /\ apache'.listen = Toggled({443}, {80}, HTTP_ENABLED(o))
    BY DEF update_apache
<1>2. 443 \in ports' <=> SSL_CONFIGURED(o)
    BY <1>1 DEF PortsAfter, Toggled
<1>3. 80 \in ports' <=> HTTP_ENABLED(o)
    BY <1>1 DEF PortsAfter, Toggled, PortOf
<1>4. "default-ssl" \in SitesAfter(o) <=> SSL_CONFIGURED(o)
    BY DEF SitesAfter, Toggled
<1>5. \A s \in Sites : s \in SitesAfter(o) <=> HTTP_ENABLED(o)
    BY DEF SitesAfter, Toggled
<1>6. HTTP_ENABLED(o) => 80 \in apache'.listen
    BY <1>1 DEF Toggled
<1>7. SSL_CONFIGURED(o') = SSL_CONFIGURED(o) /\ HTTP_ENABLED(o') = HTTP_ENABLED(o)
    OBVIOUS
<1>8. "default-ssl" \in failed \/ ("default-ssl" \in apache'.sites <=> 443 \in ports')
    BY <1>1, <1>2, <1>4
<1>9. \A s \in Sites \ failed : s \in apache'.sites <=> 80 \in ports'
    BY <1>1, <1>3, <1>5
<1> QED BY ONLY <1>1, <1>2, <1>3, <1>6, <1>7, <1>8, <1>9 DEF Agree

LEMMA StayAgreed == Agree /\ UNCHANGED <<o, ports, apache>> => Agree'
BY DEF Agree

LEMMA WebNext ==
    ASSUME Shape, Ran /\ pc \in AfterApache => Agree, [Next]_vars, Ran', pc' \in AfterApache
    PROVE  Agree'
<1> USE DEF At, webVars
<1>1. CASE UpdateApache
    <2>1. PICK failed \in SUBSET (Sites \cup {"default-ssl"}) : update_apache(o, failed)
        BY <1>1 DEF UpdateApache
    <2>2. o' = o
        BY <1>1 DEF UpdateApache
    <2> QED BY <2>1, <2>2, SitesAndPorts
<1>2. CASE ~UpdateApache
    <2>1. UNCHANGED <<o, ports, apache>> /\ pc \in AfterApache
        <3> USE DEF AfterApache, Settling
        <3>1. CASE \/ Begin \/ write_extra_config \/ enable_traps_config \/ EnableSsl
                   \/ DecodeSslKeys \/ DecodeFails \/ enable_pagerduty_config
                   \/ update_commands \/ ContactsFail \/ update_config \/ CutOff
            BY <3>1 DEF Begin, write_extra_config, enable_traps_config, EnableSsl,
                   DecodeSslKeys, DecodeFails, enable_pagerduty_config, update_commands,
                   ContactsFail, update_config, CutOff
        <3>2. CASE \/ update_contacts \/ UpdateNotification \/ update_cgi_config
                   \/ UpdatePassword \/ Skip
            BY <3>2 DEF update_contacts, UpdateNotification, update_cgi_config,
                   UpdatePassword, Skip
        <3>3. CASE \/ configure_livestatus_xinetd \/ Dashboard \/ LivestatusPackage
                   \/ LivestatusSocket \/ MonitorsRelationChanged
            BY <3>3 DEF configure_livestatus_xinetd, Dashboard, LivestatusPackage,
                   LivestatusSocket, MonitorsRelationChanged
        <3>4. CASE Change \/ UpdateStatus \/ NagiosStarts \/ Website \/ UNCHANGED vars
            BY <3>4 DEF Change, UpdateStatus, NagiosStarts, Website, vars
        <3> QED BY <1>2, <3>1, <3>2, <3>3, <3>4 DEF Next, Script
    <2>2. Ran
        BY <2>1 DEF Ran
    <2> QED BY <2>1, <2>2, StayAgreed
<1> QED BY <1>1, <1>2

\* Ports and sites are those of the last options after every run, whichever options the
\* runs before it had, but for sites that could not be enabled or disabled.
THEOREM PortsFollow == Spec => []PortsFollowSites
<1> DEFINE Web == Ran /\ pc \in AfterApache => Agree
<1>1. Init => Web
    BY DEF Init, Ran
<1>2. Shape /\ Web /\ [Next]_vars => Web'
    BY WebNext
<1>3. Web => PortsFollowSites
    BY DEF Ran, Agree, PortsFollowSites, Settled, AfterApache, Settling
<1> QED BY <1>1, <1>2, <1>3, ShapeInit, ShapeNext, PTL DEF Spec

\* The operator gives a key whenever he gives a certificate.
KeyGiven == \A w \in Options : w.cert # NoText => w.key # NoText

\* The pairs that one source has made.
Pairs == {<<NoText, NoText>>, <<SelfSigned, SelfSigned>>}
            \cup {<<Printed(w.key), Printed(w.cert)>> : w \in Options}

\* The key is that of the options from its writing on, the certificate from the next one on.
Paired ==
    /\ pem.torn \/ <<pem.key, pem.cert>> \in Pairs
    /\ Ran /\ Decodes(o) =>
          /\ pc \in AfterTraps \ {"ssl"} => pem.key = Printed(o.key)
          /\ pc \in AfterTraps \ {"ssl", "cert"} => pem.cert = Printed(o.cert)

LEMMA PairedNext ==
    ASSUME KeyGiven, Shape, Paired, [Next]_vars
    PROVE  Paired'
<1> USE DEF At, webVars
<1>1. CASE EnableSsl
    <2>1. pc = "ssl" /\ pc' = "pagerduty" /\ o' = o /\ DOMAIN pem = {"key", "cert", "chain", "torn"}
        BY <1>1 DEF EnableSsl, Shape
    <2>2. \/ pem' = pem
          \/ pem' = [pem EXCEPT !.key = SelfSigned, !.cert = SelfSigned, !.torn = FALSE]
          \/ pem' = [pem EXCEPT !.key = SelfSigned, !.torn = TRUE]
        BY <1>1 DEF EnableSsl, generate_selfsigned, SelfsignedFails
    <2>3. ~Decodes(o')
        BY <1>1, <2>1 DEF EnableSsl, KeysExist, Decodes
    <2>4. pem'.torn \/ <<pem'.key, pem'.cert>> \in Pairs
        BY <2>1, <2>2 DEF Paired, Pairs
    <2> QED BY <2>3, <2>4 DEF Paired, Pairs
<1>2. CASE DecodeSslKeys
    <2>1. /\ Decodes(o) /\ o' = o /\ o \in Options /\ Ran
          /\ DOMAIN pem = {"key", "cert", "chain", "torn"} /\ o.key # NoText
        BY <1>2, OptionAssumption DEF DecodeSslKeys, Shape, KeyGiven, Decodes, Ran
    <2>2. CASE pc = "ssl"
        <3>1. /\ pc' = "cert" /\ pem' = [pem EXCEPT !.key = Printed(o.key), !.torn = TRUE]
            BY <1>2, <2>1, <2>2 DEF DecodeSslKeys, decode_key
        <3> QED BY <2>1, <3>1 DEF Paired
    <2>3. CASE pc = "cert"
        <3>1. /\ pc' = "chain" /\ pem' = [pem EXCEPT !.cert = Printed(o.cert), !.torn = FALSE]
            BY <1>2, <2>3 DEF DecodeSslKeys, decode_cert
        <3>2. pem.key = Printed(o.key)
            BY <2>1, <2>3 DEF Paired, AfterTraps
        <3>3. pem'.key = Printed(o.key) /\ pem'.cert = Printed(o.cert)
            BY <2>1, <3>1, <3>2
        <3>4. <<pem'.key, pem'.cert>> \in Pairs
            BY <2>1, <3>3 DEF Pairs
        <3>5. Pairs' = Pairs
            BY DEF Pairs
        <3> QED BY <2>1, <3>1, <3>3, <3>4, <3>5 DEF Paired
    <2>4. CASE pc = "chain"
        <3>1. /\ pc' = "pagerduty" /\ pem'.key = pem.key /\ pem'.cert = pem.cert
              /\ pem'.torn = pem.torn
            BY <1>2, <2>1, <2>4 DEF DecodeSslKeys, decode_chain
        <3>2. pem.key = Printed(o.key) /\ pem.cert = Printed(o.cert)
            BY <2>1, <2>4 DEF Paired, AfterTraps
        <3>3. Pairs' = Pairs
            BY DEF Pairs
        <3> QED BY <2>1, <3>1, <3>2, <3>3 DEF Paired
    <2> QED BY <1>2, <2>2, <2>3, <2>4 DEF DecodeSslKeys
<1>3. CASE DecodeFails
    <2>1. PICK file \in {"key", "cert", "chain"} : Spoil(file)
        BY <1>3 DEF DecodeFails
    <2>2. pc' = "failed" /\ o' = o /\ DOMAIN pem = {"key", "cert", "chain", "torn"}
        BY <1>3 DEF DecodeFails, Shape
    <2>3. pem' = [pem EXCEPT ![file] = Empty, !.torn = pem.torn \/ file # "chain"]
        BY <2>1 DEF Spoil
    <2>4. CASE file = "chain"
        <3>1. pem'.key = pem.key /\ pem'.cert = pem.cert /\ (pem.torn => pem'.torn)
            BY <2>2, <2>3, <2>4
        <3> QED BY <2>2, <3>1
              DEF Paired, Pairs, AfterTraps, AfterPagerduty, AfterContacts, AfterApache, Settling
    <2>5. CASE file # "chain"
        <3>1. pem'.torn
            BY <2>1, <2>2, <2>3, <2>5
        <3> QED BY <2>2, <3>1
              DEF Paired, AfterTraps, AfterPagerduty, AfterContacts, AfterApache, Settling
    <2> QED BY <2>4, <2>5
<1>4. CASE ~EnableSsl /\ ~DecodeSslKeys /\ ~DecodeFails
    <2> USE DEF AfterTraps, AfterPagerduty, AfterContacts, AfterApache, Settling
    <2>1. /\ UNCHANGED pem
          /\ UNCHANGED o \/ pc' = "extra"
          /\ \/ pc' \in {pc, "extra", "traps", "ssl", "failed"}
             \/ pc \in AfterTraps \ {"ssl", "cert"}
        <3>1. CASE \/ Begin \/ write_extra_config \/ enable_traps_config
                   \/ enable_pagerduty_config \/ update_commands \/ update_contacts
                   \/ ContactsFail \/ update_config \/ UpdateApache
            BY <3>1 DEF Begin, write_extra_config, enable_traps_config,
                   enable_pagerduty_config, update_commands, update_contacts, ContactsFail,
                   update_config, UpdateApache
        <3>2. CASE UpdateNotification \/ update_cgi_config \/ UpdatePassword \/ Skip
            BY <3>2 DEF UpdateNotification, update_cgi_config, UpdatePassword, Skip
        <3>3. CASE \/ configure_livestatus_xinetd \/ Dashboard \/ LivestatusPackage
                   \/ LivestatusSocket \/ MonitorsRelationChanged \/ CutOff
            BY <3>3 DEF configure_livestatus_xinetd, Dashboard, LivestatusPackage,
                   LivestatusSocket, MonitorsRelationChanged, CutOff
        <3>4. CASE Change \/ UpdateStatus \/ NagiosStarts \/ Website \/ UNCHANGED vars
            BY <3>4 DEF Change, UpdateStatus, NagiosStarts, Website, vars
        <3> QED BY <1>4, <3>1, <3>2, <3>3, <3>4 DEF Next, Script
    <2>2. pem'.torn \/ <<pem'.key, pem'.cert>> \in Pairs'
        BY <2>1 DEF Paired, Pairs
    <2> QED BY <2>1, <2>2 DEF Paired, Ran
<1> QED BY <1>1, <1>2, <1>3, <1>4

\* A key and its certificate are replaced together by every run that ends well, and come
\* apart only in a run that does not.
THEOREM KeyFits ==
    ASSUME KeyGiven
    PROVE  Spec => []KeyFitsCertificate
<1>1. Init => Paired
    BY DEF Init, WebInit, Paired, Pairs, Ran
<1>2. Shape /\ Paired /\ [Next]_vars => Paired'
    BY PairedNext
<1>3. Paired => KeyFitsCertificate
    BY DEF Paired, Pairs, KeyFitsCertificate, Settled, Ran, AfterTraps, AfterPagerduty,
           AfterContacts, AfterApache, Settling
<1> QED BY <1>1, <1>2, <1>3, ShapeInit, ShapeNext, PTL DEF Spec
-----------------------------------------------------------------------------
(***************************************************************************)
(* Types, and the accounts.                                                *)
(***************************************************************************)
Typed ==
    /\ forced \subseteq Forceable
    /\ ports \subseteq {80, 443}
    /\ apache.sites \subseteq Sites \cup {"default-ssl"}
    /\ status \in {"ready", "blocked", "duplicates", "error"}
    /\ users \in [Accounts -> Seq(Passwords)]

LEMMA AccountFacts ==
    ASSUME NEW w \in Options
    PROVE  /\ w.nagiosadmin \in Accounts /\ "nagiosro" \in Accounts /\ "nagiosadmin" \in Accounts
           /\ w.password \in Passwords /\ w.ropassword \in Passwords
BY DEF Accounts, Passwords

\* A password goes to the end of its account's lines, an empty one takes them away.
LEMMA LinesAfter ==
    ASSUME users \in [Accounts -> Seq(Passwords)],
           NEW account \in Accounts, NEW password,
           password \in Passwords \/ password = NoText, update_password(account, password)
    PROVE  /\ users' \in [Accounts -> Seq(Passwords)]
           /\ password = NoText => users'[account] = << >>
           /\ password # NoText => /\ users'[account] # << >>
                                   /\ users'[account][Len(users'[account])] = password
           /\ \A a \in Accounts : a # account => users'[a] = users[a]
<1>1. CASE password = NoText
    <2>1. users' = [users EXCEPT ![account] = << >>]
        BY <1>1 DEF update_password, DropLines
    <2>2. << >> \in Seq(Passwords)
        OBVIOUS
    <2> QED BY <1>1, <2>1, <2>2
<1>2. CASE password # NoText
    <2> DEFINE lines == Append(users[account], password)
    <2>1. users' = [users EXCEPT ![account] = lines]
        BY <1>2 DEF update_password
    <2>2. users[account] \in Seq(Passwords) /\ password \in Passwords
        BY <1>2
    <2>3. /\ lines \in Seq(Passwords) /\ Len(lines) = Len(users[account]) + 1
          /\ lines[Len(users[account]) + 1] = password
        BY <2>2
    <2>4. lines # << >>
        BY <2>2, <2>3
    <2> HIDE DEF lines
    <2> QED BY <1>2, <2>1, <2>2, <2>3, <2>4
<1> QED BY <1>1, <1>2

LEMMA TypedNext == ASSUME Shape, Typed, [Next]_vars PROVE Typed'
<1> USE DEF At, webVars
<1>1. CASE Begin
    BY <1>1 DEF Begin, Typed
<1>2. CASE enable_traps_config \/ enable_pagerduty_config
    BY <1>2 DEF enable_traps_config, enable_pagerduty_config, AddForced, Forceable, Typed
<1>3. CASE UpdateApache
    <2>0. PICK failed \in SUBSET (Sites \cup {"default-ssl"}) : update_apache(o, failed)
        BY <1>3 DEF UpdateApache
    <2>1. ports' = PortsAfter(o) /\ UNCHANGED <<forced, status, users>>
        BY <1>3, <2>0 DEF UpdateApache, update_apache
    <2>2. apache'.sites = (SitesAfter(o) \ failed) \cup (apache.sites \cap failed)
        BY <2>0 DEF update_apache
    <2>3. \A s \in Sites : PortOf(s) \in {80, 443}
        BY DEF PortOf
    <2>4. ports' \subseteq {80, 443}
        <3>1. {PortOf(s) : s \in Sites} \subseteq {80, 443}
            BY <2>3
        <3>2. ports \subseteq {80, 443}
            BY DEF Typed
        <3> DEFINE opened == Toggled(ports, {PortOf(s) : s \in Sites}, HTTP_ENABLED(o))
        <3>3. opened \in SUBSET {80, 443}
            BY <3>1, <3>2 DEF Toggled
        <3>4. ports' = Toggled(opened, {443}, SSL_CONFIGURED(o))
            BY <2>1 DEF PortsAfter
        <3> HIDE DEF opened
        <3>5. Toggled(opened, {443}, SSL_CONFIGURED(o)) \in SUBSET {80, 443}
            BY <3>3 DEF Toggled
        <3> QED BY <3>4, <3>5
    <2>5. apache'.sites \subseteq Sites \cup {"default-ssl"}
        <3>1. SitesAfter(o) \subseteq Sites \cup {"default-ssl"}
            BY DEF SitesAfter, Toggled, Typed
        <3> QED BY <2>2, <3>1 DEF Typed
    <2> QED BY <2>1, <2>4, <2>5 DEF Typed
<1>4. CASE UpdatePassword
    <2>1. o \in Options /\ UNCHANGED <<forced, ports, apache, status>>
        BY <1>4 DEF UpdatePassword, Shape
    <2>2. \/ update_password("nagiosro", o.ropassword)
          \/ update_password(o.nagiosadmin, o.password)
          \/ update_password("nagiosadmin", NoText)
        BY <1>4 DEF UpdatePassword
    <2>3. users' \in [Accounts -> Seq(Passwords)]
        BY <2>1, <2>2, AccountFacts, LinesAfter DEF Typed
    <2> QED BY <2>1, <2>3 DEF Typed
<1>5. ASSUME UNCHANGED <<forced, ports, apache, users>>,
             status' \in {status, "ready", "blocked", "duplicates", "error"}
      PROVE  Typed'
    BY <1>5 DEF Typed
<1>6. CASE write_extra_config \/ EnableSsl \/ DecodeSslKeys \/ DecodeFails \/ update_commands
    BY <1>5, <1>6 DEF write_extra_config, EnableSsl, DecodeSslKeys, DecodeFails, update_commands
<1>7. CASE update_contacts
    <2>1. UNCHANGED <<forced, ports, apache, users>> /\ status' = "ready"
        BY <1>7, Zenon DEF update_contacts
    <2> QED BY <1>5, <2>1
<1>8. CASE update_config \/ ContactsFail
    <2>1. UNCHANGED <<forced, ports, apache, users>> /\ status' \in {status, "ready", "blocked"}
        BY <1>8 DEF update_config, ContactsFail
    <2> QED BY <1>5, <2>1
<1>9. CASE UpdateNotification
    <2>1. UNCHANGED <<forced, ports, apache, users, status>>
        BY <1>9, Zenon DEF UpdateNotification
    <2> QED BY <1>5, <2>1
<1>10. CASE update_cgi_config
    <2>1. UNCHANGED <<forced, ports, apache, users, status>>
        BY <1>10 DEF update_cgi_config
    <2> QED BY <1>5, <2>1
<1>11. CASE Skip \/ Dashboard
    BY <1>5, <1>11 DEF Skip, Dashboard
<1>12. CASE configure_livestatus_xinetd \/ LivestatusPackage \/ LivestatusSocket
    BY <1>5, <1>12 DEF configure_livestatus_xinetd, LivestatusPackage, LivestatusSocket
<1>13. CASE MonitorsRelationChanged
    BY <1>5, <1>13 DEF MonitorsRelationChanged
<1>14. CASE CutOff \/ Change \/ UpdateStatus \/ NagiosStarts \/ Website
    BY <1>5, <1>14 DEF CutOff, Change, UpdateStatus, NagiosStarts, Website
<1>15. CASE UNCHANGED vars
    BY <1>15 DEF vars, Typed
<1> QED
    BY <1>1, <1>2, <1>3, <1>4, <1>6, <1>7, <1>8, <1>9, <1>10, <1>11, <1>12, <1>13, <1>14, <1>15
    DEF Next, Script

LEMMA TypedHolds == Spec => [](Shape /\ Typed)
<1>1. Init => Typed
    <2> SUFFICES ASSUME Init PROVE Typed
        OBVIOUS
    <2>1. << >> \in Seq(Passwords)
        OBVIOUS
    <2> QED BY <2>1 DEF Init, WebInit, Typed
<1> QED BY <1>1, ShapeInit, ShapeNext, TypedNext, PTL DEF Spec

\* Every reachable state of the script is well typed.
THEOREM TypeCorrect == Spec => []TypeOK
<1>1. Shape /\ Typed => TypeOK
    BY DEF Shape, Typed, TypeOK
<1> QED BY <1>1, TypedHolds, PTL

\* The lines of nagiosro, as the options of the run want them up to a function.
ReadOnly(wish) == users["nagiosro"] # << >> <=> wish

Administers == o.password # NoText =>
    /\ users[o.nagiosadmin] # << >>
    /\ users[o.nagiosadmin][Len(users[o.nagiosadmin])] = o.password

\* What the functions so far have made of the accounts.
AccountsSoFar ==
    /\ pc \in {"xinetd", "dashboard", "password"} => ReadOnly(o.ropassword # NoText)
    /\ pc \in {"admin", "livestatus", "socket", "monitors", "idle"} =>
          /\ ReadOnly(o.ropassword # NoText
                        \/ (o.nagiosadmin = "nagiosro" /\ o.password # NoText))
          /\ Administers
    /\ pc \in {"livestatus", "socket", "monitors", "idle"} =>
          (o.nagiosadmin # "nagiosadmin" => users["nagiosadmin"] = << >>)

LEMMA AccountsNext ==
    ASSUME Shape, Typed, Ran => AccountsSoFar, [Next]_vars, Ran'
    PROVE  AccountsSoFar'
<1> USE DEF At, webVars
<1>0. users \in [Accounts -> Seq(Passwords)]
    BY DEF Typed
<1>1. CASE Begin
    BY <1>1 DEF Begin, AccountsSoFar
<1>2. ASSUME UNCHANGED <<o, users>>,
             \/ pc' \in {pc, "failed"}
             \/ pc \in {"xinetd", "dashboard"} /\ pc' \in {"dashboard", "password"}
             \/ /\ pc \in {"livestatus", "socket", "monitors"}
                /\ pc' \in {"socket", "monitors", "idle"}
      PROVE  AccountsSoFar'
    <2>1. Ran
        BY <1>2 DEF Ran
    <2> QED BY <1>2, <2>1 DEF AccountsSoFar, ReadOnly, Administers
<1>3. CASE UpdatePassword
    <2>1. o \in Options /\ o' = o /\ Ran
        BY <1>3 DEF UpdatePassword, Shape, Ran
    <2>2. CASE pc = "ropassword"
        <3>1. pc' = "xinetd" /\ update_password("nagiosro", o.ropassword)
            BY <1>3, <2>2 DEF UpdatePassword
        <3>2. users'["nagiosro"] # << >> <=> o.ropassword # NoText
            BY <1>0, <2>1, <3>1, AccountFacts, LinesAfter
        <3> QED BY <2>1, <3>1, <3>2 DEF AccountsSoFar, ReadOnly
    <2>3. CASE pc = "password"
        <3>1. pc' = "admin" /\ o.password # NoText /\ update_password(o.nagiosadmin, o.password)
            BY <1>3, <2>3 DEF UpdatePassword
        <3>2. /\ users'[o.nagiosadmin] # << >>
              /\ users'[o.nagiosadmin][Len(users'[o.nagiosadmin])] = o.password
              /\ "nagiosro" # o.nagiosadmin => users'["nagiosro"] = users["nagiosro"]
            BY <1>0, <2>1, <3>1, AccountFacts, LinesAfter
        <3>3. users["nagiosro"] # << >> <=> o.ropassword # NoText
            BY <2>1, <2>3 DEF AccountsSoFar, ReadOnly
        <3> QED BY <2>1, <3>1, <3>2, <3>3 DEF AccountsSoFar, ReadOnly, Administers
    <2>4. CASE pc = "admin"
        <3>1. /\ pc' = "livestatus" /\ o.nagiosadmin # "nagiosadmin"
              /\ update_password("nagiosadmin", NoText)
            BY <1>3, <2>4 DEF UpdatePassword
        <3>2. /\ users'["nagiosadmin"] = << >>
              /\ users'["nagiosro"] = users["nagiosro"]
              /\ users'[o.nagiosadmin] = users[o.nagiosadmin]
            BY <1>0, <2>1, <3>1, AccountFacts, LinesAfter
        <3> QED BY <2>1, <2>4, <3>1, <3>2 DEF AccountsSoFar, ReadOnly, Administers
    <2> QED BY <1>3, <2>2, <2>3, <2>4 DEF UpdatePassword
<1>4. CASE Skip
    <2>1. UNCHANGED <<o, users>> /\ Ran
        BY <1>4 DEF Skip, Ran
    <2>2. \/ pc = "password" /\ pc' = "admin" /\ o.password = NoText
          \/ pc = "admin" /\ pc' = "livestatus" /\ o.nagiosadmin = "nagiosadmin"
          \/ pc = "livestatus" /\ pc' = "monitors"
        BY <1>4 DEF Skip
    <2> QED BY <2>1, <2>2 DEF AccountsSoFar, ReadOnly, Administers
<1>5. CASE \/ write_extra_config \/ enable_traps_config \/ EnableSsl \/ DecodeSslKeys
           \/ DecodeFails \/ enable_pagerduty_config
    <2>1. pc' \in {"traps", "ssl", "cert", "chain", "pagerduty", "commands", "failed"}
        BY <1>5 DEF write_extra_config, enable_traps_config, EnableSsl, DecodeSslKeys,
               DecodeFails, enable_pagerduty_config
    <2> QED BY <2>1 DEF AccountsSoFar
<1>6. CASE update_commands \/ update_contacts \/ ContactsFail \/ update_config \/ CutOff
    <2>1. pc' \in {"contacts", "config", "ropassword", "failed", "apache"}
        BY <1>6 DEF update_commands, update_contacts, ContactsFail, update_config, CutOff
    <2> QED BY <2>1 DEF AccountsSoFar
<1>7. CASE UpdateApache \/ UpdateNotification \/ update_cgi_config
    <2>1. pc' \in {"notification", "cgi", "contacts again"}
        BY <1>7 DEF UpdateApache, UpdateNotification, update_cgi_config
    <2> QED BY <2>1 DEF AccountsSoFar
<1>8. CASE configure_livestatus_xinetd \/ Dashboard
    <2>1. UNCHANGED <<o, users>> /\ pc \in {"xinetd", "dashboard"} /\ pc' \in {"dashboard", "password"}
        BY <1>8 DEF configure_livestatus_xinetd, Dashboard
    <2> QED BY <1>2, <2>1
<1>9. CASE LivestatusPackage \/ LivestatusSocket \/ MonitorsRelationChanged
    <2>1. /\ UNCHANGED <<o, users>> /\ pc \in {"livestatus", "socket", "monitors"}
          /\ pc' \in {"socket", "monitors", "failed", "idle"}
        BY <1>9 DEF LivestatusPackage, LivestatusSocket, MonitorsRelationChanged
    <2> QED BY <1>2, <2>1
<1>10. CASE Change \/ UpdateStatus \/ NagiosStarts \/ Website \/ UNCHANGED vars
    <2>1. UNCHANGED <<o, users, pc>>
        BY <1>10 DEF Change, UpdateStatus, NagiosStarts, Website, vars
    <2> QED BY <1>2, <2>1
<1> QED BY <1>1, <1>3, <1>4, <1>5, <1>6, <1>7, <1>8, <1>9, <1>10 DEF Next, Script

\* The lines of the accounts follow the options of the last run as the property says, for
\* any administrators and passwords and in whatever order they were set and removed, also if
\* the administrator is called like the read-only account.
THEOREM AccountsFollow == Spec => []AccountsFollowOptions
<1>1. Init => (Ran => AccountsSoFar)
    BY DEF Init, Ran
<1>2. Shape /\ Typed /\ (Ran => AccountsSoFar) /\ [Next]_vars => (Ran => AccountsSoFar)'
    BY AccountsNext
<1>3. (Ran => AccountsSoFar) => AccountsFollowOptions
    BY DEF Ran, AccountsSoFar, ReadOnly, Administers, AccountsFollowOptions, Settled
<1> QED BY <1>1, <1>2, <1>3, TypedHolds, PTL DEF Spec
=============================================================================
