---------------------------- MODULE ConfigChanged ----------------------------
(***************************************************************************)
(* The script that config-changed and upgrade-charm run                    *)
(* (src/hooks/upgrade_charm.py): one function after the other, each        *)
(* rewriting files of nagios or of apache, several of them telling nagios  *)
(* to reload before the next one runs.  The script may end early (no       *)
(* administrator, contacts that do not parse) or be cut off between two    *)
(* functions, and in the middle of a certificate; Juju then runs it again  *)
(* from the start, with the options of that time, on the files as they are.*)
(***************************************************************************)
EXTENDS WebAccess, FiniteSets

CONSTANTS
    Options,     \* the configurations that the operator switches between
    NoOptions,   \* before the first run
    NameOf,      \* contact name of an administrator's e-mail address
    Within,      \* the names that the text of a name contains
    Bad,         \* extra contacts that make parse_extra_contacts raise
    NotRunning,  \* in place of what nagios has loaded, when it has exited
    MaxEvents

ASSUME OptionAssumption ==
    /\ NoOptions \notin Options
    /\ \A w \in Options : IsFiniteSet(w.admins) /\ Printed(w.cert) # NoText
    /\ \A name \in DOMAIN Within : name \in Within[name]
    /\ MaxEvents \in Nat

Forceable == {"pagerduty", "managementstation"}
Accounts == {w.nagiosadmin : w \in Options} \cup {"nagiosadmin", "nagiosro"}

Passwords == {w.password : w \in Options} \cup {w.ropassword : w \in Options}

VARIABLES
    wanted,      \* the options as the operator has set them
    due,         \* whether Juju owes the unit a run
    o,           \* the options that the last run has read
    pc,          \* the function the run is at
    forced,      \* forced_contactgroup_members
    conf,        \* the files of nagios that the script writes
    told,        \* what was on disk when nagios was last told to read it
    missed,      \* and whether it caught none of the signals for it
    loaded,      \* the contacts and modules that nagios works with
    livestatus,  \* the package, its socket and xinetd's entry
    status,      \* workload status of the unit
    events       \* changes of the options, commands that failed and runs cut off

nagios == <<told, missed, loaded>>
vars == <<webVars, wanted, due, o, pc, forced, conf, nagios, livestatus, status, events>>

At(here, next) == pc = here /\ pc' = next

Objects(c, l) ==
    [members |-> c.members,
     defined |-> c.contacts \cup (IF c.pagerduty THEN {"pagerduty"} ELSE {})
                            \cup (IF c.traps THEN {"managementstation"} ELSE {}),
     limiter |-> c.limiter, interval |-> c.interval, notify |-> c.notify,
     extra |-> c.extra, module |-> c.broker, missing |-> c.broker /\ ~l.package]

Fits(objects) == objects.members \subseteq objects.defined /\ ~objects.missing

\* Caught, a signal makes nagios read its files; over files that do not fit it exits,
\* or does not let go of what it has.
Signal(caught) ==
    /\ told' = Objects(conf', livestatus')
    /\ missed' = ~caught
    /\ caught => loaded # NotRunning
    /\ loaded' \in IF ~caught THEN {loaded}
                   ELSE IF Fits(told') THEN {told'} ELSE {loaded, NotRunning}

\* Broken variant of Reload: the signal is not sent.
Bug_Reload == UNCHANGED <<nagios, events>>

\* reload_nagios repeats the signal and gives up with a warning when none is caught, as
\* always when nagios is not running.
Reload ==
    \/ Signal(loaded # NotRunning) /\ UNCHANGED events
    \/ events < MaxEvents /\ Signal(FALSE) /\ events' = events + 1
-----------------------------------------------------------------------------
(***************************************************************************)
(* The functions, in the order of the script.                              *)
(***************************************************************************)
\* Broken variant of Begin: the options of the first run are kept.
Bug_Begin ==
    /\ pc \in {"idle", "failed"}
    /\ due
    /\ pc' = "extra" /\ due' = FALSE
    /\ o' = IF o = NoOptions THEN wanted ELSE o
    /\ forced' = {}
    /\ UNCHANGED <<webVars, wanted, conf, nagios, livestatus, status, events>>

Begin ==
    /\ pc \in {"idle", "failed"}
    /\ due
    /\ pc' = "extra" /\ due' = FALSE
    /\ o' = wanted
    /\ forced' = {}
    /\ UNCHANGED <<webVars, wanted, conf, nagios, livestatus, status, events>>

write_extra_config ==
    /\ At("extra", "traps")
    /\ conf' = [conf EXCEPT !.extra = o.extraconfig]
    /\ UNCHANGED <<webVars, wanted, due, o, forced, nagios, livestatus, status, events>>

\* contactgroup-members is one text: "in" looks for the name anywhere in it.
Mentioned(name) == \E m \in o.members : name \in Within[m]

AddForced(name) == IF Mentioned(name) THEN forced ELSE forced \cup {name}

enable_traps_config ==
    /\ At("traps", "ssl")
    /\ conf' = [conf EXCEPT !.traps = o.traps]
    /\ forced' = IF o.traps THEN AddForced("managementstation") ELSE forced
    /\ UNCHANGED <<webVars, wanted, due, o, nagios, livestatus, status, events>>

\* Without a certificate in the options openssl makes one; nobody sees it fail.
EnableSsl ==
    /\ At("ssl", "pagerduty")
    /\ \/ KeysExist(o) /\ UNCHANGED <<pem, events>>
       \/ ~KeysExist(o) /\ ~Decodes(o)
          /\ \/ generate_selfsigned /\ UNCHANGED events
             \/ SelfsignedFails /\ events < MaxEvents /\ events' = events + 1
    /\ UNCHANGED <<apache, ports, users, records, website, dashboard, wanted, due, o,
                   forced, conf, nagios, livestatus, status>>

\* Each of the three files is a step of its own.
DecodeSslKeys ==
    /\ pc \in {"ssl", "cert", "chain"} /\ Decodes(o)
    /\ \/ At("ssl", "cert") /\ o.key \notin Malformed /\ decode_key(o)
       \/ At("cert", "chain") /\ o.cert \notin Malformed /\ decode_cert(o)
       \/ At("chain", "pagerduty") /\ decode_chain(o)
    /\ UNCHANGED <<apache, ports, users, records, website, dashboard, wanted, due, o,
                   forced, conf, nagios, livestatus, status, events>>

\* An option that does not decode raises, or the run is cut off in the middle of a file.
DecodeFails ==
    /\ pc \in {"ssl", "cert", "chain"} /\ Decodes(o)
    /\ pc' = "failed" /\ due' = TRUE
    /\ \E file \in {"key", "cert", "chain"} :
          /\ pc = IF file = "key" THEN "ssl" ELSE file
          /\ Given(o, file) # NoText
          /\ events' = IF Given(o, file) \in Malformed THEN events ELSE events + 1
          /\ Spoil(file)
    /\ events' <= MaxEvents
    /\ UNCHANGED <<apache, ports, users, records, website, dashboard, wanted, o,
                   forced, conf, nagios, livestatus, status>>

\* Broken variant of enable_pagerduty_config: the files stay when it is disabled.
Bug_KeepPagerduty ==
    /\ At("pagerduty", "commands")
    /\ conf' = IF o.pagerduty THEN [conf EXCEPT !.pagerduty = TRUE, !.cron = TRUE] ELSE conf
    /\ forced' = IF o.pagerduty THEN AddForced("pagerduty") ELSE forced
    /\ UNCHANGED <<webVars, wanted, due, o, nagios, livestatus, status, events>>

enable_pagerduty_config ==
    /\ At("pagerduty", "commands")
    /\ conf' = [conf EXCEPT !.pagerduty = o.pagerduty, !.cron = o.pagerduty]
    /\ forced' = IF o.pagerduty THEN AddForced("pagerduty") ELSE forced
    /\ UNCHANGED <<webVars, wanted, due, o, nagios, livestatus, status, events>>

\* email_max_notifications below zero is taken for zero, which is no limit.
update_commands ==
    /\ At("commands", "contacts")
    /\ conf' = [conf EXCEPT !.limiter = IF o.maxmail > 0 THEN o.maxmail ELSE 0]
    /\ UNCHANGED <<webVars, wanted, due, o, forced, livestatus, status>>
    /\ Reload

AdminNames == {NameOf[e] : e \in o.admins}

\* Broken variant of Contacts: the single administrator has a name of his own.
Bug_Contacts == AdminNames

Contacts == IF Cardinality(o.admins) = 1 THEN {"root"} ELSE AdminNames

\* The members of the group; several administrators replace those of the option.
resulting_members ==
    (IF Cardinality(o.admins) > 1 THEN AdminNames ELSE o.members) \cup forced

\* Runs twice, before and after the files it does not depend on.
update_contacts ==
    /\ At("contacts", "config") \/ At("contacts again", "ropassword")
    /\ o.admins # {} /\ o.extra # Bad
    /\ status' = "ready"
    /\ conf' = [conf EXCEPT !.contacts = Contacts \cup o.extra,
                            !.members = resulting_members \cup o.extra]
    /\ UNCHANGED <<webVars, wanted, due, o, forced, livestatus>>
    /\ Reload

\* exit(1), or parse_extra_contacts raises after the status has been set.
ContactsFail ==
    /\ At("contacts", "failed")
    /\ o.admins = {} \/ o.extra = Bad
    /\ status' = IF o.admins = {} THEN "blocked" ELSE "ready"
    /\ due' = TRUE
    /\ UNCHANGED <<webVars, wanted, o, forced, conf, nagios, livestatus, events>>

update_config ==
    /\ At("config", "apache")
    /\ conf' = [conf EXCEPT !.broker = o.livestatus]
    /\ UNCHANGED <<webVars, wanted, due, o, forced, livestatus, status>>
    /\ Reload

UpdateApache ==
    /\ At("apache", "notification")
    /\ \E failed \in SUBSET (Sites \cup {"default-ssl"}) :
          /\ update_apache(o, failed)
          /\ events' = IF failed = {} THEN events ELSE events + 1
    /\ events' <= MaxEvents
    /\ UNCHANGED <<pem, users, records, website, dashboard, wanted, due, o, forced,
                   conf, nagios, livestatus, status>>

\* update_notification_interval and update_notification_options.
UpdateNotification ==
    /\ At("notification", "cgi")
    /\ conf' = [conf EXCEPT !.interval = IF o.interval < 0 THEN 0 ELSE o.interval,
                            !.notify = IF o.notify = NoText THEN "n" ELSE o.notify]
    /\ UNCHANGED <<webVars, wanted, due, o, forced, nagios, livestatus, status, events>>

update_cgi_config ==
    /\ At("cgi", "contacts again")
    /\ conf' = [conf EXCEPT !.cgi = <<o.nagiosadmin, o.ropassword # NoText>>]
    /\ UNCHANGED <<webVars, wanted, due, o, forced, livestatus, status>>
    /\ Reload

UpdatePassword ==
    /\ \/ At("ropassword", "xinetd") /\ update_password("nagiosro", o.ropassword)
       \/ At("password", "admin") /\ o.password # NoText
                                  /\ update_password(o.nagiosadmin, o.password)
       \/ At("admin", "livestatus") /\ o.nagiosadmin # "nagiosadmin"
                                    /\ update_password("nagiosadmin", NoText)
    /\ UNCHANGED <<pem, apache, ports, website, dashboard, wanted, due, o, forced, conf,
                   nagios, livestatus, status, events>>

\* The conditions at the end of the script that skip a function.
Skip ==
    /\ \/ At("password", "admin") /\ o.password = NoText
       \/ At("admin", "livestatus") /\ o.nagiosadmin = "nagiosadmin"
       \/ At("livestatus", "monitors") /\ ~o.livestatus
    /\ UNCHANGED <<webVars, wanted, due, o, forced, conf, nagios, livestatus, status, events>>

\* The entry of xinetd is written and never removed.
configure_livestatus_xinetd ==
    /\ At("xinetd", "dashboard")
    /\ livestatus' = [livestatus EXCEPT !.xinetd = @ \/ (o.livestatus /\ o.xinetd)]
    /\ UNCHANGED <<webVars, wanted, due, o, forced, conf, nagios, status, events>>

Dashboard ==
    /\ At("dashboard", "password")
    /\ \E leader \in BOOLEAN : application_dashboard(o, leader)
    /\ UNCHANGED <<pem, apache, ports, users, records, website, wanted, due, o, forced,
                   conf, nagios, livestatus, status, events>>

\* The package that nagios.cfg has asked for since update_config is installed here, if
\* apt-get does not fail, which nobody looks at.
LivestatusPackage ==
    /\ At("livestatus", "socket") /\ o.livestatus
    /\ \/ livestatus' = [livestatus EXCEPT !.package = TRUE] /\ UNCHANGED events
       \/ /\ ~livestatus.package /\ UNCHANGED livestatus
          /\ events < MaxEvents /\ events' = events + 1
    /\ UNCHANGED <<webVars, wanted, due, o, forced, conf, nagios, status>>

\* With the module nagios makes the socket.
HasModule(objects) == objects # NotRunning /\ objects.module

\* The socket must be there in the end, or chown raises.  Without it nagios is told to
\* reload once more, and may be too late with it.
LivestatusSocket ==
    /\ pc = "socket"
    /\ UNCHANGED conf
    /\ \/ /\ livestatus.socket \/ HasModule(loaded)
          /\ livestatus' = [livestatus EXCEPT !.socket = TRUE]
          /\ UNCHANGED <<nagios, events>>
       \/ /\ ~livestatus.socket
          /\ \E made \in BOOLEAN :
                /\ livestatus' = [livestatus EXCEPT !.socket = made]
                /\ Reload
                /\ made = HasModule(loaded')
       \/ /\ ~livestatus.socket /\ UNCHANGED livestatus
          /\ events < MaxEvents /\ events' = events + 1
          /\ Signal(TRUE)
    /\ pc' = IF livestatus'.socket THEN "monitors" ELSE "failed"
    /\ due' = (due \/ ~livestatus'.socket)
    /\ UNCHANGED <<webVars, wanted, o, forced, status>>

\* The last of the scripts it calls is the monitors hook, whose failure it ignores.
MonitorsRelationChanged ==
    /\ At("monitors", "idle")
    /\ UNCHANGED <<conf, livestatus>>
    /\ \/ UNCHANGED <<nagios, status, events>>
       \/ Reload /\ status' \in {"ready", "duplicates"}
    /\ UNCHANGED <<webVars, wanted, due, o, forced>>

CutOff ==
    /\ pc \notin {"idle", "failed"}
    /\ events < MaxEvents
    /\ events' = events + 1
    /\ pc' = "failed" /\ due' = TRUE
    /\ UNCHANGED <<webVars, wanted, o, forced, conf, nagios, livestatus, status>>
-----------------------------------------------------------------------------
(***************************************************************************)
(* What else happens to the unit.                                          *)
(***************************************************************************)
\* The operator changes options, or upgrades the charm.
Change ==
    /\ events < MaxEvents /\ events' = events + 1
    /\ wanted' \in Options
    /\ due' = TRUE
    /\ UNCHANGED <<webVars, o, pc, forced, conf, nagios, livestatus, status>>

\* update-status asks systemd for nagios only.
UpdateStatus ==
    /\ pc = "idle"
    /\ status' \in IF loaded = NotRunning THEN {"error"} ELSE {"ready", "error"}
    /\ UNCHANGED <<webVars, wanted, due, o, pc, forced, conf, nagios, livestatus, events>>

\* Systemd, the operator, or the start hook starts nagios, which reads its files; the hook
\* sets the status even if it does not start, or has been running.
NagiosStarts ==
    /\ \/ UNCHANGED nagios
       \/ /\ loaded = NotRunning
          /\ loaded' = Objects(conf, livestatus) /\ Fits(loaded')
          /\ told' = loaded' /\ missed' = FALSE
    /\ UNCHANGED status \/ (pc = "idle" /\ status' = "ready")
    /\ UNCHANGED <<webVars, wanted, due, o, pc, forced, conf, livestatus, events>>

Website ==
    /\ pc = "idle" /\ website = NoText
    /\ WebsiteJoined(wanted)
    /\ UNCHANGED <<pem, apache, ports, users, records, dashboard, wanted, due, o, pc,
                   forced, conf, nagios, livestatus, status, events>>
-----------------------------------------------------------------------------
Fresh == [extra |-> NoText, traps |-> FALSE, pagerduty |-> FALSE, cron |-> FALSE,
          limiter |-> 0, contacts |-> {"root"}, members |-> {"root"}, broker |-> FALSE,
          interval |-> 0, notify |-> "n", cgi |-> <<"nagiosadmin", FALSE>>]

Init ==
    /\ WebInit(Accounts)
    /\ wanted \in Options /\ due = TRUE
    /\ o = NoOptions /\ pc = "idle" /\ forced = {}
    /\ conf = Fresh
    /\ livestatus = [package |-> wanted.livestatus, socket |-> FALSE, xinetd |-> FALSE]
    /\ loaded = Objects(conf, livestatus) /\ told = loaded /\ missed = FALSE
    /\ status = "ready"
    /\ events = 0

Script == \/ write_extra_config \/ enable_traps_config \/ EnableSsl \/ DecodeSslKeys
          \/ DecodeFails \/ enable_pagerduty_config \/ update_commands \/ update_contacts
          \/ ContactsFail \/ update_config \/ UpdateApache \/ UpdateNotification
          \/ update_cgi_config \/ UpdatePassword \/ Skip
          \/ configure_livestatus_xinetd \/ Dashboard \/ LivestatusPackage
          \/ LivestatusSocket \/ MonitorsRelationChanged

Next == Begin \/ Script \/ CutOff \/ Change \/ UpdateStatus \/ NagiosStarts \/ Website

Spec == Init /\ [][Next]_vars

\* Juju runs the hook it owes, and a hook that runs goes on.
FairSpec == Spec /\ WF_vars(Begin) /\ WF_vars(Script)
-----------------------------------------------------------------------------
TypeOK ==
    /\ o \in Options \cup {NoOptions} /\ wanted \in Options
    /\ forced \subseteq Forceable
    /\ ports \subseteq {80, 443}
    /\ apache.sites \subseteq Sites \cup {"default-ssl"}
    /\ status \in {"ready", "blocked", "duplicates", "error"}
    /\ users \in [Accounts -> Seq(Passwords)]

\* A run has ended well and the next one has not begun.
Settled == pc = "idle" /\ o # NoOptions

\* What nagios loads is written anew by every run: whatever earlier runs with other
\* options have left, and wherever they were cut off, it follows the options alone.  The
\* contacts of PagerDuty and traps are members when these are on and only then, but for
\* names that the option for the members contains.
FilesFollowOptions ==
    Settled =>
      /\ conf.traps = o.traps /\ conf.pagerduty = o.pagerduty /\ conf.cron = o.pagerduty
      /\ conf.extra = o.extraconfig /\ conf.broker = o.livestatus
      /\ Cardinality(o.admins) = 1 => conf.members \ Forceable
                                        = (o.members \cup o.extra) \ Forceable
      /\ Cardinality(o.admins) > 1 => conf.members \ Forceable = AdminNames \cup o.extra
      /\ Mentioned("pagerduty") \/ (o.pagerduty <=> "pagerduty" \in conf.members)
      /\ Mentioned("managementstation") \/ (o.traps <=> "managementstation" \in conf.members)

\* Ports follow the option alone, whatever ran before: 443 is open for https, by the site
\* default-ssl, which comes last, and 80 for http.  Other sites go with http, so that one
\* with "ssl" in its name may be enabled while its port 443 is closed, and disabled while it
\* is open.  A site that a2ensite or a2dissite refused to change may be anything.
PortsFollowSites ==
    Settled =>
      /\ 443 \in ports <=> SSL_CONFIGURED(o)
      /\ 80 \in ports <=> HTTP_ENABLED(o)
      /\ 80 \in ports => 80 \in apache.listen
      /\ "default-ssl" \in apache.failed \/ ("default-ssl" \in apache.sites <=> 443 \in ports)
      /\ \A s \in Sites \ apache.failed : s \in apache.sites <=> 80 \in ports

\* After a run that has decoded a certificate key and certificate are those of its options,
\* wherever earlier runs have stopped between the two files.  Unless one was written without
\* the other, by a run that was cut off or failed, they are always of one source; what such
\* a run has left stays if the next options have no certificate.
KeyFitsCertificate ==
    /\ Settled /\ Decodes(o) => <<pem.key, pem.cert>> = <<Printed(o.key), Printed(o.cert)>>
    /\ \/ pem.torn
       \/ <<pem.key, pem.cert>> \in {<<NoText, NoText>>, <<SelfSigned, SelfSigned>>}
             \cup {<<Printed(w.key), Printed(w.cert)>> : w \in Options}

\* After a run the last signal was sent over what is on disk, all contacts of the group are
\* defined and no module is missing.  Nagios works with it, unless it caught none of the
\* signals: they may be lost, and it may have exited over the files of earlier ones.
LoadedIsWhole ==
    Settled => /\ told = Objects(conf, livestatus)
               /\ Fits(told)
               /\ loaded = told \/ missed

\* Nagios is told to load files that do not fit together in two cases only: PagerDuty
\* or traps have been disabled and the contacts are not yet written, or livestatus has
\* been enabled and its package is not yet installed.
UnfitOnlyInBetween ==
    [][told' # told =>
         /\ \A c \in told'.members \ told'.defined :
               c \in Forceable /\ ~(IF c = "pagerduty" THEN o.pagerduty ELSE o.traps)
         /\ told'.members \subseteq told'.defined \/ pc = "commands"
         /\ told'.missing => pc' \notin {"monitors", "idle"}]_vars

\* Accounts follow the options: nagiosro has lines if it has a password, however many it
\* had before, the default administrator goes when there is another one, and a password
\* of the administrator's is on his last line.  An empty one leaves his lines as they are.
AccountsFollowOptions ==
    Settled =>
      /\ users["nagiosro"] # << >> <=>
            o.ropassword # NoText \/ (o.nagiosadmin = "nagiosro" /\ o.password # NoText)
      /\ o.nagiosadmin # "nagiosadmin" => users["nagiosadmin"] = << >>
      /\ o.password # NoText =>
            /\ users[o.nagiosadmin] # << >>
            /\ users[o.nagiosadmin][Len(users[o.nagiosadmin])] = o.password

\* update_password says that it updates "Apache's record of the password": the first line of
\* the account would have to be that of the password.
PasswordInForce ==
    Settled /\ o.password # NoText => Head(users[o.nagiosadmin]) = o.password

\* Options that the script accepts are in force in the end, however often it was cut
\* off, unless others replace them, or nagios has exited and does not make the socket of
\* livestatus.
Acceptable(w) ==
    /\ w.admins # {} /\ w.extra # Bad
    /\ Decodes(w) => {w.key, w.cert} \cap Malformed = {}

ComesInForce ==
    \A w \in Options : Acceptable(w) =>
        (wanted = w ~> \/ Settled /\ o = w
                       \/ wanted # w
                       \/ w.livestatus /\ loaded = NotRunning)
=============================================================================
