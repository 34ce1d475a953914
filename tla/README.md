# Verification of the nagios charm

This directory holds TLA+ models of the nagios charm, the TLC configurations that
check them on small instances, and proofs that TLAPS checks.  `src/` below is the
root of the repository.

The charm installs nagios 4 and keeps its configuration in step with the units that
are related to it.  It is a set of Juju hooks: short programs that run one at a
time, read what remote units have published, and write files.  What makes it hard is
not threads but memory.  Each hook knows the unit it runs for and regenerates only the
files it takes to be that unit's, so the configuration on disk is the sum of many
partial rewrites, in an order nobody chooses, some of which fail or are cut off.
Next to the hooks there is one program that really runs concurrently with itself: the
queue that carries notifications to PagerDuty.

## 1. Inventory

| Component | State it keeps | Operations | Model |
|---|---|---|---|
| monitors-relation hooks (`hooks/monitors_relation_changed.py`, `hooks/common.py`, `actions/rewrite_peer_config.py`) | host files, host group files, reported duplicates | changed, departed, run from config-changed, rewrite-peer-config action | `MonitorsHook` |
| host naming and de-duplication (same files) | none | prefixes, names, groups, related files | `HostNaming` |
| replacement of the configuration (`hooks/common.py`) | `/etc/nagios4`, `-inprogress`, `.bak`, the paths in `nagios.cfg` | initialise, replace, generate, move, commit, crash, retry | `ConfigSwap`, `Publication` |
| reload of nagios (`reload_nagios`) | the log of nagios | note the last line, signal, look, retry, give up | `NagiosReload` |
| config-changed (`hooks/upgrade_charm.py`): nagios | contacts, PagerDuty, traps, commands, nagios.cfg, cgi.cfg, livestatus | one function after the other, early exits, reloads | `ConfigChanged` |
| config-changed: web access; website and dashboard relations | key files, sites, ports, account files, relation data | decode, enable, disable, append, publish | `WebAccess` |
| config-changed: extra contacts | none | validation, contact by contact | `ExtraContacts` |
| update-status (`hooks/update_status.py`) | workload status | set | `MonitorsHook`, `ConfigChanged` |
| check commands (`_make_check_command`, `customize_*`) | command definitions | get or create | `ServiceChecks` |
| PagerDuty queue (`files/pagerduty_nagios.py`) | queue directory, lock, what the server got | enqueue, lock, list, read, send, remove | `PagerDutyQueue`, `AlertDelivery` |
| charmhelpers: key value store (`core/unitdata.py`) | three tables, a transaction | set, unset, hook scope, flush | `UnitData`, `KeyValue` |
| charmhelpers: relation data (`core/hookenv.py`) | caches of one hook | get, set, clear, flush | `RelationCache` |
| charmhelpers: persistent configuration (same) | a copy of the options | load, compare, save | `PersistentConfig` |
| charmhelpers: services framework (`core/services/`) | port files, ready file, services, open ports | reconfigure, manage ports, pause, resume | `ServiceManager` |
| charmhelpers: nrpe checks (`contrib/charmsupport/nrpe.py`) | commands, service files, monitors | add, remove, write | `NrpeChecks` |
| charmhelpers: host files (`core/host.py`) | files, what services have read | write, restart on change, install certificate | `HostFiles` |
| charmhelpers: packages (`fetch/ubuntu.py`, `fetch/snap.py`) | keys, sources, packages | add source, install, purge, retry | `Fetch` |
| charmhelpers: volumes (`contrib/charmsupport/volumes.py`, `core/fstab.py`) | mounts, entries of fstab | mount, unmount, record | `Volumes` |
| charmhelpers: certificates (`contrib/ssl/service.py`) | an authority, keys, requests, certificates | make, request, sign | `ServiceCA` |
| escaping of file names | none | `sanitize_nagios_name` | its effect only (`Escaped`) |
| install | packages | what it leaves is the initial state of `ConfigChanged` | in part |
| stop, traps, self-monitoring, legacy relation, rest of charmhelpers; start but for its effect on nagios | other programs' | sequential effects | not modelled |

How they interact.  Remote units publish in relation data; Juju runs the relation
hook of each unit whose data changed, in no promised order, and a failed hook is
retried before any other hook runs.  A hook reads the latest data of *all* units, not
of the moment it was triggered by.  It copies `/etc/nagios4`, removes and rewrites
host files in the copy, swaps the directories and reloads nagios.  config-changed
writes into `/etc/nagios4` directly, reloads nagios several times on its way without learning
whether a reload was caught, and at its end runs the monitors script as a child without looking at its result; update-status
overwrites the status both have set.  Nagios starts a process of the queue for every
notification and cron starts one every minute; they meet in the queue directory only.
charmhelpers is vendored: this charm's hooks call parts of `core`, `fetch` and
`contrib/ssl`, and the rest is there for every charm it is synchronised into.  Their
state is on the unit's disk or in Juju, and what is hard about them is the same for all:
hooks that fail or are cut off half way and are run again from the start.

What has to be right:

- *Hooks*: when no hook is due, the host files are exactly those the units ask for;
  what is skipped as unrelated is up to date; groups and parents name hosts that exist;
  the status names the duplicates that are on disk; a bad unit does not block the charm
  once it is repaired.
- *Naming*: units of different models never share a nagios host.
- *Replacement*: nagios never sees half a configuration; one of a single version survives any
  crash; nagios.cfg points to its own directory; what is published gets in force.
- *Reload*: a reload that was confirmed is one of the files written before it.
- *config-changed*: files, ports, certificates and accounts follow the last options
  alone, whatever earlier runs with other options left; nagios is told to load files that fit together;
  acceptable options get in force.
- *Checks*: no check runs with the options of another.  *Extra contacts*: those that are
  as documented are taken, others are not.
- *Queue*: a notification is not lost, not sent twice without need, not sent out of
  order, and is answered for in the end.
- *charmhelpers*: what a hook changes is stored as a whole or not at all; what was
  changed while hooks failed is not overlooked by the next good one; relation data is
  what Juju says; ports and services follow relation data; monitors name commands that
  exist; services run with the files that are on disk; what fails unseen is not made worse
  by what follows; a command that was to be retried
  succeeds or raises; volumes are mounted as configured, also after a reboot;
  certificates fit their keys.

`PROJECT.json` lists the hazards behind these sentences, line by line, with the
properties that cover each.

## 2. Modules

### HostNaming
Operators over a *view*, the function from ready units to their settings that one run
of the hook reads.  `PrefixLength` is the loop of `compute_host_prefixes`, `HostName`
the de-duplication in `main`, `GroupOf` is `get_hostgroup_name`, `Matches` the two
cases of `_get_minimal_related_config_paths`.  A name is a record of prefix and
target: that `"<prefix>_<target>"` might equal another target spelled with an
underscore is not modelled.  A digest is a sequence of `HOST_PREFIX_MAX_LENGTH`
digits; that sha256 is injective on the models at hand is `ShaAssumption`.

### MonitorsHook
State: what each unit has published (`remote`), the units `relation-list` gives
(`members`), those that have not left (`alive`), hooks due (`dirty`), the hook to
retry (`failed`), and what the charm made of it (`hostFiles`, `hostgroups`,
`reported`); `overwritten` notes that there were duplicates in the status until update-status replaced them.

| Action | Code |
|---|---|
| `Join`, `Publish`, `Leave` | the remote units and Juju |
| `RelationChanged`, `RelationDeparted` | `main` for a unit, either `Regenerate` or `Raise` |
| `ConfigChanged` | the child process at the end of `upgrade_charm.py`: no remote unit, result ignored |
| `RewritePeerConfig` | the action, `full_rewrite=True` |
| `UpdateStatus` | update-status, the start hook, and a config-changed that exits before it runs the script |

`Regenerate` composes the steps of `main` in their order: remove the related files
(`HostsUnrelatedTo`, `GroupsUnrelatedTo`), write what is missing
(`ApplyRelationConfig`), remove leftovers (`CleanupLeftoverHosts`), refresh the groups
(`RefreshHostgroups`).  A run is one action because Juju serialises hooks, the run
works on a snapshot, and a run that raises has changed nothing but the status;
`ConfigSwap` is where that atomicity is examined.  Details worth knowing:

- A unit related through `nagios` (juju-info) has a faked target and empty monitors in
  the view, but its *relation data* has no target-id: the hook finds no related files
  (`RelatedHost` is given the raw settings).
- `main` lines 125-141 keep the targets that have an address in the view.
  `_prepare_relation_data` only lets units with an address through, so this filter
  keeps everybody and has no operator of its own.
- `parents` is written only when there is one and `address` always; the monitors that
  do not parse raise only when their file is written.
- When pynag deletes the last definition of a file it may leave the file empty; then
  the group file exists and is skipped later.  Both outcomes are allowed (`emptied`).
- The container pattern `3/lxd/1` is the constant function `ParentOf`.
- Three definitions say under which circumstances contents and groups can be relied on.
  `KeepsIdentity`: a unit keeps its target and model while it is related, as charms do.
  `OwnFilesFound`: no unit comes through `nagios`, and no target or application needs
  escaping, so that hooks find the files that are theirs.  `GroupsOfOneModel`: a target with an
  application is announced by one model.  The run `MonitorsHook_old_hosts` shows what happens without
  the last one; the first two are what section 5 says of files that are skipped as unrelated.

### ConfigSwap
One run opened into its steps: clear, copy, replace paths (unlink, then rename),
generate, retire the backup, back up, install, commit (unlink, then rename).  `Crash`
may follow any step.  Recursive removals and copies have an observable middle
(`partial`).  The paths in nagios.cfg are counted: `/etc/nagios4` is a prefix of
`/etc/nagios4-inprogress`, so the textual replacement adds or takes off one suffix.
Host files are generated into the copy only when nagios.cfg leads pynag there
(`Generate`); otherwise the run raises or writes nothing.  It then still unlinks files of the copy,
which it knows by their names (those related to the hook's unit, and leftovers), and pynag knows no host to make a
group of, so what is installed is the old version without some of its files (`Prune`).  `files` of a
directory says whether that has happened to it.
`Publication` is what all these steps amount to: units publish versions, and one version is in
force with all of its files until a newer published one takes its place at once; once a run was
cut off, files of it may go missing until a version is written again.  The refinement maps the version
in force to that of `/etc/nagios4`, or of the backup while there is no `/etc/nagios4`: between
the two moves nagios has loaded that version, and after a crash there it is what an operator
can put back.

### PagerDutyQueue
One process per notification and cron's flushers.  A file is named (`NameFile`),
created empty, may be half written, and is closed; none of this is under the lock.  A
flush acquires the lock, lists, and for each file reads, sends and perhaps removes.
`Answered` is the server's final answer (accepted, or refused as a client error),
`RetryLater` a client error that asks for a retry, `SendFails` a server error or
timeout, `AnswerLost` an acceptance the sender does not learn of.  `CutOff` ends a
process anywhere; the lock goes with its descriptor.  Files of one second are listed
in any order.

`AlertDelivery` says what all this amounts to: an event is put into the queue once, is
answered for while it is there, and goes after that.  The refinement maps the files that
exist to the events in the queue and the server's final answers to answers.

### NagiosReload
`reload_nagios` with the process it signals.  `LookBefore` notes the last "Caught SIGHUP"
line, `Signal` sends, `PollAgain` and `Confirm` look.  Nagios catches a signal, reads its
files and starts (`Catch`, `ReadFiles`, `Started`); a signal that comes meanwhile may be
lost.  A line is the second it was written in, so that two reloads in one second look
alike, and it may scroll out of the thousand lines that are looked at.

### WebAccess and ConfigChanged
`ConfigChanged` is the script of config-changed and upgrade-charm.  `pc` is the function the
script is at; each function is one action, in the order of lines 718-750, but for the two
whose middle matters: the certificate files are decoded one by one, and livestatus is a package
and then a socket.

| Action | Code |
|---|---|
| `Begin` | the module level that reads the options into globals |
| `write_extra_config`, `enable_traps_config`, `enable_pagerduty_config`, `update_commands`, `update_config`, `update_cgi_config`, `configure_livestatus_xinetd` | the functions of those names |
| `EnableSsl`, `DecodeSslKeys`, `DecodeFails` | `enable_ssl` with openssl, which may fail unseen; `decode_ssl_keys`, a file a step; an option that is not base64, or a cut in the middle of a file |
| `LivestatusPackage`, `LivestatusSocket` | the two parts of `enable_livestatus_config`, each of which may fail |
| `UpdateApache`, `UpdatePassword`, `Dashboard` | those whose effect is an operator of `WebAccess` |
| `update_contacts`, `ContactsFail` | `update_contacts`, which runs twice, and its two ways to fail |
| `UpdateNotification` | the two functions that edit the notification defaults |
| `Skip` | the conditions around the last calls |
| `MonitorsRelationChanged` | the child process at the end; `MonitorsHook` models what it does |
| `CutOff`, `Change`, `UpdateStatus`, `NagiosStarts`, `Website` | a killed agent, the operator, and the hooks that share state with the script |

`conf` is what the functions have written, as far as options determine it.  `told` is what nagios
would have made of it when it was last told to reload (the members of the contact group,
the contacts that are defined, and the module of livestatus), `missed` whether it caught none of the
signals for that, and `loaded` what it works with.  `Reload` is `reload_nagios`: the signal is caught or
the function gives up with a warning and the script goes on; over files that do not fit together
(`Fits`) nagios exits (`NotRunning`) or stays with what it has, and once it has exited nobody
catches signals until it is started (`NagiosStarts`).  A function that is cut off is
cut off before or after its action, but for the certificates: each writes its files anew in the
run that follows, whatever is left of them.  In `WebAccess`, key material is known by where
it comes from (`SelfSigned`, an option as Python prints its bytes, `Printed`, or `Empty` for a
file that was opened and not written), and a site by whether "ssl" is in its name; `torn` notes
that key and certificate were last written by different runs, `failed` the sites that apache's
commands refused to change.  What the code does, and a reader may not expect:

- The text of the option decides whether PagerDuty's contact is added to the members:
  "in" finds it within other names (`Within`).  Several administrators replace the members of the option.
- `relation_set(..., app=True)` has no such parameter: it publishes a setting of that name in
  the unit's own data.  The dashboard's scheme follows `ssl_key` alone.
- The website's port is published when the relation is joined and never again.
- The entry of xinetd is never removed.  nagios.cfg asks for the module of livestatus before the
  package is installed (`UnfitOnlyInBetween` says how long that lasts).
- `ssl` set to "true" enables the https site without a certificate; the chain file gets the
  certificate again.
- htdigest.users is only appended to when a password changes, so that old lines stay before
  new ones and apache, which takes the first, goes on asking for the old password (run *passwords*); a
  custom account keeps its lines when the option names another, and an empty password of the
  administrator leaves his lines as they are.  `users` has the lines
  by account, in their order: only lines of one account are ever compared.
- Every site but default-ssl is enabled and disabled with http, also one with "ssl" in its name, whose port 443
  default-ssl then opens or closes after it.
- A reload in the middle of a run may be over files that do not fit (`UnfitOnlyInBetween`), after which
  nagios may be gone and the reloads at the end of the run, which would fit, reach nobody.
- update-status replaces the duplicates in the status by "ready".

### ExtraContacts
The loop of `parse_extra_contacts`, one contact a step.  An option is a list, a text, a number
or text that does not parse.  Keys and characters are compared with `>`, a *proper* superset
(`Exceeds`); therefore names with some illegal characters pass, a contact that has other keys
instead of the required ones raises KeyError, and YAML that does not parse raises on a name
that was never bound.  A contact may be of any shape: no mapping, a name or commands that are lists or
neither texts nor lists.  `Raises` has the errors that the handler, which catches ValueError and
YAMLError, lets through, in the order of the tests; a contact that is skipped before a test does not fail
it.  A list for a name passes the test for characters and raises at `lower`; two lists for
commands are concatenated and taken.

### ServiceChecks
`customize_service`: each family's command line as a sequence of arguments, those that are
`$ARGn$` apart.  The signature drops directories and punctuation (`Spelled`, `Remains`); `Own` are
the texts the charm itself puts into lines, which stay apart without them.  A command stays
when its services go.

### UnitData and KeyValue
The tables of sqlite as committed and as the transaction has them, and one action per
operation.  `blind` notes keys whose changes have no history.  `UnsetRaises` is the primary key
of the history refusing a second row of one hook, which ends the hook.  Unsetting by prefix
writes a row for the pattern and none for the keys.  `KeyValue` is a map with a draft.

### RelationCache
The cache keeps objects, and `relation_for_unit` and `relation_clear` change them in place:
`getCache` has the object of `relation_get`, the other entries share it (`Shared`) or keep an
older one.  An object has settings, lists or texts under the keys that end in "-list" (`WithLists` are the
settings that have such keys), and is `marked` once `relation_for_unit` has written lists and
"__unit__" into it (`Prepared`).  A second call that has to split a list raises; without such keys it does not.
Two spellings of one call are two keys; `flush` looks for the unit in the key.

### PersistentConfig
`Config` through hooks that fail, and saves that are cut off.  An empty copy counts as none, a
torn one raises in every hook.  The charm in the model acts on `changed` and sets a key of its own.

### ServiceManager
One action per service of `reconfigure_services`, with Juju's open ports as they are and as
this hook would leave them.  `leaked` has the ports that a failed hook dropped from its file,
`unsaved` the services whose callbacks ran in a hook that did not save that, `swallowed` says that a
callback called `sys.exit(1)` and the hook ended well all the same.  Services may share ports
(`Contended`), which one of them closes for the other.  Nobody looks at whether a service was stopped or
restarted: `stray` has those that would not stop.  `Pause` masks a service, which does not start
then; `Resume` starts it whether its data is there or not, and as an action triggers no hook, it is
`stray`, too, until a hook comes by.

### NrpeChecks
A hook is the sequence of calls of the charm's version, then `write`.  `EndsWith` says which
service files a check removes because their names end like its own.  Relations come and go
(`Join`, `Break`), each with monitors of its own: `write` merges into what is there or writes this hook's checks
only, and `unseen` has the commands that a relation was never told of, as they are older.  The
restart of the server may fail, which leaves it as it is or down, and update-status leaves it out; both are
`behind`.

### HostFiles
`restart_on_change` around a function that writes files, and `install_ca_cert` after it.
`owed` has the files written by a hook that was cut off before the restart, `missed` the services
whose last restart failed: its result is not looked at and the next hook finds no change.

### Fetch
A source by its kind, with the steps key, check, run, write; packages and snaps by one command.
`gave_up` notes that a command ended with a code that is not tried again, after which the
loop ends as it does after success.

### Volumes
`mounted` is the stack on one mount point and `fstab` its entries.  A reboot mounts all entries.
Other names of a device are not modelled.  `untidy` notes that a call was cut off between a mount or
umount and its entry, as the two are not one step, and no later call sets that right.  That there are
entries at all contradicts the source's own list of limitations (`volumes.py:57`: "fstab is neither consulted
nor updated"): `mount_volume` and `unmount_volume` pass `persist=True` (128, 134), with which `host.mount` adds an
entry and `host.umount` removes one.  The model is of the code.  A workload that was stopped by a call that
failed is not started by a later one that finds all in place.

### ServiceCA
Keys are numbers in the order they are made; a certificate says which key it is for and which
key has signed it.  An authority that was cut off while it was made is never completed, and
every request fails from then on.  The argument for the type of certificate is ignored by the code.

### Library
`NagiosReload`, `ServiceChecks`, `ExtraContacts` and the nine modules of charmhelpers share no
state.  `Library` instantiates all twelve, for any values of the constants, and names what they
assume of them; a behaviour is one of one part, chosen in `Init`, so
that one run explores the sum of their state spaces and not the product.  `MCLibrary` extends it
with the values for TLC.

Each module also has a few operators named `Bug_...`: variants with a plausible
mistake, used to check that each property can fail.  No specification uses them.

## 3. Runs

`tlc -config <cfg> <module>`; `MonitorsHook` is instantiated by `MCMonitorsHook`,
`ConfigChanged` by `MCConfigChanged`, `Library` by `MCLibrary`.

| Configuration | Checks | Result |
|---|---|---|
| `MonitorsHook_all` | `TypeOK`, `ContentsFollowRelations`, `GroupsFollowHosts`, `HostFilesFollowRelations`, `NamesTellModelsApart`, `StatusMatchesFiles` | hold |
| `MonitorsHook_malformed` | `ComesToRest` | holds |
| `MonitorsHook_old_hosts` | `NoOldHosts` | violated |
| `PagerDutyQueue_safety` | `TypeOK`, `NoSilentLoss`, `OrderKept`, `NoDuplicates`, `AlertsDelivered`, `AnsweredUnlessTorn` | hold |
| `PagerDutyQueue_lost` | `EventNotLost` | violated |
| `PagerDutyQueue_blocked` | `EventuallyAnswered` | violated |
| `ConfigSwap_all` | `SurvivingCopy`, `OneSuffixPerCrash`, `ReadyBetweenRuns`, `TakesOver`, `EventuallyInstalled` | hold |
| `ConfigSwap_paths` | `CommittedPathsAreReal` | violated |
| `ConfigChanged_passwords` | `PasswordInForce` | violated |
| `ConfigChanged_all` | `TypeOK`, `FilesFollowOptions`, `PortsFollowSites`, `KeyFitsCertificate`, `LoadedIsWhole`, `UnfitOnlyInBetween`, `AccountsFollowOptions`, `ComesInForce` | hold |
| `Library_all` | `TypeOK` and one or two properties of each part | hold |
| `Library_names` | `OnlyLegalNames` | violated |

What they show.

- *MonitorsHook_all*: four units that announce targets of one model, or of three, from one
  start (`SpecOneScenario`, in which `KeepsIdentity` holds).  Of one model: two of them behind one host, two hosts in one group, with
  changing addresses (given or the ingress one) and units that stop and start being
  ready; skipping unrelated files is sound.  Of three models: all announce one target; digests have
  three digits with a minimal prefix of one, `ma` and `mb` agree in their first digit and
  `mc` differs, so prefixes have length zero, one and two at different times and a
  hook's pattern covers another model's files or does not.
- *malformed*: liveness under `FairSpec`.  One unit may publish monitors that do not
  parse; another is related through `nagios` and a third announces the same target
  with a model id, which needs escaping.  If the units become quiet and nothing
  malformed stays published, all hooks get through and the host files are right.
- *old_hosts*: two hosts of a group in each of two models.  When a unit of one model
  leaves, that target loses its prefix while the other keeps it; the group with the
  prefix is unrelated to the hook and is not rewritten, so it lists a host without file.
  Nagios refuses a configuration with such a group.
- *queue_safety*: two notifications, one of which may be cut off (while it writes or while it
  flushes, so that any kind of step is), one flusher, two
  seconds.  What is read is answered for before it is removed; a listed file stays; an
  event is sent again only after an answer that was lost; and the queue implements
  `AlertDelivery`.  `OrderKept` compares the
  second a file was *created* in with the second in the later file's *name*, and
  excepts events deferred by the server, which the code lets others overtake.
  `AnsweredUnlessTorn` is liveness under `FairSpec`: whatever is in the queue is answered for in the end,
  unless the file of a writer that was cut off in the middle of a line comes before it.
- *queue_lost*, *queue_blocked*: the same queue without crashes but with two flushes at
  once, and with one writer that may be cut off, where the property has no exception.  The first loses a notification: its
  file is listed between creation and writing.  The second never gets past the torn file.
- *ConfigSwap_all*, *ConfigSwap_paths*: two changes of the relation data, up to two crashes, and runs
  that fail.  After a crash between
  the two moves there is no `/etc/nagios4` and every retry raises; `SurvivingCopy` says
  that the files of the backup are of one version then, which is all that is left to an operator, that what
  is in place is of one version otherwise, and that neither lacks a file unless a run was cut off before.
  `paths` shows the crash after which nagios.cfg keeps a path of the in-progress
  directory although later runs end well; only config-changed mends it.
  `OneSuffixPerCrash` says that it never gets worse than that; it is in such a state that runs
  lose files.  `TakesOver` is the refinement of
  `Publication`: a run that is repeated never brings back something older.
- *ConfigChanged_all*: seven configurations that differ in many options at a time, three of which
  the script does not accept (no administrator, bad contacts, a certificate that is not base64), and two
  events at any time, each of which is a change of the options, a run cut off, a lost signal, or a
  command that fails; what fails by itself (nagios that exits over files that do not fit) is no event.
  `FilesFollowOptions`, `PortsFollowSites` and `AccountsFollowOptions` are about
  what earlier runs leave behind, `KeyFitsCertificate` about certificate files that were written one
  without the other, `LoadedIsWhole` and `UnfitOnlyInBetween` about what
  nagios is told to load meanwhile and what it works with in the end, `ComesInForce` about runs that are cut off; it
  excepts livestatus while nagios has exited, as then every run fails for want of the socket until
  somebody starts nagios.  About 250,000 states.
- *ConfigChanged_passwords*: the administrator's password is changed; the new line is behind the old one.
- *Library_all*: each part with the failures its code may meet, about 330,000 states.  Several of its properties
  except a case, by a variable that records it (`lost`, `reverted`, `leaked`, `unsaved`, `stray`,
  `swallowed`, `unseen`, `behind`, `owed`, `missed`, `gave_up`, `untidy`, `cleared`, `setSince`, `blind`):
  each is set at the step at which the code drops its promise, section 2 says which, and the
  property holds of all that is not recorded there.
- *Library_names*: a contact's name with an illegal character, but not all of the legal ones,
  is accepted.

Bounds.  `MaxTime` bounds the clock of the queue and of the reload: one change of second is
enough to order two files, to make a name older than its file, and to tell two lines apart or not.
`MaxVersion` bounds the changes of the relation data (one during a run and one after it),
`MaxCrashes` the runs cut off (a crash, and one in the recovery from it).  In `ConfigChanged`,
`MaxEvents` is two: one set of options leaves something behind and another must take it away, or one change and one
failure or cut, which may come anywhere in either run, or a failure and one in the recovery from it.  In `Library_all`: `max_attempts` 3 and `Polls` 2 (30 and
10 in the code) let a signal be repeated and looked for again; `MaxWrites` 2 makes an older line
to mistake; `CMD_RETRY_COUNT` 3 (as in the code) and `SNAP_NO_LOCK_RETRY_COUNT` 4 (30 in the code) are passed, met and
not met; two relations, one there and one that comes later; two keys, values, units,
hooks and calls are one to keep and one to change; `MaxSets`, `MaxChanges`, `MaxFailures` 2 and `MaxCuts` 1
allow a failure, and one in the recovery from it where the code recovers in more than one step; three devices,
because an entry of fstab is stale only when a second one hides it; `MaxCommands` 2 for a command
that is shared beside one that is not; `MaxContacts` 2 for a contact after one that is skipped.
The offers in `MCMonitorsHook` are chosen per question; a unit keeps its target, model and
machine, as real units do.

Deadlock is checked in every run but those of `Library`:
the action of the operator, cron and Juju's retries always leave something to do.  The
parts of `Library` are bounded, and a part that is a function of its input stops when it
has returned.

Fairness.
- `MonitorsHook`: weak fairness of `RelationHook` as a whole: Juju runs some hook while
  one is due.  Nothing is assumed of the order, of the units, or of config-changed.
- `PagerDutyQueue`: processes run (weak fairness of writing, of flushing and of somebody
  getting the lock); cron starts again and again (part of `Flush`); a server that is asked about an
  event again and again gives a final answer some time (strong fairness of `Answered`).
  `SendFails`, `RetryLater` and `AnswerLost` may happen for ever otherwise.  Cron's flush itself is not cut off in the
  runs that check liveness, as it might be so for ever.
- `ConfigSwap`: the hook is started while it has failed or something is new, a run goes
  on, and generation is not made to fail for ever (strong fairness of `Generate`,
  `Generated`): the operator or the unit repairs what raises.
- `ConfigChanged`: Juju runs the hook it owes, again after a failure (weak fairness of `Begin`), and
  a script that runs goes on (of `Script`).  Changes, failures and cuts are not fair, and are bounded; nothing
  is assumed of who starts nagios (`NagiosStarts`).
- The parts of `Library` have safety properties only.

## 4. Proofs

`tlapm <module>` on each of the eight modules below.  Every invariant and every action property that
a run checks is a theorem, and so are the three refinements.  They hold for all values of the
constants, under the named assumptions of the modules and, where a theorem has a hypothesis,
under that.

- `MonitorsHookProofs`.  `HostNameInjective`: two units of any view come under one host name only if they
  announce one target from one model.  The maximal length distinguishes all models
  (`ShaAssumption`), so there is a least one that does (`PrefixLengthDistinguishes`),
  and it is positive (`PrefixNotEmpty`): prefixed names differ from each other and from
  plain ones.
  `TypeCorrect`: `TypeOK` by induction with `DepartedIsGone` (a departing hook that
  failed is that of a unit no longer among the members), without which
  a retried departure might take a unit that is still there from the members.
  `HostFilesCorrect`: any run that does not raise leaves the names of its
  view, whatever was on disk before; the step that makes `NothingDue` true is
  such a run, and every other step that changes the view leaves a hook due.
  `NamesCorrect` is `HostNameInjective` at the current view.
  `StatusCorrect`: the status is that of the last run unless it has been overwritten (`Reports`, by the same induction), the
  targets reported are those whose names have a prefix (`DuplicatesArePrefixed`), and
  `HostFilesCorrect` says that these names are on disk.
  `ContentsFollow`: not only the names, also what is in the files.  A file is skipped when it looks
  unrelated to the hook, so the invariant has to say *when* a file may be old: `Current` says that it
  is what its units have published unless it is `Pending`, that is, the hook of a unit it
  `Concerns` is due or is to be retried.  `Meant` are the units that come under a name in any run
  in which it exists; it does not depend on the prefix of the moment, which is why a unit may join
  elsewhere without making the file wrong.
  `GroupsFollow`: the same for group files (`GroupsCurrent`), in views where every target with an application
  has one model (`PlainView`), so that a group's hosts have no prefix and the hooks that relate to the group are
  those of its units.
- `ConfigSwapProofs`.  One inductive invariant for five theorems: `IInv` is `TypeOK` with
  `Whole` (where a run stands, which directories are consistent), `Suffixes` (how many
  suffixes the paths have at each step), `InPlace` (what is there while nothing was cut
  off) and `Complete` (no file is missing until then).  None is inductive without the others: installing a consistent directory
  relies on the copy having been one through all the steps before.
  `ReplacementImplemented`, the refinement of `Publication`, needs `Forward` besides: from the copying to the
  installing, the version of the copy lies between the version it was copied from and the one
  that the run has read, and the latter has been published; a copy that lacks files has the version
  that is in force.  Every step is then one of `Told`, `Written`, `Lost` and `Unmoved`.
- `PagerDutyQueueProofs`.  `Flushes` says that who flushes holds the lock and that nobody else
  has a list; `Files` that listed files exist, each listed once, and why a file is not there: its process
  has not come to it, or the server has answered; `IInv` is both with `TypeOK`.  From it `LockIsHeld`,
  `FilesAreThere`, `NothingLost`, and `DeliveryImplemented`, the refinement of
  `AlertDelivery`, one action after the other.  `NothingTwice` adds `Answers` (an answered
  event is still on disk only while the process that got the answer is about to remove it, or
  unconfirmed), `OrderIsKept` adds `Order` (older files stand before newer ones in every list,
  unless they are gone or were deferred).
- `ConfigChangedProofs`.  `Shape` is where the script stands, `Written` what has been
  written by each stage, `Forcing` which members the script has forced so far, `Loading` what
  nagios has been told by then and that it works with it or has caught no signal, `Known` that only the contacts of PagerDuty and of traps are ever
  members without a definition (which holds between runs too, and makes the action property
  `FitsOrInBetween` true of the first reload of a run), `Web` the same for
  sites and certificates, with the key that a run has written before its certificate.
  `TypeCorrect` is `Shape` with `Typed`, the types of what the functions write; `AccountsFollow`
  is by `AccountsSoFar`, which says of each stage which accounts have the last password
  of the options at the end of their lines, and which are gone.  `FilesFollow` assumes
  `NamesFree` (no contact of the operator's is named like PagerDuty's or the traps'), `LoadsAll`
  and `FitsOrInBetween` that with one administrator the option names members that exist (`MembersKnown`), `KeyFits` that
  a certificate is given with its key (`KeyGiven`).  Nothing is assumed of signals, of commands, or of where runs
  were cut off.  `PortsFollow`, `TypeCorrect` and `AccountsFollow` have no
  hypothesis.  The instance of TLC meets all three.
- `HookDataProofs`: what hooks keep.  `StorageImplementsMap`: each action of the store is one of `KeyValue`.
  `HistoryTellsStore` by `Histories`, which says of both the committed tables and the
  transaction that the last row tells the value.  `CacheAnswers` by `CacheInv`: an object that
  `relations()` shares is in the cache of `relation_get` too (`SharedIsCached`), an object is marked and split
  exactly while `relation_for_unit` has an entry for it, of which a second one found no lists (`SplitOnce`), and an entry differs from Juju's settings only after a
  `relation_set` that it records (`Served`).  `ChangesAreHandled` by `OptionInv`: a
  hook compares with the copy that is on disk, and what the charm has acted on is that copy, or the
  current options once it has come to its end.
- `MachineProofs`: what charmhelpers do to the machine.  `ServicesFollowFiles` by `HookProgress`, which says for
  each step of the hook which services work with what, including that the services of a file
  that is still to be replaced need not, nor those whose last restart failed.  `CallsDoOrRaise` by `FetchInv`: how far each kind of call has come at
  each step (`SourceProgress`, `CommandProgress`).  `VolumeIsInPlace` by `VolumeInv`: the steps that are left are those that the
  options and the last step call for (`Planned`), mounts and entries agree but between two
  steps (`Tidy`), and a device that was mounted is on top (`OnTop`).  `CertificatesAreFit` by `AuthorityInv`: the authority
  is made once and in order (`Built`), nothing is signed before (`Issued`), and a certificate keeps its key.
- `CommandsProofs`: `CommandsAreFit`.  A signature is all that tells two commands apart, so the question is when
  joining is injective.  `SignatureTells`: the first text is the plugin, hence the family; for families that
  give their values as `$ARGn$`, every argument is one of the charm's own texts or a place, and a
  place is the mark with one text after it, so the line can be read back from its end (`KeptDecoded`).
  The invariant `CommandsInv` then says that every check has *a* command that does what it is meant to
  do, and only one under its signature.
- `ChecksProofs`.  `ConfirmedLoads` by `NewLineTells`: once the last line was noted, a line
  that differs from it means that nagios has read its files, or is about to.  Nothing is needed
  of the clock, which is why lines that look alike only cost another signal.  `MonitorsAreCommands` by `NrpeInv`:
  commands and monitors of a relation differ in what it has not seen, and in checks of the version while that is under way (`Differing`), and the
  queue of removals is what this hook's calls have made it (`FollowsCalls`).  `ServicesFollow` by `ManagerInv`: a port that is open is in a file, was dropped by this
  hook or has leaked, and one that only one service has is not closed by others (`PortsKept`), and a service is marked ready when its callbacks have run (`ReadyKept`).
  `ContactsAreParsed` by `ContactsInv`: what has been taken comes from the option in its order (`ReadUpTo`).
  `TypeCorrect` puts the types of the twelve parts together.

The assumptions of `Library` are about marks ("no value", "deleted") that are not values, bounds that
are numbers, services that are registered once, a certificate that is not among the
files of services, and texts of the charm that stay apart in a signature.

What joining computes for sequences of every length needs induction, and the library's induction
theorems take an operator, which the installed provers cannot be given.  `NumbersInductive` in
`CommandsProofs` gets around that: it says of a *set* of numbers that with zero and successors it has all
numbers, by the well-foundedness of `<`, and each argument defines the set of lengths for which its claim
holds.  Where the code itself goes through a sequence step by step (contacts, accounts, services), the
invariant of the steps is the induction.

Only model-checked is what needs fairness: `ComesToRest`, `AnsweredUnlessTorn`, `EventuallyInstalled`
and `ComesInForce`.  Liveness and ENABLED are out of the prover's reach.

## 5. Not modelled

Joined names that collide as strings, the escaping of file names, template texts, pynag's own
reading of nagios files, the fields of an event, permissions, and the service contexts, users,
bonds, kernels, and version comparisons of charmhelpers: conversions and wrappers of commands
without state.  install, start and stop are sequences of commands of other programs; only what
install leaves for config-changed and what the start hook does to nagios and to the status
(`NagiosStarts`, `UpdateStatus`) are in the models.  The stop hook and `provide_data` of the
services framework, and upgrades and held packages in `fetch`, are left out; they keep no state that a
property here is about.

Known and not covered by a property that holds: a container's parent is looked up when its own file
is written, so it may name a host that has left, and files of targets that
need escaping are not removed in their own hook.  Both have the cause of *old_hosts*, files that
are skipped as unrelated.

## 6. Plan

Done, in this order: `HostNaming`, `MonitorsHook` with its instances, the proofs of
both, `PagerDutyQueue`, `ConfigSwap`; then `NagiosReload`, `ConfigChanged` with `WebAccess`,
`ExtraContacts`, `ServiceChecks`, the parts of charmhelpers, `AlertDelivery` and `KeyValue`, and their proofs.

Then `Library`, with every part for any constants, a theorem for each safety property that a run checks, and
`Publication`, the abstract specification of the replacement.

Next:
1. The escaping of file names as an operator, which makes `Escaped` a consequence, and with it
   `ContentsFollow` for targets that need escaping but whose files are found all the same.
2. The fields of `RelationCache` and `ServiceManager` that record exceptions (`cleared`, `leaked`, `unsaved`, `stray`, and `missed`
   of `HostFiles`): theorems that bound how long an exception lasts.
