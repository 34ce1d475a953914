--------------------------------- MODULE Library -------------------------------
(***************************************************************************)
(* The components that share no state with others: the reload of nagios,   *)
(* the commands of checks, and the parts of charmhelpers.  A behaviour is  *)
(* one of one part, which Init chooses.                                    *)
(***************************************************************************)
EXTENDS Integers, Sequences, FiniteSets

CONSTANTS
    max_attempts, Polls, MaxWrites, MaxTime,                      \* NagiosReload
    Keys, Values, NoValue, Deleted, Prefixes,                     \* UnitData
    Units, local_unit, Settings, WithLists, NoSettings, Nothing, Shared, MaxSets,  \* RelationCache
    NoCopy, Empty, Torn,                                          \* PersistentConfig
    Order, Remotes, required_keys, Definitions,                   \* ServiceManager
    Checks, EndsWith, Relations, Versions,                        \* NrpeChecks
    Paths, ca_file, NoFile, Partial, Daemons, restart_map,        \* HostFiles
    Sources, PackageNames, keyring_package, CMD_RETRY_COUNT,
    SNAP_NO_LOCK_RETRY_COUNT, ExitCodes, NoCall, MaxCalls,        \* Fetch
    Monitors, Extras, Spelled, NoText, NoService, CheckConfigs, MaxCommands,  \* ServiceChecks
    Devices,                                                      \* Volumes
    valid_name_chars, Characters, KeySets, MaxContacts,           \* ExtraContacts
    MaxKeys,                                                      \* ServiceCA
    MaxHooks, MaxChanges, MaxFailures, MaxCuts

ASSUME ReloadAssumption ==
    /\ max_attempts \in Nat \ {0} /\ Polls \in Nat \ {0}
    /\ MaxWrites \in Nat /\ MaxTime \in Nat

\* Values are told apart from the marks for "no value" and "deleted".
ASSUME DataAssumption ==
    /\ MaxHooks \in Nat
    /\ NoValue \notin Values /\ Deleted # NoValue /\ Deleted \notin Values
    /\ \A prefix \in Prefixes : prefix \subseteq Keys

ASSUME OptionAssumption ==
    {NoCopy, Empty, Torn, NoValue} \cap [option : Values, own : Values \cup {NoValue}] = {}

ASSUME NrpeAssumption ==
    /\ Versions \subseteq Seq({"add", "remove"} \X Checks)
    /\ \A c \in Checks : c \in EndsWith[c]

\* The certificate is a file, restart_map has the others; half a file is none to be written.
ASSUME HostAssumption ==
    /\ ca_file \in Paths /\ restart_map \in [Paths \ {ca_file} -> SUBSET Daemons]
    /\ Partial \notin Values

ASSUME CertificateAssumption == MaxKeys \in Nat

ASSUME VolumeAssumption == {"ephemeral", "invalid"} \cap Devices = {}

ASSUME ContactBound == MaxContacts \in Nat

VARIABLE part

VARIABLES disk, loaded, nagios, pending, logged, second, call, last_reload_message,
          attempt, poll, confirmed
Reload == INSTANCE NagiosReload

VARIABLES kv, kv_revisions, hooks, kvNow, revisionsNow, hooksNow, revision, blind
Data == INSTANCE UnitData

VARIABLES juju, getCache, unitCache, allCache, sets, cleared, setSince
Cache == INSTANCE RelationCache

ASSUME CacheAssumption ==
    /\ local_unit \in Units /\ NoSettings \in Settings /\ MaxSets \in Nat
    /\ {Nothing, Shared} \cap Cache!Objects = {}

VARIABLES option, saved, hook, current, _prev_dict, applied, own, lost, reverted,
          optionChanges, optionFailures
Option == INSTANCE PersistentConfig WITH
            None <- NoCopy, file <- saved, changes <- optionChanges,
            failures <- optionFailures,
            MaxOptions <- MaxChanges + 1

VARIABLES published, ports, port_file, ready_file, running, masked, opened, draft, next, due,
          told, unsaved, forgotten, leaked, stray, swallowed, changes, failures
Manager == INSTANCE ServiceManager WITH
            Units <- Remotes, MaxFailures <- 1

\* A service is registered once.
ASSUME ManagerAssumption ==
    /\ Order \in Seq(Manager!Services)
    /\ \A i, j \in DOMAIN Order : Order[i] = Order[j] => i = j
    /\ \A set \in SUBSET Manager!Services : set # Torn

VARIABLES version, nrpeCommands, exported, served, nrpeRelations, monitors, unseen, nagios_user, nextCall,
          checks, remove_check_queue, behind, failed, nrpeHooks, nrpeFailures
Nrpe == INSTANCE NrpeChecks WITH
            commands <- nrpeCommands, services <- exported, loaded <- served, joined <- nrpeRelations,
            next <- nextCall, hooks <- nrpeHooks, failures <- nrpeFailures,
            MaxHooks <- MaxHooks + 1, MaxFailures <- 1

VARIABLES wanted, file, before, inUse, trusted, pc, todo, owed, missed, fileChanges, cuts
Host == INSTANCE HostFiles WITH
            ca_cert <- ca_file, Contents <- Values, Services <- Daemons, changes <- fileChanges

VARIABLES request, step, retry_count, keys, sources, installed, gave_up, requests
Packages == INSTANCE Fetch WITH
            Packages <- PackageNames, call <- request, calls <- requests

VARIABLES commands, services, config
Commands == INSTANCE ServiceChecks WITH Names <- Monitors, Configs <- CheckConfigs

\* The charm's own texts and the timeout, a number, stay apart in a signature.
ASSUME CommandAssumption ==
    /\ DOMAIN Extras \subseteq DOMAIN Commands!Plugins
    /\ DOMAIN Spelled \cap Commands!Own = {}
    /\ \A c \in CheckConfigs : c.check_timeout \notin DOMAIN Spelled /\ c.check_timeout # "ARG"
    /\ Spelled \in [DOMAIN Spelled -> Seq(Commands!Remains)]

VARIABLES volume, mounted, fstab, volumeTodo, result, stopped, untidy, volumeChanges,
          volumeFailures
Volume == INSTANCE Volumes WITH
            todo <- volumeTodo, changes <- volumeChanges, failures <- volumeFailures,
            MaxFailures <- MaxFailures + 1

VARIABLES extra_contacts_raw, extra_contacts, position, outcome
Contacts == INSTANCE ExtraContacts WITH result <- outcome

VARIABLES ca_dir, layout, conf, ca_key, ca_cert, key, csr, crt, keys_made, sslStep,
          common_name, sslOutcome, refused
Authority == INSTANCE ServiceCA WITH
            Names <- Units, Missing <- NoFile,
            step <- sslStep, outcome <- sslOutcome

reloadVars == <<disk, loaded, nagios, pending, logged, second, call, last_reload_message,
    attempt, poll, confirmed>>
dataVars == <<kv, kv_revisions, hooks, kvNow, revisionsNow, hooksNow, revision, blind>>
cacheVars == <<juju, getCache, unitCache, allCache, sets, cleared, setSince>>
optionVars == <<option, saved, hook, current, _prev_dict, applied, own, lost, reverted,
    optionChanges, optionFailures>>
managerVars == <<published, ports, port_file, ready_file, running, masked, opened, draft,
    next, due, told, unsaved, forgotten, leaked, stray, swallowed, changes, failures>>
nrpeVars == <<version, nrpeCommands, exported, served, nrpeRelations, monitors, unseen, nagios_user, nextCall,
    checks, remove_check_queue, behind, failed, nrpeHooks, nrpeFailures>>
hostVars == <<wanted, file, before, inUse, trusted, pc, todo, owed, missed, fileChanges, cuts>>
packagesVars == <<request, step, retry_count, keys, sources, installed, gave_up, requests>>
commandsVars == <<commands, services, config>>
volumesVars == <<volume, mounted, fstab, volumeTodo, result, stopped, untidy, volumeChanges,
    volumeFailures>>
contactsVars == <<extra_contacts_raw, extra_contacts, position, outcome>>
authorityVars == <<ca_dir, layout, conf, ca_key, ca_cert, key, csr, crt, keys_made, sslStep,
    common_name, sslOutcome, refused>>
-----------------------------------------------------------------------------
Init ==
    /\ part \in {"reload", "data", "cache", "option", "manager", "nrpe", "host", "fetch",
                 "commands", "volumes", "contacts", "authority"}
    /\ Reload!Init /\ Data!Init /\ Packages!Init
    /\ Cache!Init /\ (part # "cache" => juju = CHOOSE j \in [Units -> Settings] : TRUE)
    /\ Option!Init /\ (part # "option" => option = CHOOSE v \in Values : TRUE)
    /\ Manager!Init /\ (part # "manager" => ports = CHOOSE d \in Definitions : TRUE)
    /\ Nrpe!Init /\ (part # "nrpe" => version = (CHOOSE c \in Versions : TRUE) /\ nagios_user /\ nrpeRelations = {})
    /\ Host!Init /\ (part # "host" => \A p \in DOMAIN wanted : wanted[p] = CHOOSE v \in Values : TRUE)
    /\ Volume!Init /\ (part # "volumes" => volume = "ephemeral")
    /\ Authority!Init /\ common_name = CHOOSE u \in Units : TRUE
    /\ Contacts!Init
    /\ (part # "contacts" => extra_contacts_raw = [kind |-> "list", list |-> <<>>])
    /\ Commands!Init /\ (part # "commands" => config = CHOOSE c \in CheckConfigs : TRUE)

Next ==
    \/ /\ part = "reload" /\ Reload!Next
       /\ UNCHANGED <<part, dataVars, cacheVars, optionVars, managerVars, nrpeVars,
                       hostVars, packagesVars, commandsVars, volumesVars, contactsVars,
                       authorityVars>>
    \/ /\ part = "data" /\ Data!Next
       /\ UNCHANGED <<part, reloadVars, cacheVars, optionVars, managerVars, nrpeVars,
                       hostVars, packagesVars, commandsVars, volumesVars, contactsVars,
                       authorityVars>>
    \/ /\ part = "cache" /\ Cache!Next
       /\ UNCHANGED <<part, reloadVars, dataVars, optionVars, managerVars, nrpeVars,
                       hostVars, packagesVars, commandsVars, volumesVars, contactsVars,
                       authorityVars>>
    \/ /\ part = "option" /\ Option!Next
       /\ UNCHANGED <<part, reloadVars, dataVars, cacheVars, managerVars, nrpeVars,
                       hostVars, packagesVars, commandsVars, volumesVars, contactsVars,
                       authorityVars>>
    \/ /\ part = "manager" /\ Manager!Next
       /\ UNCHANGED <<part, reloadVars, dataVars, cacheVars, optionVars, nrpeVars,
                       hostVars, packagesVars, commandsVars, volumesVars, contactsVars,
                       authorityVars>>
    \/ /\ part = "nrpe" /\ Nrpe!Next
       /\ UNCHANGED <<part, reloadVars, dataVars, cacheVars, optionVars, managerVars,
                       hostVars, packagesVars, commandsVars, volumesVars, contactsVars,
                       authorityVars>>
    \/ /\ part = "host" /\ Host!Next
       /\ UNCHANGED <<part, reloadVars, dataVars, cacheVars, optionVars, managerVars,
                       nrpeVars, packagesVars, commandsVars, volumesVars, contactsVars,
                       authorityVars>>
    \/ /\ part = "fetch" /\ Packages!Next
       /\ UNCHANGED <<part, reloadVars, dataVars, cacheVars, optionVars, managerVars,
                       nrpeVars, hostVars, commandsVars, volumesVars, contactsVars,
                       authorityVars>>
    \/ /\ part = "commands" /\ Commands!Next
       /\ UNCHANGED <<part, reloadVars, dataVars, cacheVars, optionVars, managerVars,
                       nrpeVars, hostVars, packagesVars, volumesVars, contactsVars,
                       authorityVars>>
    \/ /\ part = "volumes" /\ Volume!Next
       /\ UNCHANGED <<part, reloadVars, dataVars, cacheVars, optionVars, managerVars,
                       nrpeVars, hostVars, packagesVars, commandsVars, contactsVars,
                       authorityVars>>
    \/ /\ part = "contacts" /\ Contacts!Next
       /\ UNCHANGED <<part, reloadVars, dataVars, cacheVars, optionVars, managerVars,
                       nrpeVars, hostVars, packagesVars, commandsVars, volumesVars,
                       authorityVars>>
    \/ /\ part = "authority" /\ Authority!Next
       /\ UNCHANGED <<part, reloadVars, dataVars, cacheVars, optionVars, managerVars,
                       nrpeVars, hostVars, packagesVars, commandsVars, volumesVars,
                       contactsVars>>

vars == <<part, reloadVars, dataVars, cacheVars, optionVars, managerVars, nrpeVars,
          hostVars, packagesVars, commandsVars, volumesVars, contactsVars, authorityVars>>

Spec == Init /\ [][Next]_vars
-----------------------------------------------------------------------------
TypeOK == /\ Reload!TypeOK /\ Data!TypeOK /\ Cache!TypeOK /\ Option!TypeOK /\ Manager!TypeOK
          /\ Nrpe!TypeOK /\ Host!TypeOK /\ Packages!TypeOK /\ Commands!TypeOK
          /\ Volume!TypeOK /\ Contacts!TypeOK /\ Authority!TypeOK

ConfirmedIsLoading == Reload!ConfirmedIsLoading
StorageIsAtomic == Data!StorageIsAtomic
HistoryFollowsStore == Data!HistoryFollowsStore
AnswersAreJujus == Cache!AnswersAreJujus
ChangesHandled == Option!ChangesHandled
ServicesFollowData == Manager!ServicesFollowData
MonitorsHaveCommands == Nrpe!MonitorsHaveCommands
ServicesUseFiles == Host!ServicesUseFiles
DoneOrRaised == Packages!DoneOrRaised
CommandsFit == Commands!CommandsFit
VolumeInPlace == Volume!VolumeInPlace
ContactsParsed == Contacts!ContactsParsed
CertificatesFit == Authority!CertificatesFit
OnlyLegalNames == Contacts!OnlyLegalNames
=============================================================================
