-------------------------------- MODULE Fetch --------------------------------
(***************************************************************************)
(* Package sources and packages (src/hooks/charmhelpers/fetch/ubuntu.py    *)
(* and snap.py): add_source imports a key and then adds the source,        *)
(* commands of apt are run once, or with retries when they are fatal, and  *)
(* commands of snap always with retries.                                   *)
(***************************************************************************)
EXTENDS Naturals, FiniteSets

CONSTANTS
    Sources,          \* records: kind, whether release and pocket (or machine) fit
    Packages, keyring_package,
    CMD_RETRY_COUNT, SNAP_NO_LOCK_RETRY_COUNT,
    ExitCodes,        \* of commands that fail, 1 and 100 among them
    NoCall,
    MaxCalls          \* bound on the calls

APT_NO_LOCK == 100
SNAP_NO_LOCK == 1

VARIABLES
    call,          \* the call under way, or NoCall: a source with a key, or packages
    step,          \* "key", "check", "run", "write", or how the last call ended
    retry_count,
    keys,          \* in trusted.gpg.d, named by the source they came with
    sources,       \* what apt reads
    installed,
    gave_up,       \* a fatal command has ended without success and without an exception
    calls

state == <<keys, sources, installed>>
vars == <<call, step, retry_count, state, gave_up, calls>>

Kinds == {"distro", "proposed", "repository", "staging", "pocket", "unknown"}
Ended == {"ok", "raised"}

\* The commands of the handlers: which exit codes are tried again, and how often.
RepositoryCommand == [codes |-> {1}, fatal |-> TRUE, retries |-> CMD_RETRY_COUNT]
AptCommand(fatal) ==
    [codes |-> {1, APT_NO_LOCK}, fatal |-> fatal, retries |-> CMD_RETRY_COUNT]
_snap_exec == [codes |-> {SNAP_NO_LOCK}, fatal |-> TRUE, retries |-> SNAP_NO_LOCK_RETRY_COUNT]

Command == IF call.what = "packages" THEN AptCommand(call.fatal)
           ELSE IF call.what = "snaps" THEN _snap_exec
           ELSE IF call.source.kind = "pocket" THEN AptCommand(TRUE) ELSE RepositoryCommand

Call(c, first) ==
    /\ step \in Ended /\ calls < MaxCalls
    /\ calls' = calls + 1
    /\ call' = c /\ step' = first
    /\ retry_count' = 0 /\ gave_up' = FALSE
    /\ UNCHANGED state

\* An unknown source is logged, or raises with fail_invalid.
add_source(source, key, fail_invalid) ==
    Call([what |-> "source", source |-> source, key |-> key],
         IF source.kind = "unknown" THEN IF fail_invalid THEN "raised" ELSE "ok"
         ELSE IF key THEN "key" ELSE "check")

Run(what, package, fatal, remove) ==
    Call([what |-> what, package |-> package, fatal |-> fatal, remove |-> remove], "run")

apt_install(package, fatal) == Run("packages", package, fatal, FALSE)
apt_purge(package, fatal) == Run("packages", package, fatal, TRUE)
snap_install(package) == Run("snaps", package, TRUE, FALSE)
snap_remove(package) == Run("snaps", package, TRUE, TRUE)

\* GPGKeyError, or curl has failed: nothing is added.
import_key ==
    /\ step = "key"
    /\ \/ step' = "check" /\ keys' = keys \cup {call.source}
       \/ step' = "raised" /\ UNCHANGED keys
    /\ UNCHANGED <<call, retry_count, sources, installed, gave_up, calls>>

\* _add_proposed, _verify_is_ubuntu_rel; the pocket is looked up after the keyring
\* package was installed.
Check ==
    /\ step = "check"
    /\ step' = IF call.source.kind = "distro" THEN "ok"
               ELSE IF ~call.source.release THEN "raised"
               ELSE IF \/ call.source.kind = "proposed"
                       \/ call.source.kind = "pocket" /\ keyring_package \in installed
               THEN "write" ELSE "run"
    /\ UNCHANGED <<call, retry_count, state, gave_up, calls>>

Succeed ==
    /\ step = "run"
    /\ step' = IF call.what = "source" /\ call.source.kind = "pocket" THEN "write" ELSE "ok"
    /\ CASE call.what # "source" ->
              /\ installed' = IF call.remove THEN installed \ {call.package}
                              ELSE installed \cup {call.package}
              /\ UNCHANGED sources
         [] call.what = "source" /\ call.source.kind = "pocket" ->
              installed' = installed \cup {keyring_package} /\ UNCHANGED sources
         [] OTHER -> sources' = sources \cup {call.source} /\ UNCHANGED installed
    /\ UNCHANGED <<call, retry_count, keys, gave_up, calls>>

\* Broken variant of FailedRun: the last attempt ends the loop.
Bug_FailedRun(code) ==
    /\ step = "run"
    /\ retry_count' = retry_count + 1
    /\ step' = IF retry_count' <= Command.retries /\ Command.fatal THEN "run" ELSE "ok"
    /\ UNCHANGED <<call, state, gave_up, calls>>

\* _run_with_retries and _snap_exec: the count is looked at first, then the exit code; a code that is
\* not tried again ends the loop as success does.
FailedRun(code) ==
    /\ step = "run"
    /\ IF ~Command.fatal
       THEN step' = "ok" /\ UNCHANGED <<retry_count, gave_up>>
       ELSE /\ retry_count' = retry_count + 1
            /\ IF retry_count' > Command.retries
               THEN step' = "raised" /\ UNCHANGED gave_up
               ELSE IF code \in Command.codes
                    THEN UNCHANGED <<step, gave_up>>
                    ELSE /\ gave_up' = TRUE
                         /\ step' = IF call.what = "source" /\ call.source.kind = "pocket"
                                    THEN "write" ELSE "ok"
    /\ UNCHANGED <<call, state, calls>>

\* cloud-archive.list has one pocket, proposed.list another.
Write ==
    /\ step = "write"
    /\ IF call.source.kind = "pocket" /\ ~call.source.pocket
       THEN step' = "raised" /\ UNCHANGED sources
       ELSE /\ step' = "ok"
            /\ sources' = {s \in sources : s.kind # call.source.kind} \cup {call.source}
    /\ UNCHANGED <<call, retry_count, keys, installed, gave_up, calls>>

Init ==
    /\ call = NoCall /\ step = "ok" /\ retry_count = 0
    /\ keys = {} /\ sources = {} /\ installed = {}
    /\ gave_up = FALSE /\ calls = 0

Next ==
    \/ \E s \in Sources, key, fail \in BOOLEAN : add_source(s, key, fail)
    \/ \E p \in Packages, fatal \in BOOLEAN : apt_install(p, fatal) \/ apt_purge(p, fatal)
    \/ \E p \in Packages : snap_install(p) \/ snap_remove(p)
    \/ import_key \/ Check \/ Succeed \/ (\E code \in ExitCodes : FailedRun(code)) \/ Write

Spec == Init /\ [][Next]_vars
-----------------------------------------------------------------------------
TypeOK ==
    /\ step \in {"key", "check", "run", "write"} \cup Ended
    /\ retry_count \in Nat
    /\ keys \subseteq Sources /\ sources \subseteq Sources

\* "Run a command and retry until success or max_retries is reached": a fatal call that
\* does not raise has done what it was asked for, unless its command has ended with a code
\* that is not tried again; and a source that came with a key is never there without it.
DoneOrRaised ==
    step = "ok" /\ call # NoCall /\ ~gave_up =>
        IF call.what # "source"
        THEN call.fatal => (call.package \in installed <=> ~call.remove)
        ELSE /\ call.source.kind \notin {"unknown", "distro"} => call.source \in sources
             /\ call.source.kind # "unknown" /\ call.key => call.source \in keys
=============================================================================
