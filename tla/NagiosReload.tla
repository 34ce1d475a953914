---------------------------- MODULE NagiosReload ----------------------------
(***************************************************************************)
(* reload_nagios (src/hooks/common.py): the charm writes files, sends      *)
(* SIGHUP to nagios and looks for a new "Caught SIGHUP" line in its log.   *)
(* A signal is lost when nagios is busy restarting, lines of one second    *)
(* look alike, and only the last 1000 lines of the log are looked at.      *)
(***************************************************************************)
EXTENDS Integers

CONSTANTS
    max_attempts,  \* signals of one call, 30 in the code
    Polls,         \* looks at the log after each signal, 10 in the code
    MaxWrites,     \* bound on the calls of reload_nagios
    MaxTime        \* bound on the clock, in seconds

None == -1   \* no "Caught SIGHUP" line among the last 1000

VARIABLES
    disk,      \* how often files have been written
    loaded,    \* the files that nagios works with
    nagios,    \* what nagios is doing
    pending,   \* whether a signal is waiting for nagios
    logged,    \* the second in the last "Caught SIGHUP" line
    second,    \* the clock
    call,      \* where reload_nagios is
    last_reload_message, attempt, poll,
    confirmed  \* whether the last call was told of a reload

nagiosVars == <<loaded, nagios, pending, logged>>
callVars == <<call, last_reload_message, attempt, poll, confirmed>>
vars == <<disk, second, nagiosVars, callVars>>
-----------------------------------------------------------------------------
(***************************************************************************)
(* The charm.                                                              *)
(***************************************************************************)
\* A function of the charm has written its files and calls reload_nagios.
Write ==
    /\ call = "done"
    /\ disk < MaxWrites
    /\ disk' = disk + 1
    /\ call' = "look"
    /\ confirmed' = FALSE
    /\ UNCHANGED <<second, nagiosVars, last_reload_message, attempt, poll>>

\* Broken variant of LookBefore: the line that an earlier call has seen is kept.
Bug_LookOnce ==
    /\ call = "look"
    /\ last_reload_message' = IF disk = 1 THEN logged ELSE last_reload_message
    /\ call' = "signal" /\ attempt' = 1
    /\ UNCHANGED <<disk, second, nagiosVars, poll, confirmed>>

LookBefore ==
    /\ call = "look"
    /\ last_reload_message' = logged
    /\ call' = "signal" /\ attempt' = 1
    /\ UNCHANGED <<disk, second, nagiosVars, poll, confirmed>>

Signal ==
    /\ call = "signal"
    /\ pending' \in IF nagios = "running" THEN {TRUE} ELSE {pending, TRUE}
    /\ call' = "poll" /\ poll' = 1
    /\ UNCHANGED <<disk, second, loaded, nagios, logged, last_reload_message, attempt,
                   confirmed>>

reload_detected == logged # None /\ logged # last_reload_message

Confirm ==
    /\ call = "poll"
    /\ reload_detected
    /\ call' = "done" /\ confirmed' = TRUE
    /\ UNCHANGED <<disk, second, nagiosVars, last_reload_message, attempt, poll>>

\* Broken variant of AttemptsLeft: one signal too many.
Bug_AttemptsLeft == attempt <= max_attempts

AttemptsLeft == attempt < max_attempts

\* Look again, signal again, or give up with a warning.
PollAgain ==
    /\ call = "poll"
    /\ ~reload_detected
    /\ \/ poll < Polls /\ poll' = poll + 1 /\ UNCHANGED <<call, attempt>>
       \/ poll = Polls /\ AttemptsLeft
          /\ attempt' = attempt + 1 /\ call' = "signal" /\ UNCHANGED poll
       \/ poll = Polls /\ ~AttemptsLeft
          /\ call' = "done" /\ UNCHANGED <<attempt, poll>>
    /\ UNCHANGED <<disk, second, nagiosVars, last_reload_message, confirmed>>
-----------------------------------------------------------------------------
(***************************************************************************)
(* Nagios, its log and the clock.                                          *)
(***************************************************************************)
\* "Caught SIGHUP, restarting..."
Catch ==
    /\ nagios = "running" /\ pending
    /\ pending' = FALSE
    /\ logged' = second
    /\ nagios' = "restarting"
    /\ UNCHANGED <<disk, second, loaded, callVars>>

ReadFiles ==
    /\ nagios = "restarting"
    /\ loaded' = disk
    /\ nagios' = "starting"
    /\ UNCHANGED <<disk, second, pending, logged, callVars>>

\* Signals that were pending may have been discarded on the way.
Started ==
    /\ nagios = "starting"
    /\ nagios' = "running"
    /\ pending' \in {pending, FALSE}
    /\ UNCHANGED <<disk, second, loaded, logged, callVars>>

\* A thousand other lines, or a new log file.
Scroll ==
    /\ logged # None
    /\ logged' = None
    /\ UNCHANGED <<disk, second, loaded, nagios, pending, callVars>>

Tick ==
    /\ second < MaxTime
    /\ second' = second + 1
    /\ UNCHANGED <<disk, nagiosVars, callVars>>
-----------------------------------------------------------------------------
Init ==
    /\ disk = 0 /\ loaded = 0 /\ second = 0
    /\ nagios = "running" /\ pending = FALSE /\ logged = None
    /\ call = "done" /\ last_reload_message = None
    /\ attempt = 1 /\ poll = 1 /\ confirmed = FALSE

Charm == LookBefore \/ Signal \/ Confirm \/ PollAgain
Nagios == Catch \/ ReadFiles \/ Started

Next == Write \/ Charm \/ Nagios \/ Scroll \/ Tick

Spec == Init /\ [][Next]_vars
-----------------------------------------------------------------------------
TypeOK ==
    /\ disk \in Nat /\ loaded \in Nat /\ second \in Nat
    /\ nagios \in {"running", "restarting", "starting"}
    /\ pending \in BOOLEAN /\ confirmed \in BOOLEAN
    /\ logged \in Nat \cup {None} /\ last_reload_message \in Nat \cup {None}
    /\ call \in {"done", "look", "signal", "poll"}
    /\ attempt \in 1 .. max_attempts /\ poll \in 1 .. Polls

\* "attempts to both trigger a nagios reload event and confirm that it was, indeed,
\* recognized": after a confirmed call nagios works with the files written before it,
\* or is about to read them; no line of an earlier reload is taken for this one's.
ConfirmedIsLoading == confirmed => loaded = disk \/ nagios = "restarting"
=============================================================================
