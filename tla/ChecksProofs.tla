---------------------------- MODULE ChecksProofs ----------------------------
(***************************************************************************)
(* The reload of nagios, the checks of other charms, the services framework and *)
(* the contacts of an upgrade; and the types of all parts of Library.      *)
(***************************************************************************)
EXTENDS HookDataProofs, MachineProofs, CommandsProofs

-----------------------------------------------------------------------------
(***************************************************************************)
(* The reload of nagios.                                                   *)
(***************************************************************************)
\* Nagios works with the files as they are, or is about to.
UpToDate == loaded = disk \/ nagios = "restarting"

\* Once the last line has been noted, a line that differs from it was written after the
\* files; this holds before the line is looked at and is what the look relies on.
NewLineTells ==
    /\ call \in {"signal", "poll"} /\ Reload!reload_detected => UpToDate
    /\ confirmed => call = "done" /\ UpToDate

LEMMA NewLineInit == Reload!Init => NewLineTells
BY DEF Reload!Init, NewLineTells, UpToDate

LEMMA NewLineNext == NewLineTells /\ [Reload!Next]_Reload!vars => NewLineTells'
<1> SUFFICES ASSUME NewLineTells, [Reload!Next]_Reload!vars PROVE NewLineTells'
    OBVIOUS
<1> USE DEF NewLineTells, UpToDate, Reload!reload_detected, Reload!nagiosVars, Reload!callVars
<1>1. CASE Reload!Write
    BY <1>1 DEF Reload!Write
<1>2. CASE Reload!LookBefore
    BY <1>2 DEF Reload!LookBefore
<1>3. CASE Reload!Signal
    BY <1>3 DEF Reload!Signal
<1>4. CASE Reload!Confirm
    BY <1>4 DEF Reload!Confirm
<1>5. CASE Reload!PollAgain
    BY <1>5 DEF Reload!PollAgain
<1>6. CASE Reload!Catch
    BY <1>6 DEF Reload!Catch
<1>7. CASE Reload!ReadFiles
    BY <1>7 DEF Reload!ReadFiles
<1>8. CASE Reload!Started
    BY <1>8 DEF Reload!Started
<1>9. CASE Reload!Scroll
    BY <1>9 DEF Reload!Scroll
<1>10. CASE Reload!Tick \/ UNCHANGED Reload!vars
    BY <1>10 DEF Reload!Tick, Reload!vars
<1> QED BY <1>1, <1>2, <1>3, <1>4, <1>5, <1>6, <1>7, <1>8, <1>9, <1>10
        DEF Reload!Next, Reload!Charm, Reload!Nagios

LEMMA ReloadPart == Spec => Reload!Spec
<1>1. Init => Reload!Init
    BY DEF Init
<1>2. [Next]_vars => [Reload!Next]_Reload!vars
    BY DEF Next, vars, reloadVars, Reload!vars, Reload!nagiosVars, Reload!callVars
<1> QED BY <1>1, <1>2, PTL DEF Spec, Reload!Spec

\* A reload that reload_nagios has seen confirmed is one of the files written before it,
\* though signals are lost, lines of one second look alike and the log is cut.
THEOREM ConfirmedLoads == Spec => []ConfirmedIsLoading
<1>1. NewLineTells => ConfirmedIsLoading
    BY DEF NewLineTells, UpToDate, Reload!ConfirmedIsLoading, ConfirmedIsLoading
<1> QED BY <1>1, NewLineInit, NewLineNext, ReloadPart, PTL DEF Reload!Spec

\* The types of the numbers, and of what is going on.
Numbers ==
    /\ disk \in Nat /\ loaded \in Nat /\ second \in Nat
    /\ nagios \in {"running", "restarting", "starting"}
    /\ logged \in Nat \cup {Reload!None} /\ last_reload_message \in Nat \cup {Reload!None}
    /\ call \in {"done", "look", "signal", "poll"}
    /\ attempt \in 1 .. max_attempts /\ poll \in 1 .. Polls

Flags == pending \in BOOLEAN /\ confirmed \in BOOLEAN

\* Attempts and looks stay within their limits.
LEMMA ReloadTypes == Spec => []Reload!TypeOK
<1> USE ReloadAssumption
<1>1. Reload!Init => Numbers
    BY DEF Reload!Init, Numbers, Reload!None
<1>2. ASSUME Numbers, [Reload!Next]_Reload!vars PROVE Numbers'
    <2> USE <1>2 DEF Numbers, Reload!None, Reload!nagiosVars, Reload!callVars
    <2>1. CASE Reload!Write
        BY <2>1 DEF Reload!Write
    <2>2. CASE Reload!LookBefore
        BY <2>2 DEF Reload!LookBefore
    <2>3. CASE Reload!Signal
        BY <2>3 DEF Reload!Signal
    <2>4. CASE Reload!Confirm
        BY <2>4 DEF Reload!Confirm
    <2>5. CASE Reload!PollAgain
        BY <2>5 DEF Reload!PollAgain, Reload!AttemptsLeft
    <2>6. CASE Reload!Catch
        BY <2>6 DEF Reload!Catch
    <2>7. CASE Reload!ReadFiles
        BY <2>7 DEF Reload!ReadFiles
    <2>8. CASE Reload!Started
        BY <2>8 DEF Reload!Started
    <2>9. CASE Reload!Scroll
        BY <2>9 DEF Reload!Scroll
    <2>10. CASE Reload!Tick
        BY <2>10 DEF Reload!Tick
    <2>11. CASE UNCHANGED Reload!vars
        BY <2>11 DEF Reload!vars
    <2> QED BY <2>1, <2>2, <2>3, <2>4, <2>5, <2>6, <2>7, <2>8, <2>9, <2>10, <2>11 DEF Reload!Next, Reload!Charm, Reload!Nagios
<1>3. ASSUME Flags, [Reload!Next]_Reload!vars PROVE Flags'
    <2> USE <1>3 DEF Flags, Reload!nagiosVars, Reload!callVars
    <2>1. CASE Reload!Write \/ Reload!LookBefore \/ Reload!Confirm \/ Reload!PollAgain
        BY <2>1, Zenon DEF Reload!Write, Reload!LookBefore, Reload!Confirm, Reload!PollAgain
    <2>2. CASE Reload!Signal
        BY <2>2, Zenon DEF Reload!Signal
    <2>3. CASE Reload!Catch \/ Reload!ReadFiles \/ Reload!Started \/ Reload!Scroll \/ Reload!Tick \/ UNCHANGED Reload!vars
        BY <2>3, Zenon DEF Reload!Catch, Reload!ReadFiles, Reload!Started, Reload!Scroll, Reload!Tick, Reload!vars
    <2> QED BY <2>1, <2>2, <2>3 DEF Reload!Next, Reload!Charm, Reload!Nagios
<1>4. Reload!Init => Flags
    BY DEF Reload!Init, Flags
<1>5. Numbers /\ Flags => Reload!TypeOK
    BY DEF Numbers, Flags, Reload!TypeOK
<1> QED BY <1>1, <1>2, <1>3, <1>4, <1>5, ReloadPart, PTL DEF Reload!Spec

-----------------------------------------------------------------------------
(***************************************************************************)
(* The checks of the nrpe charm.                                           *)
(***************************************************************************)
\* What the version does, and what this hook has done of it, with a check.
Does(kind, c, i) == version[i][1] = kind /\ version[i][2] = c

Mentioned(c) == \E i \in 1 .. Len(version) : Does("add", c, i) \/ Does("remove", c, i)

DidCall(kind, c) == \E i \in 1 .. nextCall - 1 : Does(kind, c, i)

NrpeTypes ==
    /\ Nrpe!TypeOK
    /\ version \in Versions /\ checks \in Seq(Checks)

\* A relation has the commands that it should have.
Agrees(r, c) == c \in monitors[r] <=> c \in nrpeCommands /\ c \notin unseen[r]

\* Commands and monitors differ in checks of the version only, and only until it is through.
Differing ==
    \A r \in nrpeRelations, c \in Checks :
        Agrees(r, c) \/ (Mentioned(c) /\ (failed = TRUE \/ nextCall > 0))

\* The queue and the list of the hook follow its calls.
FollowsCalls ==
    nextCall > 0 =>
        \A c \in Checks : /\ c \in Nrpe!Named <=> DidCall("add", c)
                          /\ DidCall("remove", c) => c \notin nrpeCommands
                          /\ c \in remove_check_queue => DidCall("remove", c)
                          /\ DidCall("remove", c) => c \in remove_check_queue \/ c \in Nrpe!Named

FilesMatch ==
    /\ exported \subseteq nrpeCommands
    /\ nagios_user # TRUE => nrpeCommands = {} /\ \A r \in Relations : monitors[r] = {}
    /\ \A r \in Relations : r \notin nrpeRelations => monitors[r] = {}
    /\ nagios_user = TRUE /\ ~behind => served = nrpeCommands

NrpeInv == NrpeTypes /\ Differing /\ FollowsCalls /\ FilesMatch

LEMMA VersionFacts ==
    ASSUME NrpeTypes
    PROVE  /\ Len(version) \in Nat
           /\ \A i \in 1 .. Len(version) : version[i][1] \in {"add", "remove"} /\ version[i][2] \in Checks
BY NrpeAssumption DEF NrpeTypes

LEMMA NamedIsChecks == ASSUME NrpeTypes PROVE Nrpe!Named \subseteq Checks
BY DEF NrpeTypes, Nrpe!Named

LEMMA NamedAppend ==
    ASSUME NrpeTypes, NEW c \in Checks, checks' = Append(checks, c)
    PROVE  Nrpe!Named' = Nrpe!Named \cup {c} /\ checks' \in Seq(Checks)
<1>1. /\ checks \in Seq(Checks) /\ Len(checks') = Len(checks) + 1
      /\ \A i \in 1 .. Len(checks) : checks'[i] = checks[i]
      /\ checks'[Len(checks) + 1] = c
      /\ checks' \in Seq(Checks)
    BY DEF NrpeTypes
<1>2. \A i \in 1 .. Len(checks) + 1 : i \in 1 .. Len(checks) \/ i = Len(checks) + 1
    BY <1>1
<1>3. 1 .. Len(checks) \subseteq 1 .. Len(checks) + 1 /\ Len(checks) + 1 \in 1 .. Len(checks) + 1
    BY <1>1
<1> QED BY <1>1, <1>2, <1>3 DEF Nrpe!Named

\* The call that the hook has come to.
LEMMA CallFacts ==
    ASSUME NrpeTypes, NEW kind, Nrpe!Calls(kind)
    PROVE  /\ nextCall \in 1 .. Len(version) /\ nextCall' = nextCall + 1
           /\ version[nextCall][2] \in Checks
           /\ Does(kind, version[nextCall][2], nextCall)
BY VersionFacts DEF Nrpe!Calls, Does

LEMMA DidCallNext ==
    ASSUME NrpeTypes, NEW k, Nrpe!Calls(k), version' = version, k \in {"add", "remove"},
           NEW kind \in {"add", "remove"}, NEW c \in Checks
    PROVE  DidCall(kind, c)' <=> DidCall(kind, c) \/ (kind = k /\ c = version[nextCall][2])
<1>1. nextCall \in Nat /\ nextCall' = nextCall + 1 /\ version[nextCall][1] = k /\ nextCall >= 1
    BY VersionFacts DEF Nrpe!Calls
<1>2. \A i : i \in 1 .. nextCall' - 1 <=> i \in 1 .. nextCall - 1 \/ i = nextCall
    BY <1>1
<1> QED BY <1>1, <1>2 DEF DidCall, Does

LEMMA WrittenIsNamedOrOld == ASSUME NrpeTypes PROVE Nrpe!Written \subseteq Nrpe!Named \cup exported
BY DEF Nrpe!Written, Nrpe!Named

LEMMA NrpeTypesNext == ASSUME NrpeTypes, [Nrpe!Next]_Nrpe!vars PROVE NrpeTypes'
<1> USE DEF Nrpe!proc, Nrpe!disk, Nrpe!related
<1>0. Nrpe!TypeOK /\ Len(version) \in Nat /\ Nrpe!Named \subseteq Checks
    BY VersionFacts, NamedIsChecks DEF NrpeTypes
<1>1. CASE Nrpe!Upgrade
    <2>1. /\ nextCall = 0 /\ version' \in Versions
          /\ UNCHANGED <<nrpeCommands, exported, nrpeRelations, monitors, unseen, nextCall, checks,
                         remove_check_queue>>
        BY <1>1 DEF Nrpe!Upgrade
    <2>2. Len(version') \in Nat
        BY <2>1, NrpeAssumption
    <2> QED BY <1>0, <2>1, <2>2 DEF NrpeTypes, Nrpe!TypeOK
<1>2. CASE Nrpe!Begin
    BY <1>0, <1>2 DEF Nrpe!Begin, NrpeTypes, Nrpe!TypeOK
<1>3. CASE Nrpe!add_check
    <2>1. /\ Nrpe!Calls("add") /\ checks' = Append(checks, version[nextCall][2])
          /\ remove_check_queue' = remove_check_queue \ {version[nextCall][2]}
          /\ UNCHANGED <<version, nrpeCommands, exported, nrpeRelations, monitors, unseen>>
        BY <1>3 DEF Nrpe!add_check
    <2>2. checks' \in Seq(Checks) /\ nextCall' \in 0 .. Len(version) + 1
        BY <1>0, <2>1, CallFacts, NamedAppend
    <2> QED BY <1>0, <2>1, <2>2 DEF NrpeTypes, Nrpe!TypeOK
<1>4. CASE Nrpe!remove_check
    <2>1. /\ Nrpe!Calls("remove")
          /\ nrpeCommands' \subseteq nrpeCommands /\ exported' \subseteq exported
          /\ remove_check_queue' = remove_check_queue \cup {version[nextCall][2]}
          /\ UNCHANGED <<version, checks, nrpeRelations, monitors, unseen>>
        BY <1>4 DEF Nrpe!remove_check
    <2>2. version[nextCall][2] \in Checks /\ nextCall' \in 0 .. Len(version) + 1
        BY <1>0, <2>1, CallFacts
    <2> QED BY <1>0, <2>1, <2>2 DEF NrpeTypes, Nrpe!TypeOK
<1>5. ASSUME NEW status \in BOOLEAN, Nrpe!write(status) PROVE NrpeTypes'
    <2>1. /\ nextCall' = 0 /\ UNCHANGED <<version, checks, nrpeRelations>>
          /\ nrpeCommands' = nrpeCommands \/ nrpeCommands' = nrpeCommands \cup Nrpe!Named
          /\ exported' = exported \/ exported' = Nrpe!Written
          /\ remove_check_queue' = remove_check_queue \/ remove_check_queue' = {}
        BY <1>5 DEF Nrpe!write
    <2>2. Nrpe!Written \subseteq Checks
        BY <1>0, WrittenIsNamedOrOld DEF Nrpe!TypeOK
    <2>3. monitors' \in [Relations -> SUBSET Checks] /\ unseen' \in [Relations -> SUBSET Checks]
        <3>1. \A r \in Relations : /\ Nrpe!Merged(monitors[r]) \subseteq Checks
                                  /\ unseen[r] \ Nrpe!Named \subseteq Checks
            BY <1>0 DEF Nrpe!TypeOK, Nrpe!Merged
        <3> QED BY <1>0, <1>5, <3>1 DEF Nrpe!write, Nrpe!TypeOK
    <2> QED BY <1>0, <2>1, <2>2, <2>3 DEF NrpeTypes, Nrpe!TypeOK
<1>6. CASE Nrpe!Fail
    <2>1. /\ nextCall' = 0
          /\ UNCHANGED <<version, checks, exported, nrpeRelations, monitors, unseen, remove_check_queue>>
          /\ nrpeCommands' = nrpeCommands \/ \E done \in SUBSET Nrpe!Named : nrpeCommands' = nrpeCommands \cup done
        BY <1>6 DEF Nrpe!Fail
    <2> QED BY <1>0, <2>1 DEF NrpeTypes, Nrpe!TypeOK
<1>7. CASE Nrpe!InstallServer \/ UNCHANGED Nrpe!vars
    BY <1>0, <1>7 DEF Nrpe!InstallServer, Nrpe!vars, NrpeTypes, Nrpe!TypeOK
<1>8. ASSUME NEW r \in Relations, Nrpe!Join(r) \/ Nrpe!Break(r) PROVE NrpeTypes'
    <2>1. /\ UNCHANGED <<version, nrpeCommands, exported, nextCall, checks, remove_check_queue>>
          /\ nrpeRelations' \subseteq Relations
          /\ \/ monitors' = monitors \/ monitors' = [monitors EXCEPT ![r] = {}]
          /\ \/ unseen' = [unseen EXCEPT ![r] = nrpeCommands] \/ unseen' = [unseen EXCEPT ![r] = {}]
        BY <1>0, <1>8 DEF Nrpe!Join, Nrpe!Break, Nrpe!TypeOK
    <2>2. monitors' \in [Relations -> SUBSET Checks] /\ unseen' \in [Relations -> SUBSET Checks]
        BY <1>0, <2>1 DEF Nrpe!TypeOK
    <2> QED BY <1>0, <2>1, <2>2 DEF NrpeTypes, Nrpe!TypeOK
<1> QED BY <1>1, <1>2, <1>3, <1>4, <1>5, <1>6, <1>7, <1>8 DEF Nrpe!Next

\* nothing of a hook is done before it has begun
LEMMA NothingCalled == ASSUME nextCall' = 0 \/ nextCall' = 1 PROVE \A kind, c : ~DidCall(kind, c)'
<1>1. \A i \in 1 .. nextCall' - 1 : FALSE
    OBVIOUS
<1> QED BY <1>1 DEF DidCall

LEMMA DidIsMentioned ==
    ASSUME NrpeTypes, NEW c, DidCall("add", c) \/ DidCall("remove", c), nextCall > 0
    PROVE  Mentioned(c)
<1>1. nextCall \in 0 .. Len(version) + 1
    BY DEF NrpeTypes, Nrpe!TypeOK
<1>2. \A i \in 1 .. nextCall - 1 : i \in 1 .. Len(version)
    BY <1>1, VersionFacts
<1> QED BY <1>2 DEF DidCall, Mentioned

LEMMA FollowsCallsNext ==
    ASSUME NrpeTypes, FollowsCalls, [Nrpe!Next]_Nrpe!vars
    PROVE  FollowsCalls'
<1> USE DEF Nrpe!proc, Nrpe!disk, Nrpe!related
<1>1. CASE Nrpe!Begin
    <2>1. nextCall' = 1 /\ checks' = << >> /\ remove_check_queue' = {}
        BY <1>1 DEF Nrpe!Begin
    <2>2. Nrpe!Named' = {}
        BY <2>1 DEF Nrpe!Named
    <2> QED BY <2>1, <2>2, NothingCalled DEF FollowsCalls
<1>2. CASE Nrpe!add_check
    <2> DEFINE a == version[nextCall][2]
    <2>1. /\ Nrpe!Calls("add") /\ checks' = Append(checks, a)
          /\ remove_check_queue' = remove_check_queue \ {a}
          /\ UNCHANGED <<version, nrpeCommands>>
        BY <1>2 DEF Nrpe!add_check
    <2>2. a \in Checks /\ nextCall > 0
        BY <2>1, CallFacts, VersionFacts
    <2>3. Nrpe!Named' = Nrpe!Named \cup {a}
        BY <2>1, <2>2, NamedAppend
    <2>4. SUFFICES ASSUME NEW c \in Checks
                   PROVE  /\ c \in Nrpe!Named' <=> DidCall("add", c)'
                          /\ DidCall("remove", c)' => c \notin nrpeCommands'
                          /\ c \in remove_check_queue' => DidCall("remove", c)'
                          /\ DidCall("remove", c)' => c \in remove_check_queue' \/ c \in Nrpe!Named'
        BY DEF FollowsCalls
    <2>5. /\ DidCall("add", c)' <=> DidCall("add", c) \/ c = a
          /\ DidCall("remove", c)' <=> DidCall("remove", c)
        BY <2>1, DidCallNext
    <2>6. /\ c \in Nrpe!Named <=> DidCall("add", c)
          /\ DidCall("remove", c) => c \notin nrpeCommands
          /\ c \in remove_check_queue => DidCall("remove", c)
          /\ DidCall("remove", c) => c \in remove_check_queue \/ c \in Nrpe!Named
        BY <2>2 DEF FollowsCalls
    <2> QED BY <2>1, <2>3, <2>5, <2>6
<1>3. CASE Nrpe!remove_check
    <2> DEFINE r == version[nextCall][2]
    <2>1. /\ Nrpe!Calls("remove")
          /\ nrpeCommands' = nrpeCommands \ {r}
          /\ remove_check_queue' = remove_check_queue \cup {r}
          /\ UNCHANGED <<version, checks>>
        BY <1>3 DEF Nrpe!remove_check
    <2>2. r \in Checks /\ nextCall > 0
        BY <2>1, CallFacts, VersionFacts
    <2>3. Nrpe!Named' = Nrpe!Named
        BY <2>1 DEF Nrpe!Named
    <2>4. SUFFICES ASSUME NEW c \in Checks
                   PROVE  /\ c \in Nrpe!Named' <=> DidCall("add", c)'
                          /\ DidCall("remove", c)' => c \notin nrpeCommands'
                          /\ c \in remove_check_queue' => DidCall("remove", c)'
                          /\ DidCall("remove", c)' => c \in remove_check_queue' \/ c \in Nrpe!Named'
        BY DEF FollowsCalls
    <2>5. /\ DidCall("add", c)' <=> DidCall("add", c)
          /\ DidCall("remove", c)' <=> DidCall("remove", c) \/ c = r
        BY <2>1, DidCallNext
    <2>6. /\ c \in Nrpe!Named <=> DidCall("add", c)
          /\ DidCall("remove", c) => c \notin nrpeCommands
          /\ c \in remove_check_queue => DidCall("remove", c)
          /\ DidCall("remove", c) => c \in remove_check_queue \/ c \in Nrpe!Named
        BY <2>2 DEF FollowsCalls
    <2> QED BY <2>1, <2>3, <2>5, <2>6
<1>4. CASE \/ Nrpe!Upgrade \/ Nrpe!Fail \/ \E status \in BOOLEAN : Nrpe!write(status)
          \/ \E r \in Relations : Nrpe!Join(r) \/ Nrpe!Break(r)
    <2>1. nextCall' = 0
        BY <1>4 DEF Nrpe!Upgrade, Nrpe!Fail, Nrpe!write, Nrpe!Join, Nrpe!Break
    <2> QED BY <2>1 DEF FollowsCalls
<1>5. CASE Nrpe!InstallServer \/ UNCHANGED Nrpe!vars
    <2>1. UNCHANGED <<version, nrpeCommands, nextCall, checks, remove_check_queue>>
        BY <1>5 DEF Nrpe!InstallServer, Nrpe!vars
    <2>2. Nrpe!Named' = Nrpe!Named
        BY <2>1 DEF Nrpe!Named
    <2> QED BY <2>1, <2>2 DEF FollowsCalls, DidCall, Does
<1> QED BY <1>1, <1>2, <1>3, <1>4, <1>5 DEF Nrpe!Next

LEMMA FilesMatchNext == ASSUME NrpeTypes, FilesMatch, [Nrpe!Next]_Nrpe!vars PROVE FilesMatch'
<1> USE DEF Nrpe!proc, Nrpe!disk, Nrpe!related
<1>1. CASE Nrpe!Upgrade \/ Nrpe!Begin \/ Nrpe!add_check \/ UNCHANGED Nrpe!vars
    <2>1. UNCHANGED <<nrpeCommands, exported, served, nrpeRelations, monitors, nagios_user, behind>>
        BY <1>1 DEF Nrpe!Upgrade, Nrpe!Begin, Nrpe!add_check, Nrpe!vars
    <2> QED BY <2>1 DEF FilesMatch
<1>2. CASE Nrpe!remove_check
    <2> DEFINE r == version[nextCall][2]
    <2>1. /\ Nrpe!Calls("remove")
          /\ nrpeCommands' = nrpeCommands \ {r} /\ exported' = exported \ EndsWith[r]
          /\ UNCHANGED <<served, nrpeRelations, monitors, nagios_user>>
        BY <1>2 DEF Nrpe!remove_check
    <2>2. ~behind' => ~behind /\ nrpeCommands' = nrpeCommands
        BY <1>2 DEF Nrpe!remove_check
    <2>3. r \in EndsWith[r]
        BY <2>1, CallFacts, NrpeAssumption
    <2> QED BY <2>1, <2>2, <2>3 DEF FilesMatch
<1>3. ASSUME NEW status \in BOOLEAN, Nrpe!write(status) PROVE FilesMatch'
    <2>1. CASE nagios_user = TRUE
        <3>1. /\ nrpeCommands' = nrpeCommands \cup Nrpe!Named /\ exported' = Nrpe!Written
              /\ UNCHANGED <<nrpeRelations, nagios_user>>
            BY <1>3, <2>1 DEF Nrpe!write
        <3>2. ~behind' => served' = nrpeCommands' \/ (~behind /\ UNCHANGED <<served, nrpeCommands>>)
            BY <1>3, <2>1 DEF Nrpe!write
        <3>3. \A r \in Relations : r \notin nrpeRelations => monitors'[r] = {}
            BY <1>3, <2>1 DEF Nrpe!write
        <3> QED BY <2>1, <3>1, <3>2, <3>3, WrittenIsNamedOrOld DEF FilesMatch
    <2>2. CASE nagios_user # TRUE
        <3>1. ~nagios_user
            BY <2>2
        <3>2. UNCHANGED <<nrpeCommands, exported, served, nrpeRelations, monitors, behind, nagios_user>>
            BY <1>3, <3>1 DEF Nrpe!write
        <3> QED BY <3>2 DEF FilesMatch
    <2> QED BY <2>1, <2>2
<1>4. CASE Nrpe!Fail
    <2>1. /\ nrpeCommands \subseteq nrpeCommands'
          /\ nagios_user # TRUE => nrpeCommands' = nrpeCommands
          /\ UNCHANGED <<exported, served, nrpeRelations, monitors, nagios_user>>
        BY <1>4 DEF Nrpe!Fail
    <2>2. ~behind' => ~behind /\ nrpeCommands' = nrpeCommands
        BY <1>4 DEF Nrpe!Fail
    <2> QED BY <2>1, <2>2 DEF FilesMatch
<1>5. CASE Nrpe!InstallServer
    <2>1. nagios_user' = TRUE /\ served' = nrpeCommands /\ UNCHANGED <<nrpeCommands, exported, nrpeRelations, monitors>>
        BY <1>5 DEF Nrpe!InstallServer
    <2> QED BY <2>1 DEF FilesMatch
<1>6. ASSUME NEW r \in Relations, Nrpe!Join(r) \/ Nrpe!Break(r) PROVE FilesMatch'
    <2>1. /\ UNCHANGED <<nrpeCommands, exported, served, nagios_user, behind>>
          /\ \/ monitors' = monitors /\ nrpeRelations' = nrpeRelations \cup {r}
             \/ monitors' = [monitors EXCEPT ![r] = {}] /\ nrpeRelations' = nrpeRelations \ {r}
        BY <1>6 DEF Nrpe!Join, Nrpe!Break
    <2>2. monitors \in [Relations -> SUBSET Checks]
        BY DEF NrpeTypes, Nrpe!TypeOK
    <2>3. \A q \in Relations : \/ monitors'[q] = {}
                               \/ monitors'[q] = monitors[q] /\ (q \in nrpeRelations => q \in nrpeRelations')
        BY <2>1, <2>2
    <2> QED BY <2>1, <2>3 DEF FilesMatch
<1> QED BY <1>1, <1>2, <1>3, <1>4, <1>5, <1>6 DEF Nrpe!Next

\* write brings commands and monitors together again.
LEMMA WriteAgrees ==
    ASSUME NrpeInv, NEW status \in BOOLEAN, Nrpe!write(status)
    PROVE  \A r \in nrpeRelations, c \in Checks : Agrees(r, c)'
<1> SUFFICES ASSUME NEW r \in nrpeRelations, NEW c \in Checks PROVE Agrees(r, c)'
    OBVIOUS
<1>1. nextCall = Len(version) + 1 /\ nextCall > 0 /\ r \in Relations
    BY VersionFacts DEF Nrpe!write, NrpeInv, NrpeTypes, Nrpe!TypeOK
<1>2. CASE nagios_user # TRUE
    <2>1. UNCHANGED <<nrpeCommands, monitors>>
        BY <1>2 DEF Nrpe!write, Nrpe!disk
    <2>2. nrpeCommands = {} /\ monitors[r] = {}
        BY <1>1, <1>2 DEF NrpeInv, FilesMatch
    <2> QED BY <2>1, <2>2 DEF Agrees
<1>3. CASE nagios_user = TRUE
    <2>1. /\ nrpeCommands' = nrpeCommands \cup Nrpe!Named
          /\ monitors'[r] = (monitors[r] \ remove_check_queue) \cup Nrpe!Named
          /\ unseen'[r] = unseen[r] \ Nrpe!Named
        BY <1>1, <1>3 DEF Nrpe!write, Nrpe!Merged
    <2>2. ASSUME c \notin Nrpe!Named
          PROVE  c \in monitors[r] /\ c \notin remove_check_queue <=> c \in nrpeCommands /\ c \notin unseen[r]
        <3>1. /\ ~DidCall("add", c)
              /\ DidCall("remove", c) => c \notin nrpeCommands /\ c \in remove_check_queue
              /\ c \in remove_check_queue => DidCall("remove", c)
            BY <1>1, <2>2 DEF NrpeInv, FollowsCalls
        <3>2. Mentioned(c) => DidCall("add", c) \/ DidCall("remove", c)
            BY <1>1, VersionFacts DEF Mentioned, DidCall, NrpeInv
        <3>3. Agrees(r, c) \/ Mentioned(c)
            BY DEF NrpeInv, Differing
        <3> QED BY <3>1, <3>2, <3>3 DEF Agrees
    <2> QED BY <2>1, <2>2 DEF Agrees
<1> QED BY <1>2, <1>3

LEMMA DifferingNext == ASSUME NrpeInv, [Nrpe!Next]_Nrpe!vars PROVE Differing'
<1> USE DEF Nrpe!proc, Nrpe!disk, Nrpe!related
<1>0. NrpeTypes /\ Differing /\ nextCall \in Nat
    BY VersionFacts DEF NrpeInv, NrpeTypes, Nrpe!TypeOK
<1>1. CASE Nrpe!Upgrade
    <2>1. nextCall = 0 /\ failed # TRUE /\ UNCHANGED <<nrpeCommands, nrpeRelations, monitors, unseen>>
        BY <1>1 DEF Nrpe!Upgrade
    <2>2. ~(nextCall > 0)
        BY <2>1
    <2>3. \A r \in nrpeRelations, c \in Checks : Agrees(r, c)
        BY <1>0, <2>1, <2>2, Zenon DEF Differing
    <2> QED BY <2>1, <2>3 DEF Differing, Agrees
<1>2. CASE Nrpe!Begin \/ Nrpe!add_check
    <2>1. nextCall' > 0 /\ UNCHANGED <<version, nrpeCommands, nrpeRelations, monitors, unseen>>
        BY <1>0, <1>2, VersionFacts DEF Nrpe!Begin, Nrpe!add_check, Nrpe!Calls
    <2> QED BY <1>0, <2>1 DEF Differing, Agrees, Mentioned, Does
<1>3. CASE Nrpe!remove_check
    <2> DEFINE r == version[nextCall][2]
    <2>1. /\ Nrpe!Calls("remove") /\ nrpeCommands' = nrpeCommands \ {r}
          /\ UNCHANGED <<version, nrpeRelations, monitors, unseen>>
        BY <1>3 DEF Nrpe!remove_check
    <2>2. nextCall' > 0 /\ Mentioned(r)
        BY <1>0, <2>1, CallFacts DEF Mentioned
    <2>3. \A c \in Checks : Mentioned(c)' <=> Mentioned(c)
        BY <2>1 DEF Mentioned, Does
    <2> QED BY <1>0, <2>1, <2>2, <2>3 DEF Differing, Agrees
<1>4. ASSUME NEW status \in BOOLEAN, Nrpe!write(status) PROVE Differing'
    <2>1. nrpeRelations' = nrpeRelations
        BY <1>4 DEF Nrpe!write
    <2> QED BY <1>4, <2>1, WriteAgrees DEF Differing
<1>5. CASE Nrpe!Fail
    <2>1. /\ nextCall > 0 /\ failed' = TRUE /\ UNCHANGED <<version, nrpeRelations, monitors, unseen>>
          /\ nrpeCommands' = nrpeCommands \/ \E done \in SUBSET Nrpe!Named : nrpeCommands' = nrpeCommands \cup done
        BY <1>5 DEF Nrpe!Fail
    <2>2. \A c \in Nrpe!Named : Mentioned(c)
        BY <1>0, <2>1, DidIsMentioned, NamedIsChecks DEF NrpeInv, FollowsCalls
    <2>3. \A c \in Checks : Mentioned(c)' <=> Mentioned(c)
        BY <2>1 DEF Mentioned, Does
    <2> QED BY <1>0, <2>1, <2>2, <2>3 DEF Differing, Agrees
<1>6. CASE Nrpe!InstallServer \/ UNCHANGED Nrpe!vars
    <2>1. UNCHANGED <<version, nrpeCommands, nrpeRelations, monitors, unseen, nextCall, failed>>
        BY <1>6 DEF Nrpe!InstallServer, Nrpe!vars
    <2> QED BY <1>0, <2>1 DEF Differing, Agrees, Mentioned, Does
<1>7. ASSUME NEW r \in Relations, Nrpe!Join(r) PROVE Differing'
    <2>1. /\ r \notin nrpeRelations /\ nrpeRelations' = nrpeRelations \cup {r} /\ monitors[r] = {}
          /\ unseen' = [unseen EXCEPT ![r] = nrpeCommands]
          /\ UNCHANGED <<version, nrpeCommands, monitors, nextCall, failed>>
        BY <1>7 DEF Nrpe!Join, NrpeInv, FilesMatch
    <2>2. unseen \in [Relations -> SUBSET Checks] /\ nrpeRelations \subseteq Relations
        BY <1>0 DEF NrpeTypes, Nrpe!TypeOK
    <2>3. \A q \in nrpeRelations : unseen'[q] = unseen[q]
        BY <2>1, <2>2
    <2>4. unseen'[r] = nrpeCommands
        BY <2>1, <2>2
    <2> QED BY <1>0, <2>1, <2>3, <2>4 DEF Differing, Agrees, Mentioned, Does
<1>8. ASSUME NEW r \in Relations, Nrpe!Break(r) PROVE Differing'
    <2>1. /\ nrpeRelations' = nrpeRelations \ {r}
          /\ monitors' = [monitors EXCEPT ![r] = {}] /\ unseen' = [unseen EXCEPT ![r] = {}]
          /\ UNCHANGED <<version, nrpeCommands, nextCall, failed>>
        BY <1>8 DEF Nrpe!Break
    <2>2. /\ unseen \in [Relations -> SUBSET Checks] /\ monitors \in [Relations -> SUBSET Checks]
          /\ nrpeRelations \subseteq Relations
        BY <1>0 DEF NrpeTypes, Nrpe!TypeOK
    <2>3. \A q \in nrpeRelations' : unseen'[q] = unseen[q] /\ monitors'[q] = monitors[q] /\ q \in nrpeRelations
        BY <2>1, <2>2
    <2> QED BY <1>0, <2>1, <2>3 DEF Differing, Agrees, Mentioned, Does
<1> QED BY <1>1, <1>2, <1>3, <1>4, <1>5, <1>6, <1>7, <1>8 DEF Nrpe!Next

LEMMA NrpePart == Spec => Nrpe!Spec
<1>1. Init => Nrpe!Init
    BY DEF Init
<1>2. [Next]_vars => [Nrpe!Next]_Nrpe!vars
    BY DEF Next, vars, nrpeVars, Nrpe!vars, Nrpe!proc, Nrpe!disk, Nrpe!related
<1> QED BY <1>1, <1>2, PTL DEF Spec, Nrpe!Spec

LEMMA NrpeInvHolds == Spec => []NrpeInv
<1>1. Nrpe!Init => NrpeInv
    <2> SUFFICES ASSUME Nrpe!Init PROVE NrpeInv
        OBVIOUS
    <2>1. /\ version \in Versions /\ nrpeCommands = {} /\ exported = {} /\ served = {}
          /\ nrpeRelations \subseteq Relations
          /\ monitors = [r \in Relations |-> {}] /\ unseen = monitors
          /\ nextCall = 0 /\ checks = << >> /\ remove_check_queue = {}
        BY DEF Nrpe!Init
    <2>2. Len(version) \in Nat
        BY <2>1, NrpeAssumption
    <2>3. NrpeTypes
        BY <2>1, <2>2 DEF NrpeTypes, Nrpe!TypeOK
    <2>4. Differing /\ FollowsCalls /\ FilesMatch
        BY <2>1 DEF Differing, Agrees, FollowsCalls, FilesMatch
    <2> QED BY <2>3, <2>4 DEF NrpeInv
<1>2. NrpeInv /\ [Nrpe!Next]_Nrpe!vars => NrpeInv'
    BY NrpeTypesNext, DifferingNext, FollowsCallsNext, FilesMatchNext DEF NrpeInv
<1> QED BY <1>1, <1>2, NrpePart, PTL DEF Nrpe!Spec

\* After hooks that add, remove and fail in any order, nagios is told on every relation
\* the commands that have a file, but for those of before it that no hook has added since;
\* and the server knows them, unless its restart failed or was left out.
THEOREM MonitorsAreCommands == Spec => []MonitorsHaveCommands
<1>1. NrpeInv => MonitorsHaveCommands
    <2> SUFFICES ASSUME NrpeInv, nextCall = 0, ~failed
                 PROVE  /\ \A r \in nrpeRelations : monitors[r] = nrpeCommands \ unseen[r]
                        /\ exported \subseteq nrpeCommands
                        /\ nagios_user /\ ~behind => served = nrpeCommands
        BY DEF Nrpe!MonitorsHaveCommands, MonitorsHaveCommands
    <2>1. /\ monitors \in [Relations -> SUBSET Checks] /\ nrpeCommands \subseteq Checks
          /\ nrpeRelations \subseteq Relations
        BY DEF NrpeInv, NrpeTypes, Nrpe!TypeOK
    <2>2. ~(nextCall > 0)
        OBVIOUS
    <2>3. \A r \in nrpeRelations, c \in Checks : Agrees(r, c)
        BY <2>2, Zenon DEF NrpeInv, Differing
    <2>4. \A r \in nrpeRelations : monitors[r] = nrpeCommands \ unseen[r]
        BY <2>1, <2>3 DEF Agrees
    <2> QED BY <2>4 DEF NrpeInv, FilesMatch
<1> QED BY <1>1, NrpeInvHolds, PTL

-----------------------------------------------------------------------------
(***************************************************************************)
(* The services framework.                                                 *)
(***************************************************************************)
\* The services that the hook has come past.
Passed(s) == \E i \in 1 .. next - 1 : Order[i] = s

InFiles(x) == \E s \in Manager!Services : x \in port_file[s]

HookIsDue == next # 0 => due = TRUE

\* What is in the files is what a version of the charm has defined.
Filed ==
    /\ ports \in Definitions
    /\ port_file \in [Manager!Services -> {{}} \cup {d[s] : d \in Definitions, s \in Manager!Services}]
    /\ \A s \in Manager!Services : port_file[s] = {} \/ \E d \in Definitions : port_file[s] = d[s]

Readable ==
    /\ next > 1 \/ Len(Order) = 0 => ready_file # Torn
    /\ ready_file # Torn => told \ unsaved = ready_file \ unsaved

ManagerTypes == Manager!TypeOK /\ HookIsDue /\ Filed /\ Readable

\* A service that the hook has come past and that has its data has the port.
Claimed(x) == \E q \in Manager!Services : Passed(q) /\ Manager!is_ready(q) /\ x \in ports[q]

\* A port that Juju has open is in a file, was dropped by this hook, or has leaked.
PortsKept ==
    /\ \A x \in opened \ leaked : InFiles(x) \/ (next # 0 /\ x \in forgotten)
    /\ next # 0 => \A x \in draft \ leaked : InFiles(x)
    /\ \A s \in Manager!Services : Passed(s) =>
        /\ port_file[s] = ports[s]
        /\ Manager!is_ready(s) => \A x \in ports[s] : x \in draft \/ Manager!Contended(x)
        /\ \A x \in ports[s] \cap draft : Claimed(x)

ReadyKept ==
    \A s \in Manager!Services : Passed(s) =>
        /\ s \in ready_file <=> Manager!is_ready(s)
        /\ s \in running => Manager!is_ready(s) \/ s \in stray

ManagerInv == ManagerTypes /\ PortsKept /\ ReadyKept /\ Manager!ServicesFollowData

LEMMA OrderFacts ==
    /\ Len(Order) \in Nat
    /\ \A i \in 1 .. Len(Order) : Order[i] \in Manager!Services
    /\ \A s \in Manager!Services : \E i \in 1 .. Len(Order) : Order[i] = s
    /\ \A i, j \in 1 .. Len(Order) : Order[i] = Order[j] => i = j
BY ManagerAssumption DEF Manager!Services, Manager!ToSet

LEMMA PassedNext ==
    ASSUME ManagerTypes, next \in 1 .. Len(Order), next' = next + 1
    PROVE  \A s \in Manager!Services : Passed(s)' <=> (Passed(s) \/ s = Order[next])
<1> USE OrderFacts
<1>1. next \in Nat
    OBVIOUS
<1>2. \A i : i \in 1 .. next' - 1 <=> i \in 1 .. next - 1 \/ i = next
    OBVIOUS
<1> QED BY <1>1, <1>2 DEF Passed

LEMMA NothingPassed == ASSUME next \in {0, 1} PROVE \A s : ~Passed(s)
BY DEF Passed

LEMMA AllPassed ==
    ASSUME next \in Nat, next > Len(Order)
    PROVE  \A s \in Manager!Services : Passed(s)
BY OrderFacts DEF Passed

\* What a step of the framework does to the files and to the callbacks that were told.
LEMMA EventsFacts ==
    ASSUME ManagerTypes, NEW s \in Manager!Services, Manager!Events(s)
    PROVE  /\ told' \subseteq Manager!Services /\ told' \ {s} = told \ {s}
           /\ port_file' = [port_file EXCEPT ![s] = ports[s]]
           /\ forgotten' = forgotten \cup (port_file[s] \ ports[s])
           /\ running' \ {s} = running \ {s} /\ stray' \ {s} = stray \ {s}
           /\ s \in running' => Manager!is_ready(s) \/ s \in stray'
<1>1. told' \subseteq Manager!Services /\ told' \ {s} = told \ {s}
    BY DEF Manager!Events, ManagerTypes, Manager!TypeOK
<1>2. /\ port_file' = [port_file EXCEPT ![s] = ports[s]]
      /\ forgotten' = forgotten \cup (port_file[s] \ ports[s])
    BY DEF Manager!Events, Manager!WritePorts
<1>3. \/ Manager!is_ready(s) /\ stray' = stray \ {s}
         /\ (running' = running \ {s} \/ running' = running \cup {s} \/ running' = running)
      \/ ~Manager!is_ready(s) /\ running' = running \ {s} /\ stray' = stray \ {s}
      \/ ~Manager!is_ready(s) /\ running' = running /\ stray' = stray \cup {s}
    BY DEF Manager!Events, Manager!service_restart, Manager!service_stop
<1> QED BY <1>1, <1>2, <1>3

LEMMA PortFileFacts ==
    ASSUME ManagerTypes, NEW s \in Manager!Services, port_file' = [port_file EXCEPT ![s] = ports[s]],
           ports' = ports
    PROVE  /\ Filed' /\ port_file'[s] = ports[s]
           /\ \A q \in Manager!Services \ {s} : port_file'[q] = port_file[q]
BY DEF ManagerTypes, Filed

LEMMA ReconfigureFacts ==
    ASSUME ManagerTypes, Manager!Reconfigure
    PROVE  LET s == Order[next] IN
           /\ s \in Manager!Services /\ next \in 1 .. Len(Order) /\ next' = next + 1
           /\ ready_file # Torn
           /\ Manager!Events(s)
           /\ draft' = Manager!manage_ports(s, Manager!is_ready(s))
           /\ ready_file' = IF Manager!is_ready(s) THEN ready_file \cup {s} ELSE ready_file \ {s}
           /\ unsaved' = IF Manager!is_ready(s) THEN unsaved \ {s} ELSE unsaved
           /\ UNCHANGED <<published, ports, masked, opened, due, leaked, swallowed>>
BY OrderFacts DEF Manager!Reconfigure, Manager!save_ready, Manager!save_lost

LEMMA FailedFacts ==
    ASSUME ManagerTypes, Manager!CallbackRaises \/ Manager!CutOff
    PROVE  /\ next \in 1 .. Len(Order) /\ next' = 0
           /\ leaked' = leaked \cup (forgotten' \cap opened)
           /\ UNCHANGED <<published, ports, masked, opened, draft, due, swallowed>>
           /\ \/ UNCHANGED <<port_file, ready_file, running, told, unsaved, forgotten>>
              \/ \E s \in Manager!Services :
                    /\ Manager!Events(s)
                    /\ ready_file' \in {ready_file, Torn}
                    /\ unsaved' = unsaved \cup {s}
BY OrderFacts DEF Manager!CallbackRaises, Manager!CutOff, Manager!Failed, Manager!files

LEMMA HookIsDueNext == HookIsDue /\ [Manager!Next]_Manager!vars => HookIsDue'
<1> USE DEF Manager!files, Manager!host, Manager!ghosts, HookIsDue
<1>1. HookIsDue /\ UNCHANGED <<next, due>> => HookIsDue'
    OBVIOUS
<1>2. HookIsDue /\ (Manager!CallbackRaises \/ Manager!CutOff \/ Manager!ExitSwallowed \/ Manager!End \/ Manager!Change) => HookIsDue'
    BY DEF Manager!CallbackRaises, Manager!CutOff, Manager!Failed, Manager!ExitSwallowed, Manager!End, Manager!Change
<1>3. HookIsDue /\ Manager!Begin => HookIsDue'
    BY DEF Manager!Begin
<1>4. HookIsDue /\ Manager!Reconfigure => HookIsDue'
    <2>1. Manager!Reconfigure => next \in 1 .. Len(Order) /\ due' = due
        BY DEF Manager!Reconfigure
    <2> QED BY <2>1
<1>5. HookIsDue /\ (\E s \in Manager!Services : Manager!Pause(s) \/ Manager!Resume(s)) => HookIsDue'
    BY DEF Manager!Pause, Manager!Resume
<1>6. UNCHANGED Manager!vars => UNCHANGED <<next, due>>
    BY DEF Manager!vars
<1> QED BY <1>1, <1>2, <1>3, <1>4, <1>5, <1>6 DEF Manager!Next

\* The parts that the events of one service may change.
LEMMA EventsKeep ==
    ASSUME ManagerTypes, NEW s \in Manager!Services, Manager!Events(s), UNCHANGED <<ports, masked>>,
           \/ /\ ready_file # Torn
              /\ ready_file' = IF Manager!is_ready(s) THEN ready_file \cup {s} ELSE ready_file \ {s}
              /\ unsaved' = IF Manager!is_ready(s) THEN unsaved \ {s} ELSE unsaved
           \/ ready_file' \in {ready_file, Torn} /\ unsaved' = unsaved \cup {s}
    PROVE  /\ ready_file' = Torn \/ ready_file' \subseteq Manager!Services
           /\ running' \subseteq Manager!Services /\ masked' \subseteq Manager!Services
           /\ told' \subseteq Manager!Services /\ unsaved' \subseteq Manager!Services
           /\ Filed'
           /\ ready_file' # Torn => told' \ unsaved' = ready_file' \ unsaved'
<1>1. Manager!TypeOK
    BY DEF ManagerTypes
<1>2. /\ ready_file' = Torn \/ ready_file' \subseteq Manager!Services
      /\ unsaved' \subseteq Manager!Services
    BY <1>1 DEF Manager!TypeOK
<1>3. /\ running' \subseteq Manager!Services /\ masked' \subseteq Manager!Services
      /\ told' \subseteq Manager!Services /\ told' \ {s} = told \ {s}
    BY <1>1, EventsFacts DEF Manager!TypeOK
<1>4. Filed'
    BY EventsFacts, PortFileFacts
<1>5. CASE ready_file' \in {ready_file, Torn} /\ unsaved' = unsaved \cup {s}
    <2>1. ready_file' # Torn => told \ unsaved = ready_file \ unsaved /\ ready_file' = ready_file
        BY <1>5 DEF ManagerTypes, Readable
    <2>2. ready_file' # Torn => told' \ unsaved' = ready_file' \ unsaved'
        BY <1>3, <1>5, <2>1
    <2> QED BY <1>2, <1>3, <1>4, <2>2
<1>6. CASE /\ ready_file # Torn
           /\ ready_file' = IF Manager!is_ready(s) THEN ready_file \cup {s} ELSE ready_file \ {s}
           /\ unsaved' = IF Manager!is_ready(s) THEN unsaved \ {s} ELSE unsaved
    <2>1. told \ unsaved = ready_file \ unsaved
        BY <1>6 DEF ManagerTypes, Readable
    <2>2. CASE Manager!is_ready(s)
        <3>1. told' = told \cup {s}
            BY <2>2 DEF Manager!Events
        <3>2. ready_file' = ready_file \cup {s} /\ unsaved' = unsaved \ {s}
            BY <1>6, <2>2
        <3>3. told' \ unsaved' = ready_file' \ unsaved'
            BY <2>1, <3>1, <3>2
        <3> QED BY <1>2, <1>3, <1>4, <3>3
    <2>3. CASE ~Manager!is_ready(s)
        <3>1. /\ s \in ready_file => told' = told \ {s}
              /\ s \notin ready_file => told' = told
            BY <1>6, <2>3 DEF Manager!Events, Manager!was_ready
        <3>2. ready_file' = ready_file \ {s} /\ unsaved' = unsaved
            BY <1>6, <2>3
        <3>3. told' \ unsaved' = ready_file' \ unsaved'
            BY <2>1, <3>1, <3>2
        <3> QED BY <1>2, <1>3, <1>4, <3>3
    <2> QED BY <2>2, <2>3
<1> QED BY <1>5, <1>6

LEMMA ManagerTypesNext == ManagerTypes /\ [Manager!Next]_Manager!vars => ManagerTypes'
<1> SUFFICES ASSUME ManagerTypes, [Manager!Next]_Manager!vars PROVE Manager!TypeOK' /\ Filed' /\ Readable'
    BY HookIsDueNext DEF ManagerTypes
<1> USE OrderFacts DEF Manager!files, Manager!host, Manager!ghosts
<1>1. Manager!TypeOK /\ Filed /\ Readable
    BY DEF ManagerTypes
<1>2. CASE Manager!Begin
    <2>1. /\ next = 0 /\ next' = 1
          /\ UNCHANGED <<ports, port_file, ready_file, running, masked, told, unsaved>>
        BY <1>2 DEF Manager!Begin
    <2>2. Manager!TypeOK' /\ Readable'
        BY <1>1, <2>1 DEF Manager!TypeOK, Readable
    <2> QED BY <1>1, <2>1, <2>2 DEF Filed
<1>3. CASE Manager!Reconfigure
    <2>1. PICK s \in Manager!Services :
            /\ next \in 1 .. Len(Order) /\ next' = next + 1
            /\ ready_file # Torn /\ Manager!Events(s)
            /\ ready_file' = IF Manager!is_ready(s) THEN ready_file \cup {s} ELSE ready_file \ {s}
            /\ unsaved' = IF Manager!is_ready(s) THEN unsaved \ {s} ELSE unsaved
            /\ UNCHANGED <<ports, masked, due>>
        BY <1>3, ReconfigureFacts
    <2>2. next' \in 0 .. Len(Order) + 1
        BY <2>1
    <2>3. ready_file' # Torn
        BY <1>1, <2>1, ManagerAssumption DEF Manager!TypeOK
    <2>4. Manager!TypeOK' /\ Filed'
        BY <2>1, <2>2, EventsKeep DEF Manager!TypeOK
    <2>5. Readable'
        BY <2>1, <2>3, EventsKeep DEF Readable
    <2> QED BY <2>4, <2>5
<1>4. CASE Manager!CallbackRaises \/ Manager!CutOff
    <2>1. /\ next \in 1 .. Len(Order) /\ next' = 0
          /\ UNCHANGED <<ports, masked>>
          /\ \/ UNCHANGED <<port_file, ready_file, running, told, unsaved, forgotten>>
             \/ \E s \in Manager!Services :
                   /\ Manager!Events(s)
                   /\ ready_file' \in {ready_file, Torn}
                   /\ unsaved' = unsaved \cup {s}
        BY <1>4, FailedFacts
    <2>2. ~(next' > 1 \/ Len(Order) = 0) /\ next' \in 0 .. Len(Order) + 1
        BY <2>1
    <2>3. CASE UNCHANGED <<port_file, ready_file, running, told, unsaved, forgotten>>
        BY <1>1, <2>1, <2>2, <2>3 DEF Filed, Manager!TypeOK, Readable
    <2>4. CASE \E s \in Manager!Services :
                   /\ Manager!Events(s)
                   /\ ready_file' \in {ready_file, Torn}
                   /\ unsaved' = unsaved \cup {s}
        <3>1. PICK s \in Manager!Services : /\ Manager!Events(s)
                                            /\ ready_file' \in {ready_file, Torn}
                                            /\ unsaved' = unsaved \cup {s}
            BY <2>4
        <3>2. /\ ready_file' = Torn \/ ready_file' \subseteq Manager!Services
              /\ running' \subseteq Manager!Services /\ masked' \subseteq Manager!Services
              /\ told' \subseteq Manager!Services /\ unsaved' \subseteq Manager!Services
              /\ Filed'
              /\ ready_file' # Torn => told' \ unsaved' = ready_file' \ unsaved'
            BY <2>1, <3>1, EventsKeep
        <3> QED BY <2>2, <3>2 DEF Manager!TypeOK, Readable
    <2> QED BY <2>1, <2>3, <2>4
<1>5. CASE Manager!ExitSwallowed \/ Manager!End
    <2>1. /\ next' = 0
          /\ UNCHANGED <<ports, port_file, ready_file, running, masked, told, unsaved>>
        BY <1>5 DEF Manager!ExitSwallowed, Manager!End
    <2>2. Manager!TypeOK' /\ Readable'
        BY <1>1, <2>1 DEF Manager!TypeOK, Readable
    <2> QED BY <1>1, <2>1, <2>2 DEF Filed
<1>6. CASE Manager!Change \/ \E s \in Manager!Services : Manager!Pause(s) \/ Manager!Resume(s)
    <2>1. /\ next = 0 /\ next' = 0
          /\ UNCHANGED <<port_file, ready_file, told, unsaved>>
          /\ ports' = ports \/ ports' \in Definitions
        BY <1>6 DEF Manager!Change, Manager!Pause, Manager!Resume
    <2>2. running' \subseteq Manager!Services /\ masked' \subseteq Manager!Services
        BY <1>1, <1>6 DEF Manager!Change, Manager!Pause, Manager!Resume, Manager!TypeOK
    <2>3. Manager!TypeOK' /\ Readable'
        BY <1>1, <2>1, <2>2 DEF Manager!TypeOK, Readable
    <2> QED BY <1>1, <2>1, <2>3 DEF Filed
<1>7. CASE UNCHANGED Manager!vars
    BY <1>1, <1>7 DEF Manager!vars, Manager!TypeOK, Filed, Readable
<1> QED BY <1>2, <1>3, <1>4, <1>5, <1>6, <1>7 DEF Manager!Next

\* Closing the ports of a service leaves those of another alone that it never had.
LEMMA PortsApart ==
    ASSUME Filed, NEW s \in Manager!Services, NEW q \in Manager!Services \ {s}
    PROVE  \A x \in (port_file[s] \cup ports[s]) \cap ports[q] : Manager!Contended(x)
<1> SUFFICES ASSUME NEW x \in ports[q], x \in port_file[s] \/ x \in ports[s]
             PROVE  Manager!Contended(x)
    OBVIOUS
<1>1. PICK d \in Definitions : x \in d[s]
    BY DEF Filed
<1> QED BY <1>1 DEF Manager!Contended, Filed

LEMMA PortsOfRound ==
    ASSUME ManagerTypes, PortsKept, Manager!Reconfigure
    PROVE  PortsKept'
<1>1. PICK s \in Manager!Services :
        /\ next \in 1 .. Len(Order) /\ next' = next + 1 /\ s = Order[next]
        /\ Manager!Events(s)
        /\ draft' = Manager!manage_ports(s, Manager!is_ready(s))
        /\ UNCHANGED <<published, ports, opened, leaked>>
    BY ReconfigureFacts
<1>2. /\ Filed' /\ port_file'[s] = ports[s]
      /\ \A q \in Manager!Services \ {s} : port_file'[q] = port_file[q]
      /\ forgotten' = forgotten \cup (port_file[s] \ ports[s])
    BY <1>1, EventsFacts, PortFileFacts
<1>3. /\ Manager!is_ready(s) => draft' = (draft \ (port_file[s] \ ports[s])) \cup ports[s]
      /\ ~Manager!is_ready(s) => draft' = (draft \ (port_file[s] \ ports[s])) \ ports[s]
    BY <1>1 DEF Manager!manage_ports
<1>4. next # 0 /\ next' # 0
    BY <1>1, OrderFacts
<1>5. \A x \in opened' \ leaked' : InFiles(x)' \/ (next' # 0 /\ x \in forgotten')
    <2>1. SUFFICES ASSUME NEW x \in opened \ leaked PROVE InFiles(x)' \/ x \in forgotten'
        BY <1>1, <1>4
    <2>2. InFiles(x) \/ x \in forgotten
        BY DEF PortsKept
    <2> QED BY <1>1, <1>2, <2>2 DEF InFiles
<1>6. \A x \in draft' \ leaked' : InFiles(x)'
    <2>1. SUFFICES ASSUME NEW x \in draft' \ leaked PROVE InFiles(x)'
        BY <1>1
    <2>2. CASE x \in ports[s]
        BY <1>1, <1>2, <2>2 DEF InFiles
    <2>3. CASE x \notin ports[s]
        <3>1. x \in draft /\ x \notin port_file[s]
            BY <1>3, <2>3
        <3>2. InFiles(x)
            BY <1>4, <2>1, <3>1 DEF PortsKept
        <3> QED BY <1>2, <3>1, <3>2 DEF InFiles
    <2> QED BY <2>2, <2>3
<1>7. \A q \in Manager!Services : Manager!is_ready(q)' <=> Manager!is_ready(q)
    BY <1>1 DEF Manager!is_ready
<1>8. \A q \in Manager!Services : Passed(q)' <=> Passed(q) \/ q = s
    BY <1>1, PassedNext
<1>9. /\ \A x : Claimed(x) => Claimed(x)'
      /\ Manager!is_ready(s) => \A x \in ports[s] : Claimed(x)'
    BY <1>1, <1>7, <1>8 DEF Claimed
<1>10. ASSUME NEW q \in Manager!Services, Passed(q)'
      PROVE  /\ port_file'[q] = ports'[q]
             /\ Manager!is_ready(q)' => \A x \in ports'[q] : x \in draft' \/ Manager!Contended(x)'
             /\ \A x \in ports'[q] \cap draft' : Claimed(x)'
    <2>0. \A x : Manager!Contended(x)' <=> Manager!Contended(x)
        BY DEF Manager!Contended
    <2>1. CASE q = s
        BY <1>1, <1>2, <1>3, <1>7, <1>9, <2>1
    <2>2. CASE q # s
        <3>1. /\ port_file[q] = ports[q]
              /\ Manager!is_ready(q) => \A x \in ports[q] : x \in draft \/ Manager!Contended(x)
              /\ \A x \in ports[q] \cap draft : Claimed(x)
            BY <1>8, <1>10, <2>2 DEF PortsKept
        <3>2. \A x \in (port_file[s] \cup ports[s]) \cap ports[q] : Manager!Contended(x)
            BY <2>2, PortsApart DEF ManagerTypes
        <3>3. \A x \in draft' : x \in draft \/ (Manager!is_ready(s) /\ x \in ports[s])
            BY <1>3
        <3>4. \A x \in draft : x \in draft' \/ x \in port_file[s] \cup ports[s]
            BY <1>3
        <3>5. Manager!is_ready(q)' => \A x \in ports'[q] : x \in draft' \/ Manager!Contended(x)'
            BY <1>1, <1>7, <2>0, <3>1, <3>2, <3>4
        <3> QED BY <1>1, <1>2, <1>9, <2>2, <3>1, <3>3, <3>5
    <2> QED BY <2>1, <2>2
<1> QED BY <1>5, <1>6, <1>10 DEF PortsKept

LEMMA PortsNext == ASSUME ManagerTypes, PortsKept, [Manager!Next]_Manager!vars PROVE PortsKept'
<1> USE DEF Manager!files, Manager!host, Manager!ghosts
<1>0. next \in Nat /\ (next # 0 => next >= 1)
    BY OrderFacts DEF ManagerTypes, Manager!TypeOK
<1>1. CASE Manager!Begin
    <2>1. /\ next = 0 /\ next' = 1 /\ draft' = opened
          /\ UNCHANGED <<opened, leaked, port_file>>
        BY <1>1 DEF Manager!Begin
    <2>2. \A x : InFiles(x)' <=> InFiles(x)
        BY <2>1 DEF InFiles
    <2>3. \A s : ~Passed(s)'
        BY <2>1 DEF Passed
    <2> QED BY <2>1, <2>2, <2>3 DEF PortsKept
<1>2. CASE Manager!Reconfigure
    BY <1>2, PortsOfRound
<1>3. CASE Manager!CallbackRaises \/ Manager!CutOff
    <2>1. /\ next \in 1 .. Len(Order) /\ next' = 0
          /\ leaked' = leaked \cup (forgotten' \cap opened)
          /\ UNCHANGED <<ports, opened>>
          /\ \/ UNCHANGED <<port_file, forgotten>>
             \/ \E s \in Manager!Services : Manager!Events(s)
        BY <1>3, FailedFacts
    <2>2. \A x \in opened \ leaked : InFiles(x) => InFiles(x)' \/ x \in forgotten'
        <3>1. CASE UNCHANGED <<port_file, forgotten>>
            BY <3>1 DEF InFiles
        <3>2. CASE \E s \in Manager!Services : Manager!Events(s)
            <4>1. PICK s \in Manager!Services : Manager!Events(s)
                BY <3>2
            <4>2. /\ port_file'[s] = ports[s]
                  /\ \A q \in Manager!Services \ {s} : port_file'[q] = port_file[q]
                  /\ forgotten' = forgotten \cup (port_file[s] \ ports[s])
                BY <2>1, <4>1, EventsFacts, PortFileFacts
            <4> QED BY <4>2 DEF InFiles
        <3> QED BY <2>1, <3>1, <3>2
    <2>3. forgotten \subseteq forgotten'
        BY <2>1, EventsFacts
    <2>4. \A x \in opened' \ leaked' : InFiles(x)'
        BY <2>1, <2>2, <2>3 DEF PortsKept
    <2>5. \A s : ~Passed(s)'
        BY <2>1 DEF Passed
    <2> QED BY <2>1, <2>4, <2>5 DEF PortsKept
<1>4. CASE Manager!ExitSwallowed
    <2>1. /\ next \in 1 .. Len(Order) /\ next' = 0 /\ opened' = draft
          /\ UNCHANGED <<port_file, leaked>>
        BY <1>4 DEF Manager!ExitSwallowed
    <2>2. \A x \in opened' \ leaked' : InFiles(x)'
        BY <2>1, OrderFacts DEF PortsKept, InFiles
    <2>3. \A s : ~Passed(s)'
        BY <2>1 DEF Passed
    <2> QED BY <2>1, <2>2, <2>3 DEF PortsKept
<1>5. CASE Manager!End
    <2>1. /\ next > Len(Order) /\ next' = 0 /\ opened' = draft
          /\ leaked' = (leaked \cap draft) \ UNION {ports[s] : s \in Manager!Services}
          /\ UNCHANGED <<port_file, ports>>
        BY <1>5 DEF Manager!End
    <2>2. next # 0 /\ \A s \in Manager!Services : port_file[s] = ports[s]
        BY <1>0, <2>1, AllPassed, OrderFacts DEF PortsKept
    <2>3. ASSUME NEW x \in draft, x \notin leaked' PROVE InFiles(x)'
        <3>1. CASE x \in leaked
            BY <2>1, <2>2, <2>3, <3>1 DEF InFiles
        <3>2. CASE x \notin leaked
            BY <2>1, <2>2, <2>3, <3>2 DEF InFiles, PortsKept
        <3> QED BY <3>1, <3>2
    <2>4. \A s : ~Passed(s)'
        BY <2>1 DEF Passed
    <2> QED BY <2>1, <2>3, <2>4 DEF PortsKept
<1>6. CASE Manager!Change \/ \E s \in Manager!Services : Manager!Pause(s) \/ Manager!Resume(s)
    <2>1. /\ next = 0 /\ next' = 0
          /\ UNCHANGED <<port_file, opened, leaked>>
        BY <1>6 DEF Manager!Change, Manager!Pause, Manager!Resume
    <2>2. \A x \in opened' \ leaked' : InFiles(x)'
        BY <2>1 DEF PortsKept, InFiles
    <2>3. \A s : ~Passed(s)'
        BY <2>1 DEF Passed
    <2> QED BY <2>1, <2>2, <2>3 DEF PortsKept
<1>7. CASE UNCHANGED Manager!vars
    BY <1>7 DEF Manager!vars, PortsKept, InFiles, Claimed, Passed, Manager!is_ready, Manager!Contended
<1> QED BY <1>1, <1>2, <1>3, <1>4, <1>5, <1>6, <1>7 DEF Manager!Next

LEMMA ReadyNext == ASSUME ManagerTypes, ReadyKept, [Manager!Next]_Manager!vars PROVE ReadyKept'
<1> USE DEF Manager!files, Manager!host, Manager!ghosts
<1>1. CASE Manager!Reconfigure
    <2>1. PICK s \in Manager!Services :
            /\ next \in 1 .. Len(Order) /\ next' = next + 1 /\ s = Order[next]
            /\ Manager!Events(s)
            /\ ready_file' = IF Manager!is_ready(s) THEN ready_file \cup {s} ELSE ready_file \ {s}
            /\ published' = published
        BY <1>1, ReconfigureFacts
    <2>2. /\ running' \ {s} = running \ {s} /\ stray' \ {s} = stray \ {s}
          /\ s \in running' => Manager!is_ready(s) \/ s \in stray'
        BY <2>1, EventsFacts
    <2>3. \A q \in Manager!Services : Passed(q)' => Passed(q) \/ q = s
        BY <2>1, PassedNext
    <2>4. ASSUME NEW q \in Manager!Services, Passed(q)'
          PROVE  /\ q \in ready_file' <=> Manager!is_ready(q)'
                 /\ q \in running' => Manager!is_ready(q)' \/ q \in stray'
        <3>1. CASE q = s
            BY <2>1, <2>2, <3>1 DEF Manager!is_ready
        <3>2. CASE q # s
            <4>1. /\ q \in ready_file <=> Manager!is_ready(q)
                  /\ q \in running => Manager!is_ready(q) \/ q \in stray
                BY <2>3, <2>4, <3>2 DEF ReadyKept, Manager!is_ready
            <4>2. /\ q \in ready_file' <=> q \in ready_file
                  /\ q \in running' <=> q \in running
                  /\ q \in stray' <=> q \in stray
                BY <2>1, <2>2, <3>2
            <4> QED BY <2>1, <4>1, <4>2 DEF Manager!is_ready
        <3> QED BY <3>1, <3>2
    <2> QED BY <2>4 DEF ReadyKept
<1>2. CASE Manager!Begin \/ Manager!CallbackRaises \/ Manager!CutOff \/ Manager!ExitSwallowed \/ Manager!End \/ Manager!Change
            \/ \E s \in Manager!Services : Manager!Pause(s) \/ Manager!Resume(s)
    <2>1. next' = 0 \/ next' = 1
        BY <1>2 DEF Manager!Begin, Manager!CallbackRaises, Manager!CutOff, Manager!Failed, Manager!ExitSwallowed, Manager!End, Manager!Change, Manager!Pause, Manager!Resume
    <2>2. \A i \in 1 .. next' - 1 : FALSE
        BY <2>1
    <2>3. \A s : ~Passed(s)'
        BY <2>2 DEF Passed
    <2> QED BY <2>3 DEF ReadyKept
<1>3. CASE UNCHANGED Manager!vars
    BY <1>3 DEF Manager!vars, ReadyKept, Passed, Manager!is_ready
<1> QED BY <1>1, <1>2, <1>3 DEF Manager!Next

LEMMA RestNext ==
    ASSUME ManagerTypes, PortsKept, ReadyKept, Manager!ServicesFollowData, [Manager!Next]_Manager!vars
    PROVE  Manager!ServicesFollowData'
<1> USE DEF Manager!files, Manager!host, Manager!ghosts
<1>0. next \in Nat /\ Len(Order) \in Nat
    BY OrderFacts DEF ManagerTypes, Manager!TypeOK
<1>1. CASE Manager!Begin \/ Manager!Reconfigure \/ Manager!ExitSwallowed \/ Manager!Change
    <2>1. next' # 0 \/ due' = TRUE \/ swallowed' = TRUE
        BY <1>0, <1>1 DEF Manager!Begin, Manager!Reconfigure, Manager!ExitSwallowed, Manager!Change
    <2> QED BY <2>1 DEF Manager!ServicesFollowData, Manager!AtRest
<1>2. CASE Manager!CallbackRaises \/ Manager!CutOff
    <2>1. next # 0 /\ due' = due
        BY <1>0, <1>2, FailedFacts
    <2>2. due' = TRUE
        BY <2>1 DEF ManagerTypes, HookIsDue
    <2> QED BY <2>2 DEF Manager!ServicesFollowData, Manager!AtRest
<1>3. CASE Manager!End
    <2>1. /\ next > Len(Order) /\ opened' = draft
          /\ leaked' = (leaked \cap draft) \ UNION {ports[s] : s \in Manager!Services}
          /\ UNCHANGED <<published, ports, port_file, ready_file, running, told, unsaved, stray>>
        BY <1>3 DEF Manager!End
    <2>2. /\ next # 0 /\ ready_file # Torn
          /\ \A s \in Manager!Services : Passed(s)
        BY <1>0, <2>1, AllPassed DEF ManagerTypes, Readable
    <2>3. \A s \in Manager!Services :
             /\ port_file[s] = ports[s]
             /\ Manager!is_ready(s) => \A x \in ports[s] : x \in draft \/ Manager!Contended(x)
             /\ \A x \in ports[s] \cap draft : Claimed(x)
        BY <2>2 DEF PortsKept
    <2> DEFINE ready == {s \in Manager!Services : Manager!is_ready(s)}
               theirs == UNION {ports[s] : s \in ready}
    <2>4. opened' \ leaked' \subseteq theirs
        <3>1. SUFFICES ASSUME NEW x \in draft, x \notin leaked' PROVE x \in theirs
            BY <2>1
        <3>2. PICK s \in Manager!Services : x \in ports[s]
            <4>1. CASE x \in leaked
                BY <2>1, <3>1, <4>1
            <4>2. CASE x \notin leaked
                BY <2>2, <2>3, <4>2 DEF PortsKept, InFiles
            <4> QED BY <4>1, <4>2
        <3>3. Claimed(x)
            BY <2>3, <3>2
        <3> QED BY <3>3 DEF Claimed
    <2>5. \A x \in theirs : x \in opened' \/ Manager!Contended(x)
        BY <2>1, <2>3
    <2>6. ready_file = ready
        BY <2>2 DEF ReadyKept, ManagerTypes, Manager!TypeOK
    <2>7. running \ stray \subseteq ready
        BY <2>2 DEF ReadyKept, ManagerTypes, Manager!TypeOK
    <2>8. told \ unsaved = ready \ unsaved
        BY <2>2, <2>6 DEF ManagerTypes, Readable
    <2>9. \A s \in Manager!Services : Manager!is_ready(s)' <=> Manager!is_ready(s)
        BY <2>1 DEF Manager!is_ready
    <2>10. ready' = ready /\ theirs' = theirs
        BY <2>1, <2>9
    <2>11. \A x : Manager!Contended(x)' <=> Manager!Contended(x)
        BY DEF Manager!Contended
    <2> HIDE DEF ready, theirs
    <2>12. /\ opened' \ leaked' \subseteq theirs'
           /\ \A x \in theirs' : x \in opened' \/ Manager!Contended(x)'
           /\ ready_file' = ready' /\ told' \ unsaved' = ready' \ unsaved'
           /\ running' \ stray' \subseteq ready'
        BY <2>1, <2>4, <2>5, <2>6, <2>7, <2>8, <2>10, <2>11
    <2> QED BY <2>12 DEF Manager!ServicesFollowData, ready, theirs
<1>4. ASSUME NEW r \in Manager!Services, Manager!Pause(r) \/ Manager!Resume(r)
      PROVE  Manager!ServicesFollowData'
    <2>1. /\ running' \ stray' \subseteq running \ stray
          /\ UNCHANGED <<published, ports, ready_file, opened, leaked, told, unsaved, next>>
        BY <1>4 DEF Manager!Pause, Manager!Resume
    <2>2. UNCHANGED <<due, swallowed>>
        BY <1>4 DEF Manager!Pause, Manager!Resume
    <2> QED BY <2>1, <2>2 DEF Manager!ServicesFollowData, Manager!AtRest, Manager!is_ready, Manager!Contended
<1>5. CASE UNCHANGED Manager!vars
    BY <1>5 DEF Manager!vars, Manager!ServicesFollowData, Manager!AtRest, Manager!is_ready, Manager!Contended
<1> QED BY <1>1, <1>2, <1>3, <1>4, <1>5 DEF Manager!Next

LEMMA ManagerPart == Spec => Manager!Spec
<1>1. Init => Manager!Init
    BY DEF Init
<1>2. [Next]_vars => [Manager!Next]_Manager!vars
    BY DEF Next, vars, managerVars, Manager!vars, Manager!files, Manager!host, Manager!ghosts
<1> QED BY <1>1, <1>2, PTL DEF Spec, Manager!Spec

LEMMA ManagerInvHolds == Spec => []ManagerInv
<1>1. Manager!Init => ManagerInv
    <2> SUFFICES ASSUME Manager!Init PROVE ManagerInv
        OBVIOUS
    <2>1. Manager!TypeOK /\ HookIsDue /\ Readable
        BY OrderFacts, ManagerAssumption DEF Manager!Init, Manager!TypeOK, HookIsDue, Readable
    <2>2. Filed
        BY DEF Manager!Init, Filed
    <2>3. PortsKept /\ ReadyKept
        BY DEF Manager!Init, PortsKept, ReadyKept, Passed
    <2>4. Manager!ServicesFollowData
        BY DEF Manager!Init, Manager!ServicesFollowData, Manager!AtRest
    <2> QED BY <2>1, <2>2, <2>3, <2>4 DEF ManagerInv, ManagerTypes
<1>2. ManagerInv /\ [Manager!Next]_Manager!vars => ManagerInv'
    BY ManagerTypesNext, PortsNext, ReadyNext, RestNext DEF ManagerInv
<1> QED BY <1>1, <1>2, ManagerPart, PTL DEF Manager!Spec

\* Once the hooks are through, open ports, the ready file, callbacks and running services
\* follow the data, however many hooks have failed, for any ports that versions define.
THEOREM ServicesFollow == Spec => []ServicesFollowData
<1>1. ManagerInv => ServicesFollowData
    BY DEF ManagerInv, ServicesFollowData
<1> QED BY <1>1, ManagerInvHolds, PTL

-----------------------------------------------------------------------------
(***************************************************************************)
(* The extra contacts of an upgrade.                                       *)
(***************************************************************************)
\* What has been read of the option: position is the first contact that has not, and
\* origin has the places of those that were taken.
ReadUpTo(origin) ==
    /\ origin \in [DOMAIN extra_contacts -> 1 .. position - 1]
    /\ Contacts!FromOption(origin)
    /\ \A j \in 1 .. position - 1 :
          Contacts!Documented(extra_contacts_raw.list[j]) => \E i \in DOMAIN origin : origin[i] = j

\* What the template can be given.
Usable(c) == /\ Contacts!Required \subseteq c.keys /\ c.named = "text"
             /\ c.commands \in {"texts", "lists"}

ContactsInv ==
    /\ Contacts!TypeOK
    /\ extra_contacts_raw.list \in Seq(Contacts!Contact)
    /\ Len(extra_contacts_raw.list) <= MaxContacts
    /\ extra_contacts_raw.kind # "list" => extra_contacts_raw.list = <<>>
    /\ position <= Len(extra_contacts_raw.list) + 1
    /\ outcome = "returned" => position = Len(extra_contacts_raw.list) + 1
    /\ outcome = "raised" =>
          \/ extra_contacts_raw.kind # "list"
          \/ \E i \in DOMAIN extra_contacts_raw.list : ~Contacts!Plain(extra_contacts_raw.list[i])
    /\ \A i \in DOMAIN extra_contacts : Usable(extra_contacts[i])
    /\ \E origin : ReadUpTo(origin)

LEMMA RawIsSequence ==
    ASSUME NEW raw \in Contacts!Raw
    PROVE  /\ raw.list \in Seq(Contacts!Contact)
           /\ Len(raw.list) <= MaxContacts
           /\ raw.kind # "list" => raw.list = <<>>
<1>1. ASSUME raw \in [kind : {"list"}, list : Contacts!BoundedSeq(Contacts!Contact, MaxContacts)]
      PROVE  raw.kind = "list" /\ raw.list \in Seq(Contacts!Contact) /\ Len(raw.list) <= MaxContacts
    <2>1. raw.list \in Contacts!BoundedSeq(Contacts!Contact, MaxContacts)
        BY <1>1
    <2>2. PICK m \in 0 .. MaxContacts : raw.list \in [1 .. m -> Contacts!Contact]
        BY <2>1 DEF Contacts!BoundedSeq, Contacts!SeqOf
    <2>3. m \in Nat /\ raw.list \in Seq(Contacts!Contact) /\ Len(raw.list) = m
        BY <2>2, ContactBound
    <2> QED BY <1>1, <2>2, <2>3, ContactBound
<1>2. ASSUME raw \in [kind : {"text", "number", "unparsable"}, list : {<<>>}]
      PROVE  raw.kind # "list" /\ raw.list = <<>>
    BY <1>2
<1>3. ASSUME raw.list = <<>> PROVE raw.list \in Seq(Contacts!Contact) /\ Len(raw.list) <= MaxContacts
    <2>1. Len(raw.list) = 0 /\ <<>> \in Seq(Contacts!Contact)
        BY <1>3
    <2> QED BY <1>3, <2>1, ContactBound
<1>4. \/ raw \in [kind : {"list"}, list : Contacts!BoundedSeq(Contacts!Contact, MaxContacts)]
      \/ raw \in [kind : {"text", "number", "unparsable"}, list : {<<>>}]
    BY DEF Contacts!Raw
<1> QED BY <1>1, <1>2, <1>3, <1>4

\* A contact that is as documented is taken, and one that is taken has all keys and texts.
LEMMA TakenOrNot ==
    ASSUME ~Contacts!Raises, Contacts!contact \in Contacts!Contact
    PROVE  /\ ~Contacts!Skipped => Usable(Contacts!contact)
           /\ Contacts!Documented(Contacts!contact) => ~Contacts!Skipped
<1> USE DEF Contacts!Raises, Contacts!Skipped, Contacts!TooFew, Contacts!Illegal, Contacts!Exceeds
<1>1. /\ Contacts!contact.named \in {"text", "list", "other"}
      /\ Contacts!contact.commands \in {"texts", "broken", "lists", "other"}
    BY DEF Contacts!Contact
<1>2. ~Contacts!Skipped => Usable(Contacts!contact)
    BY <1>1 DEF Usable, Contacts!Required
<1>3. Contacts!Documented(Contacts!contact) => ~Contacts!Skipped
    BY DEF Contacts!Documented, Contacts!Plain
<1> QED BY <1>2, <1>3

LEMMA OthersRaise == ASSUME Contacts!Raises PROVE ~Contacts!Plain(Contacts!contact)
BY DEF Contacts!Raises, Contacts!TooFew, Contacts!Exceeds, Contacts!Plain, Contacts!Required

LEMMA ReadOn ==
    ASSUME ContactsInv, Contacts!TakeContact, ~Contacts!Raises
    PROVE  \E origin : ReadUpTo(origin)'
<1>0. /\ position \in 1 .. MaxContacts + 1 /\ MaxContacts \in Nat
      /\ extra_contacts \in Seq(Contacts!Contact) /\ extra_contacts_raw.list \in Seq(Contacts!Contact)
    BY ContactBound DEF ContactsInv, Contacts!TypeOK
<1>1. /\ position \in DOMAIN extra_contacts_raw.list
      /\ position' = position + 1 /\ extra_contacts_raw' = extra_contacts_raw
      /\ extra_contacts' = IF Contacts!Skipped THEN extra_contacts ELSE Append(extra_contacts, Contacts!contact)
      /\ Contacts!contact = extra_contacts_raw.list[position] /\ Contacts!contact \in Contacts!Contact
    <2>1. Contacts!contact = extra_contacts_raw.list[position]
        BY DEF Contacts!contact
    <2> QED BY <1>0, <2>1 DEF Contacts!TakeContact
<1>2. PICK origin : ReadUpTo(origin)
    BY DEF ContactsInv
<1>3. \A j \in 1 .. position' - 1 : j \in 1 .. position - 1 \/ j = position
    BY <1>0, <1>1
<1>4. \A j \in 1 .. position - 1 : j \in 1 .. position' - 1 /\ j < position
    BY <1>0, <1>1
<1>5. CASE Contacts!Skipped
    <2>1. extra_contacts' = extra_contacts /\ ~Contacts!Documented(extra_contacts_raw.list[position])
        BY <1>1, <1>5, TakenOrNot
    <2>2. origin \in [DOMAIN extra_contacts' -> 1 .. position' - 1]
        BY <1>2, <1>4, <2>1 DEF ReadUpTo
    <2>3. Contacts!FromOption(origin)'
        BY <1>1, <1>2, <2>1 DEF ReadUpTo, Contacts!FromOption
    <2>4. \A j \in 1 .. position' - 1 :
             Contacts!Documented(extra_contacts_raw'.list[j]) => \E i \in DOMAIN origin : origin[i] = j
        BY <1>1, <1>2, <1>3, <2>1 DEF ReadUpTo
    <2>5. ReadUpTo(origin)'
        BY <2>2, <2>3, <2>4 DEF ReadUpTo, Contacts!Documented, Contacts!Plain
    <2> QED BY <2>5
<1>6. CASE ~Contacts!Skipped
    <2> DEFINE n == Len(extra_contacts)
    <2>0. PICK new : new = [i \in 1 .. n + 1 |-> IF i = n + 1 THEN position ELSE origin[i]]
        OBVIOUS
    <2>1. /\ extra_contacts' \in Seq(Contacts!Contact) /\ Len(extra_contacts') = n + 1 /\ n \in Nat
          /\ extra_contacts'[n + 1] = Contacts!contact
          /\ \A i \in 1 .. n : extra_contacts'[i] = extra_contacts[i]
        BY <1>0, <1>1, <1>6
    <2>2. DOMAIN extra_contacts' = 1 .. n + 1 /\ DOMAIN extra_contacts = 1 .. n
        BY <1>0, <2>1
    <2>3. /\ \A i \in 1 .. n : new[i] = origin[i] /\ origin[i] \in 1 .. position - 1
          /\ new[n + 1] = position
          /\ DOMAIN new = 1 .. n + 1 /\ DOMAIN origin = 1 .. n
        BY <1>2, <2>0, <2>1, <2>2 DEF ReadUpTo
    <2>4. \A i \in 1 .. n + 1 : i \in 1 .. n \/ i = n + 1
        BY <2>1
    <2>5. new \in [DOMAIN extra_contacts' -> 1 .. position' - 1]
        <3>1. position \in 1 .. position' - 1
            BY <1>0, <1>1
        <3>2. \A i \in 1 .. n + 1 : new[i] \in 1 .. position' - 1
            BY <1>4, <2>3, <2>4, <3>1
        <3> QED BY <2>0, <2>2, <3>2
    <2>6. ASSUME NEW i \in 1 .. n + 1, NEW j \in 1 .. n + 1
          PROVE  /\ extra_contacts'[i] = extra_contacts_raw.list[new[i]]
                 /\ i < j => new[i] < new[j]
        <3>1. extra_contacts'[i] = extra_contacts_raw.list[new[i]]
            <4>1. CASE i \in 1 .. n
                BY <1>2, <2>1, <2>3, <4>1 DEF ReadUpTo, Contacts!FromOption
            <4>2. CASE i = n + 1
                BY <1>1, <2>1, <2>3, <4>2
            <4> QED BY <2>4, <4>1, <4>2
        <3>2. ASSUME i < j PROVE new[i] < new[j]
            <4>1. i \in 1 .. n
                BY <2>1, <3>2
            <4>2. CASE j \in 1 .. n
                BY <1>2, <2>3, <3>2, <4>1, <4>2 DEF ReadUpTo, Contacts!FromOption
            <4>3. CASE j = n + 1
                BY <1>4, <2>3, <4>1, <4>3
            <4> QED BY <2>4, <4>2, <4>3
        <3> QED BY <3>1, <3>2
    <2>7. Contacts!FromOption(new)'
        BY <1>1, <2>3, <2>6 DEF Contacts!FromOption
    <2>8. ASSUME NEW j \in 1 .. position' - 1, Contacts!Documented(extra_contacts_raw.list[j])
          PROVE  \E i \in DOMAIN new : new[i] = j
        <3>1. CASE j = position
            BY <2>1, <2>3, <3>1
        <3>2. CASE j \in 1 .. position - 1
            <4>1. PICK i \in DOMAIN origin : origin[i] = j
                BY <1>2, <2>8, <3>2 DEF ReadUpTo
            <4>2. i \in 1 .. n + 1 /\ new[i] = j
                BY <2>1, <2>3, <4>1
            <4> QED BY <2>3, <4>2
        <3> QED BY <1>3, <3>1, <3>2
    <2>9. ReadUpTo(new)'
        BY <1>1, <2>5, <2>7, <2>8 DEF ReadUpTo, Contacts!Documented, Contacts!Plain
    <2> QED BY <2>9
<1> QED BY <1>5, <1>6

LEMMA ContactsNext == ASSUME ContactsInv, [Contacts!Next]_Contacts!vars PROVE ContactsInv'
<1>1. ASSUME UNCHANGED <<extra_contacts_raw, extra_contacts, position>>
      PROVE  \E origin : ReadUpTo(origin)'
    <2>1. PICK origin : ReadUpTo(origin)
        BY DEF ContactsInv
    <2>2. ReadUpTo(origin)'
        BY <1>1, <2>1 DEF ReadUpTo, Contacts!FromOption, Contacts!Documented, Contacts!Plain
    <2> QED BY <2>2
<1>2. CASE Contacts!NotAList
    <2>1. /\ UNCHANGED <<extra_contacts_raw, extra_contacts, position>>
          /\ outcome' \in {"returned", "raised"} /\ extra_contacts_raw.kind # "list"
        BY <1>2 DEF Contacts!NotAList, Contacts!Finish
    <2>2. position = Len(extra_contacts_raw.list) + 1
        <3>1. Len(extra_contacts_raw.list) = 0
            BY <2>1 DEF ContactsInv
        <3> QED BY <3>1, ContactBound DEF ContactsInv, Contacts!TypeOK
    <2> QED BY <1>1, <2>1, <2>2 DEF ContactsInv, Contacts!TypeOK
<1>3. CASE Contacts!TakeContact
    <2>1. /\ position \in DOMAIN extra_contacts_raw.list /\ extra_contacts_raw' = extra_contacts_raw
          /\ Contacts!contact = extra_contacts_raw.list[position]
        BY <1>3 DEF Contacts!TakeContact, Contacts!contact, Contacts!Finish
    <2>2. CASE Contacts!Raises
        <3>1. UNCHANGED <<extra_contacts_raw, extra_contacts, position>> /\ outcome' = "raised"
            BY <1>3, <2>2 DEF Contacts!TakeContact, Contacts!Finish
        <3>2. ~Contacts!Plain(extra_contacts_raw.list[position])
            BY <2>1, <2>2, OthersRaise
        <3>3. \E i \in DOMAIN extra_contacts_raw'.list : ~Contacts!Plain(extra_contacts_raw.list[i])'
            BY <2>1, <3>2 DEF Contacts!Plain
        <3> QED BY <1>1, <2>1, <3>1, <3>3 DEF ContactsInv, Contacts!TypeOK
    <2>3. CASE ~Contacts!Raises
        <3>1. /\ position' = position + 1 /\ outcome' = outcome /\ outcome = "running"
              /\ extra_contacts' = IF Contacts!Skipped THEN extra_contacts ELSE Append(extra_contacts, Contacts!contact)
            BY <1>3, <2>3 DEF Contacts!TakeContact
        <3>2. /\ position \in 1 .. Len(extra_contacts_raw.list)
              /\ Contacts!contact \in Contacts!Contact
              /\ extra_contacts \in Seq(Contacts!Contact)
            BY <2>1 DEF ContactsInv, Contacts!TypeOK
        <3>3. /\ extra_contacts' \in Seq(Contacts!Contact)
              /\ \A i \in DOMAIN extra_contacts' : Usable(extra_contacts'[i])
            <4>1. CASE Contacts!Skipped
                BY <3>1, <3>2, <4>1 DEF ContactsInv
            <4>2. CASE ~Contacts!Skipped
                <5>1. Usable(Contacts!contact)
                    BY <2>3, <3>2, <4>2, TakenOrNot
                <5>2. extra_contacts' = Append(extra_contacts, Contacts!contact)
                    BY <3>1, <4>2
                <5>3. /\ extra_contacts' \in Seq(Contacts!Contact)
                      /\ DOMAIN extra_contacts' = 1 .. Len(extra_contacts) + 1
                      /\ extra_contacts'[Len(extra_contacts) + 1] = Contacts!contact
                      /\ \A i \in 1 .. Len(extra_contacts) : extra_contacts'[i] = extra_contacts[i]
                    BY <3>2, <5>2
                <5>4. \A i \in DOMAIN extra_contacts' :
                         i \in DOMAIN extra_contacts \/ i = Len(extra_contacts) + 1
                    BY <3>2, <5>3
                <5> QED BY <3>2, <5>1, <5>3, <5>4 DEF ContactsInv
            <4> QED BY <4>1, <4>2
        <3>4. /\ position' \in 1 .. MaxContacts + 1
              /\ position' <= Len(extra_contacts_raw.list) + 1
            BY <3>1, <3>2, ContactBound DEF ContactsInv
        <3>5. \E origin : ReadUpTo(origin)'
            BY <1>3, <2>3, ReadOn
        <3> QED BY <2>1, <3>1, <3>3, <3>4, <3>5 DEF ContactsInv, Contacts!TypeOK
    <2> QED BY <2>2, <2>3
<1>4. CASE Contacts!Return
    <2>1. /\ UNCHANGED <<extra_contacts_raw, extra_contacts, position>> /\ outcome' = "returned"
          /\ position = Len(extra_contacts_raw.list) + 1
        BY <1>4 DEF Contacts!Return, Contacts!Finish
    <2> QED BY <1>1, <2>1 DEF ContactsInv, Contacts!TypeOK
<1>5. CASE UNCHANGED Contacts!vars
    <2>1. UNCHANGED <<extra_contacts_raw, extra_contacts, position, outcome>>
        BY <1>5 DEF Contacts!vars
    <2> QED BY <1>1, <2>1 DEF ContactsInv, Contacts!TypeOK
<1> QED BY <1>2, <1>3, <1>4, <1>5 DEF Contacts!Next

LEMMA ContactsPart == Spec => Contacts!Spec
<1>1. Init => Contacts!Init
    BY DEF Init
<1>2. [Next]_vars => [Contacts!Next]_Contacts!vars
    BY DEF Next, vars, contactsVars, Contacts!vars
<1> QED BY <1>1, <1>2, PTL DEF Spec, Contacts!Spec

LEMMA ContactsInvHolds == Spec => []ContactsInv
<1>1. Contacts!Init => ContactsInv
    <2> SUFFICES ASSUME Contacts!Init PROVE ContactsInv
        OBVIOUS
    <2>1. /\ extra_contacts_raw \in Contacts!Raw /\ extra_contacts = <<>> /\ position = 1
          /\ outcome = "running"
        BY DEF Contacts!Init
    <2>2. /\ extra_contacts \in Seq(Contacts!Contact) /\ DOMAIN extra_contacts = {}
          /\ Len(extra_contacts_raw.list) \in Nat
        BY <2>1, RawIsSequence
    <2>3. Contacts!TypeOK
        BY <2>1, <2>2, ContactBound DEF Contacts!TypeOK
    <2>4. ReadUpTo(<<>>)
        BY <2>1 DEF ReadUpTo, Contacts!FromOption
    <2> QED BY <2>1, <2>2, <2>3, <2>4, RawIsSequence DEF ContactsInv
<1> QED BY <1>1, ContactsNext, ContactsPart, PTL DEF Contacts!Spec

\* The documented contacts of the option are taken in their order, and what is taken with
\* them has all keys, a text for a name and no line break, for options of any length and
\* contacts of any shape.
THEOREM ContactsAreParsed == Spec => []ContactsParsed
<1>1. ContactsInv => ContactsParsed
    <2> SUFFICES ASSUME ContactsInv PROVE Contacts!ContactsParsed
        BY DEF ContactsParsed
    <2>1. CASE outcome = "returned"
        <3>1. 1 .. position - 1 = DOMAIN extra_contacts_raw.list
            BY <2>1 DEF ContactsInv
        <3>2. PICK origin : ReadUpTo(origin)
            BY DEF ContactsInv
        <3>3. /\ origin \in [DOMAIN extra_contacts -> DOMAIN extra_contacts_raw.list]
              /\ Contacts!FromOption(origin)
              /\ \A j \in DOMAIN extra_contacts_raw.list :
                    Contacts!Documented(extra_contacts_raw.list[j]) => \E i \in DOMAIN origin : origin[i] = j
            BY <3>1, <3>2 DEF ReadUpTo
        <3> QED BY <2>1, <3>3 DEF ContactsInv, Usable, Contacts!ContactsParsed
    <2>2. CASE outcome # "returned"
        BY <2>2 DEF ContactsInv, Contacts!ContactsParsed
    <2> QED BY <2>1, <2>2
<1> QED BY <1>1, ContactsInvHolds, PTL

-----------------------------------------------------------------------------
(***************************************************************************)
(* All parts.                                                              *)
(***************************************************************************)
\* Every reachable state of every part is well typed.
THEOREM TypeCorrect == Spec => []TypeOK
<1> DEFINE Types ==
        /\ OptionInv /\ CacheInv /\ HostTypes /\ FetchInv /\ VolumeInv /\ AuthorityInv
        /\ ManagerInv /\ NrpeInv /\ ContactsInv
        /\ Data!TypeOK /\ Reload!TypeOK /\ Commands!TypeOK
<1>1. Types => TypeOK
    BY DEF TypeOK, OptionInv, CacheInv, HostTypes, Host!TypeOK, FetchInv, VolumeInv,
           AuthorityInv, AuthorityTypes, ManagerInv, ManagerTypes, NrpeInv, NrpeTypes,
           ContactsInv
<1>2. Spec => []Types
    BY DataTypes, CacheInvHolds, OptionInvHolds, HostInvHolds, FetchInvHolds,
       VolumeInvHolds, AuthorityInvHolds, ReloadTypes, NrpeInvHolds, ManagerInvHolds,
       ContactsInvHolds, CommandsTypes, PTL
<1> QED BY <1>1, <1>2, PTL
=============================================================================
