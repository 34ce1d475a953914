--------------------------- MODULE MachineProofs ----------------------------
(***************************************************************************)
(* What charmhelpers do to the machine: files and restarts, packages, volumes *)
(* and certificates; for any of them and any number of failures and cuts.  *)
(***************************************************************************)
EXTENDS Library, SequenceTheorems, TLAPS

-----------------------------------------------------------------------------
(***************************************************************************)
(* Files of services.                                                      *)
(***************************************************************************)
HostTypes ==
    /\ wanted \in [Paths -> Values]
    /\ file \in [Paths -> Values \cup {NoFile, Partial}]
    /\ before \in [Paths -> Values \cup {NoFile, Partial}]
    /\ pc \in {"idle", "due", "function", "cert", "update"}
    /\ todo \subseteq Host!Configs /\ owed \subseteq Paths /\ missed \subseteq Daemons

\* The services of p work with the contents c of it, or c is yet to be replaced.
UsedOrReplaced(p, c) ==
    \A s \in Daemons \ missed : s \in restart_map[p] => inUse[s][p] = c \/ c # wanted[p]

\* How far the hook has got: files that are due for a restart differ from their hashes,
\* unless a hook that was cut off owes them one.
HookProgress ==
    /\ pc = "due" => \A p \in Host!Configs \ owed : UsedOrReplaced(p, file[p])
    /\ pc = "function" => /\ \A p \in Host!Configs \ owed : UsedOrReplaced(p, before[p])
                          /\ \A p \in Host!Configs \ todo : file[p] = wanted[p]
    /\ pc \in {"idle", "cert", "update"} =>
          /\ todo = {}
          /\ \A p \in Host!Configs : file[p] = wanted[p]
          /\ \A p \in Host!Configs \ owed : UsedOrReplaced(p, file[p])
    /\ pc \in {"idle", "update"} => file[ca_file] = wanted[ca_file]
    /\ pc # "update" => trusted = file[ca_file] \/ ca_file \in owed

LEMMA HostTypesNext ==
    ASSUME HostTypes, [Host!Next]_Host!vars
    PROVE  HostTypes'
<1> USE HostAssumption DEF HostTypes, Host!Configs
<1>1. CASE Host!Change \/ Host!TakeHashes
    BY <1>1 DEF Host!Change, Host!TakeHashes
<1>2. CASE Host!Function
    BY <1>2 DEF Host!Function, Host!WriteFile
<1>6. CASE Host!RestartServices
    <2>1. Host!Restarted \subseteq Daemons
        BY DEF Host!Restarted, Host!Changed
    <2> QED BY <1>6, <2>1 DEF Host!RestartServices
<1>3. CASE Host!InstallCert \/ Host!UpdateCertificates
    BY <1>3 DEF Host!InstallCert, Host!UpdateCertificates, Host!WriteFile
<1>4. CASE Host!CutOff
    BY <1>4 DEF Host!CutOff, Host!Changed
<1>5. CASE UNCHANGED Host!vars
    BY <1>5 DEF Host!vars
<1> QED BY <1>1, <1>2, <1>3, <1>4, <1>5, <1>6 DEF Host!Next

LEMMA HookProgressNext ==
    ASSUME HostTypes, HookProgress, [Host!Next]_Host!vars
    PROVE  HookProgress'
<1> USE HostAssumption DEF HostTypes, Host!Configs
<1>1. CASE Host!Change
    <2>1. pc = "idle" /\ pc' = "due" /\ UNCHANGED <<file, inUse, trusted, owed, missed>>
        BY <1>1 DEF Host!Change
    <2>2. \A p \in Host!Configs \ owed : \A s \in Daemons \ missed :
             s \in restart_map[p] => inUse[s][p] = file[p]
        BY <2>1 DEF HookProgress, UsedOrReplaced
    <2> QED BY <2>1, <2>2 DEF HookProgress, UsedOrReplaced
<1>2. CASE Host!TakeHashes
    BY <1>2 DEF Host!TakeHashes, HookProgress, UsedOrReplaced
<1>3. CASE Host!Function
    <2>1. PICK p \in todo : file' = [file EXCEPT ![p] = wanted[p]] /\ todo' = todo \ {p}
        BY <1>3 DEF Host!Function, Host!WriteFile
    <2>2. pc = "function" /\ UNCHANGED <<wanted, before, inUse, trusted, pc, owed, missed>>
        BY <1>3 DEF Host!Function
    <2>3. \A q \in Host!Configs \ todo' : file'[q] = wanted'[q]
        BY <2>1, <2>2 DEF HookProgress
    <2>4. file'[ca_file] = file[ca_file]
        BY <2>1
    <2> QED BY <2>2, <2>3, <2>4 DEF HookProgress, UsedOrReplaced
<1>4. CASE Host!RestartServices
    <2>1. /\ pc = "function" /\ todo = {} /\ pc' = "cert"
          /\ owed' = {p \in owed : p = ca_file \/ ~(restart_map[p] \subseteq Host!Restarted)}
          /\ UNCHANGED <<wanted, file, before, trusted, todo>>
        BY <1>4 DEF Host!RestartServices
    <2>5. PICK failing \in SUBSET Host!Restarted :
              /\ inUse' = Host!Read(Host!Restarted \ failing)
              /\ missed' = (missed \ Host!Restarted) \cup failing
        BY <1>4 DEF Host!RestartServices
    <2>2. \A p \in Host!Configs : file[p] = wanted[p]
        BY <2>1 DEF HookProgress
    <2>3. ASSUME NEW p \in Host!Configs \ owed', NEW s \in Daemons \ missed', s \in restart_map[p]
          PROVE  inUse'[s][p] = file[p]
        <3>1. CASE s \in Host!Restarted
            BY <2>1, <2>3, <2>5, <3>1 DEF Host!Read
        <3>2. CASE s \notin Host!Restarted
            <4>1. p \notin owed
                BY <2>1, <2>3, <3>2
            <4>2. file[p] = before[p]
                BY <2>3, <3>2 DEF Host!Restarted, Host!Changed
            <4>3. inUse[s][p] = before[p]
                BY <2>1, <2>2, <2>3, <2>5, <3>2, <4>1, <4>2 DEF HookProgress, UsedOrReplaced
            <4> QED BY <2>1, <2>5, <3>2, <4>2, <4>3 DEF Host!Read
        <3> QED BY <3>1, <3>2
    <2>4. trusted' = file'[ca_file] \/ ca_file \in owed'
        BY <2>1 DEF HookProgress
    <2> QED BY <2>1, <2>2, <2>3, <2>4 DEF HookProgress, UsedOrReplaced
<1>5. CASE Host!InstallCert
    <2>1. pc = "cert" /\ UNCHANGED <<wanted, before, inUse, trusted, todo, owed, missed>>
        BY <1>5 DEF Host!InstallCert
    <2>2. \A p \in Host!Configs : file'[p] = file[p]
        BY <1>5 DEF Host!InstallCert, Host!WriteFile
    <2>3. pc' \in {"idle", "update"} /\ file'[ca_file] = wanted[ca_file]
        BY <1>5 DEF Host!InstallCert, Host!WriteFile
    <2>4. pc' = "idle" => file' = file
        BY <1>5 DEF Host!InstallCert
    <2> QED BY <2>1, <2>2, <2>3, <2>4 DEF HookProgress, UsedOrReplaced
<1>6. CASE Host!UpdateCertificates
    BY <1>6 DEF Host!UpdateCertificates, HookProgress, UsedOrReplaced
<1>7. CASE Host!CutOff
    <2>1. /\ pc' = "due" /\ UNCHANGED <<wanted, before, trusted, todo>>
          /\ owed' = owed \cup (IF pc = "function" THEN Host!Changed ELSE {})
                          \cup (IF pc = "update" THEN {ca_file} ELSE {})
        BY <1>7 DEF Host!CutOff
    <2>2. \A p \in Paths : file'[p] = file[p] \/ file'[p] = Partial
        BY <1>7 DEF Host!CutOff
    <2>3. pc # "update" => file'[ca_file] = file[ca_file]
        BY <1>7 DEF Host!CutOff
    <2>4. ASSUME NEW p \in Host!Configs \ owed' PROVE UsedOrReplaced(p, file[p])
        BY <1>7, <2>1 DEF Host!CutOff, Host!Changed, HookProgress
    <2>7. PICK us \in SUBSET Daemons : /\ inUse' = Host!Read(us)
                                      /\ missed' = missed \ us
        BY <1>7 DEF Host!CutOff
    <2>8. ASSUME NEW p \in Host!Configs \ owed' PROVE UsedOrReplaced(p, file[p])'
        <3> SUFFICES ASSUME NEW s \in Daemons \ missed', s \in restart_map[p],
                            file'[p] = wanted[p]
                     PROVE  inUse'[s][p] = file'[p]
            BY <2>1 DEF UsedOrReplaced
        <3>1. file'[p] = file[p]
            BY <2>2
        <3>2. CASE s \in us
            BY <2>7, <3>1, <3>2 DEF Host!Read
        <3>3. CASE s \notin us
            BY <2>4, <2>7, <3>1, <3>3 DEF Host!Read, UsedOrReplaced
        <3> QED BY <3>2, <3>3
    <2>5. \A p \in Host!Configs \ owed' : UsedOrReplaced(p, file[p])'
        BY <2>8
    <2>6. trusted' = file'[ca_file] \/ ca_file \in owed'
        BY <2>1, <2>3 DEF HookProgress
    <2> QED BY <2>1, <2>5, <2>6 DEF HookProgress
<1>8. CASE UNCHANGED Host!vars
    BY <1>8 DEF Host!vars, HookProgress, UsedOrReplaced
<1> QED BY <1>1, <1>2, <1>3, <1>4, <1>5, <1>6, <1>7, <1>8 DEF Host!Next

LEMMA HostPart == Spec => Host!Spec
<1>1. Init => Host!Init
    BY DEF Init
<1>2. [Next]_vars => [Host!Next]_Host!vars
    BY DEF Next, vars, hostVars, Host!vars
<1> QED BY <1>1, <1>2, PTL DEF Spec, Host!Spec

LEMMA HostInvHolds == Spec => [](HostTypes /\ HookProgress)
<1>1. Host!Init => HostTypes /\ HookProgress
    BY HostAssumption DEF Host!Init, HostTypes, HookProgress, UsedOrReplaced, Host!Configs
<1>2. HostTypes /\ HookProgress /\ [Host!Next]_Host!vars => (HostTypes /\ HookProgress)'
    BY HostTypesNext, HookProgressNext
<1> QED BY <1>1, <1>2, HostPart, PTL DEF Host!Spec

\* Whichever files differ, and wherever earlier hooks were cut off, a hook that ends leaves
\* the files whole, and every service works with them that is not owed a restart and whose last one did not fail.
THEOREM ServicesFollowFiles == Spec => []ServicesUseFiles
<1>1. HostTypes /\ HookProgress => ServicesUseFiles
    <2> SUFFICES ASSUME HostTypes, HookProgress, pc = "idle"
                 PROVE  /\ file = wanted
                        /\ \A p \in Host!Configs \ owed, s \in Daemons \ missed :
                              s \in restart_map[p] => inUse[s][p] = file[p]
                        /\ trusted = file[ca_file] \/ ca_file \in owed
        BY DEF Host!ServicesUseFiles, ServicesUseFiles
    <2>1. \A p \in Paths : file[p] = wanted[p]
        BY HostAssumption DEF HookProgress, Host!Configs
    <2>2. file = wanted
        BY <2>1 DEF HostTypes
    <2> QED BY <2>2 DEF HookProgress, UsedOrReplaced
<1> QED BY <1>1, HostInvHolds, PTL

-----------------------------------------------------------------------------
(***************************************************************************)
(* Packages and sources.                                                   *)
(***************************************************************************)
SourceRequests == [what : {"source"}, source : Sources, key : BOOLEAN]

CommandRequests == [what : {"packages", "snaps"}, package : PackageNames,
                    fatal : BOOLEAN, remove : BOOLEAN]

\* How far add_source has come.
SourceProgress ==
    /\ request \in SourceRequests
    /\ step \in {"key", "check", "run", "write"} => request.source.kind # "unknown"
    /\ step \in {"run", "write"} => request.source.kind # "distro"
    /\ step \in {"check", "run", "write", "ok"} /\ request.source.kind # "unknown"
         /\ request.key = TRUE => request.source \in keys
    /\ step = "ok" /\ ~gave_up /\ request.source.kind \notin {"unknown", "distro"} =>
         request.source \in sources

CommandProgress ==
    /\ request \in CommandRequests
    /\ step \in {"run", "ok", "raised"}
    /\ step = "ok" /\ ~gave_up /\ request.fatal = TRUE =>
         (request.package \in installed <=> request.remove = FALSE)

FetchInv ==
    /\ Packages!TypeOK
    /\ \/ request = NoCall /\ step = "ok"
       \/ SourceProgress
       \/ CommandProgress

LEMMA SourceCommand ==
    ASSUME request \in SourceRequests
    PROVE  Packages!Command.fatal = TRUE
BY DEF SourceRequests, Packages!Command, Packages!AptCommand, Packages!RepositoryCommand, Packages!_snap_exec

LEMMA Asked ==
    ASSUME FetchInv,
           \/ \E s \in Sources, k, fail \in BOOLEAN : Packages!add_source(s, k, fail)
           \/ \E p \in PackageNames, fatal \in BOOLEAN : Packages!apt_install(p, fatal) \/ Packages!apt_purge(p, fatal)
           \/ \E p \in PackageNames : Packages!snap_install(p) \/ Packages!snap_remove(p)
    PROVE  FetchInv'
<1>1. ASSUME NEW s \in Sources, NEW k \in BOOLEAN, NEW fail \in BOOLEAN, Packages!add_source(s, k, fail)
      PROVE  FetchInv'
    <2>1. /\ request' = [what |-> "source", source |-> s, key |-> k]
          /\ step' = IF s.kind = "unknown" THEN IF fail THEN "raised" ELSE "ok"
                     ELSE IF k THEN "key" ELSE "check"
          /\ retry_count' = 0 /\ UNCHANGED <<keys, sources>>
        BY <1>1 DEF Packages!add_source, Packages!Call, Packages!state
    <2>2. request' \in SourceRequests /\ request'.source = s /\ (request'.key = TRUE => k)
        BY <2>1 DEF SourceRequests
    <2>3. SourceProgress'
        BY <2>1, <2>2 DEF SourceProgress
    <2>4. Packages!TypeOK'
        BY <2>1 DEF FetchInv, Packages!TypeOK, Packages!Ended
    <2> QED BY <2>3, <2>4 DEF FetchInv
<1>2. ASSUME NEW what \in {"packages", "snaps"}, NEW p \in PackageNames, NEW fatal \in BOOLEAN,
             NEW remove \in BOOLEAN, Packages!Run(what, p, fatal, remove)
      PROVE  FetchInv'
    <2>1. /\ request' = [what |-> what, package |-> p, fatal |-> fatal, remove |-> remove]
          /\ step' = "run" /\ retry_count' = 0 /\ UNCHANGED <<keys, sources>>
        BY <1>2 DEF Packages!Run, Packages!Call, Packages!state
    <2>2. CommandProgress'
        BY <2>1 DEF CommandProgress, CommandRequests
    <2>3. Packages!TypeOK'
        BY <2>1 DEF FetchInv, Packages!TypeOK, Packages!Ended
    <2> QED BY <2>2, <2>3 DEF FetchInv
<1> QED BY <1>1, <1>2 DEF Packages!apt_install, Packages!apt_purge, Packages!snap_install, Packages!snap_remove

LEMMA FetchTypesNext ==
    ASSUME FetchInv, Packages!import_key \/ Packages!Check \/ Packages!Succeed \/ Packages!Write \/ \E code \in ExitCodes : Packages!FailedRun(code)
    PROVE  Packages!TypeOK'
<1> USE DEF Packages!state, Packages!Ended
<1>1. Packages!TypeOK /\ (step # "ok" /\ request.what = "source" => request.source \in Sources)
    BY DEF FetchInv, SourceProgress, SourceRequests, CommandProgress, CommandRequests
<1>2. step \in {"key", "check", "write"} => request.source \in Sources
    BY DEF FetchInv, SourceProgress, SourceRequests, CommandProgress
<1>3. CASE Packages!import_key \/ Packages!Check \/ Packages!Write
    <2>1. /\ step \in {"key", "check", "write"} /\ step' \in {"check", "run", "write", "ok", "raised"}
          /\ retry_count' = retry_count
          /\ keys' = keys \/ keys' = keys \cup {request.source}
          /\ \/ sources' = sources
             \/ sources' = {s \in sources : s.kind # request.source.kind} \cup {request.source}
        BY <1>3 DEF Packages!import_key, Packages!Check, Packages!Write
    <2> QED BY <1>1, <1>2, <2>1 DEF Packages!TypeOK
<1>4. CASE Packages!Succeed
    <2>1. /\ step = "run" /\ step' \in {"write", "ok"}
          /\ retry_count' = retry_count /\ keys' = keys
          /\ \/ sources' = sources
             \/ request.what = "source" /\ sources' = sources \cup {request.source}
        BY <1>4 DEF Packages!Succeed
    <2> QED BY <1>1, <2>1 DEF Packages!TypeOK
<1>5. ASSUME NEW code \in ExitCodes, Packages!FailedRun(code) PROVE Packages!TypeOK'
    <2>1. /\ step' \in {"run", "write", "ok", "raised"}
          /\ retry_count' = retry_count \/ retry_count' = retry_count + 1
          /\ UNCHANGED <<keys, sources>>
        BY <1>5 DEF Packages!FailedRun
    <2> QED BY <1>1, <2>1 DEF Packages!TypeOK
<1> QED BY <1>3, <1>4, <1>5

LEMMA SourceNext ==
    ASSUME FetchInv, SourceProgress,
           Packages!import_key \/ Packages!Check \/ Packages!Succeed \/ Packages!Write \/ \E code \in ExitCodes : Packages!FailedRun(code)
    PROVE  SourceProgress'
<1> USE DEF Packages!state
<1>0. request.what = "source" /\ request' = request /\ request \in SourceRequests
    BY DEF SourceProgress, SourceRequests, Packages!import_key, Packages!Check, Packages!Succeed, Packages!FailedRun, Packages!Write
<1>1. CASE Packages!import_key
    <2>1. /\ step = "key"
          /\ \/ step' = "check" /\ keys' = keys \cup {request.source}
             \/ step' = "raised" /\ keys' = keys
          /\ sources' = sources
        BY <1>1 DEF Packages!import_key
    <2> QED BY <1>0, <2>1 DEF SourceProgress
<1>2. CASE Packages!Check
    <2>1. /\ step = "check"
          /\ \/ step' = "ok" /\ request.source.kind = "distro"
             \/ step' \in {"raised", "write", "run"} /\ request.source.kind # "distro"
          /\ UNCHANGED <<keys, sources>>
        BY <1>2 DEF Packages!Check
    <2> QED BY <1>0, <2>1 DEF SourceProgress
<1>3. CASE Packages!Succeed
    <2>1. /\ step = "run" /\ keys' = keys
          /\ \/ step' = "write" /\ sources' = sources
             \/ step' = "ok" /\ sources' = sources \cup {request.source}
        BY <1>0, <1>3 DEF Packages!Succeed
    <2> QED BY <1>0, <2>1 DEF SourceProgress
<1>4. ASSUME NEW code \in ExitCodes, Packages!FailedRun(code) PROVE SourceProgress'
    <2>1. Packages!Command.fatal
        BY <1>0, SourceCommand
    <2>2. /\ step = "run" /\ UNCHANGED <<keys, sources>>
          /\ \/ step' \in {"raised", "run"}
             \/ gave_up' = TRUE /\ step' \in {"write", "ok"}
        BY <1>4, <2>1 DEF Packages!FailedRun
    <2> QED BY <1>0, <2>2 DEF SourceProgress
<1>5. CASE Packages!Write
    <2>1. /\ step = "write" /\ keys' = keys
          /\ \/ step' = "raised" /\ sources' = sources
             \/ step' = "ok" /\ request.source \in sources'
        BY <1>5 DEF Packages!Write
    <2> QED BY <1>0, <2>1 DEF SourceProgress
<1> QED BY <1>1, <1>2, <1>3, <1>4, <1>5

LEMMA CommandNext ==
    ASSUME FetchInv, CommandProgress,
           Packages!import_key \/ Packages!Check \/ Packages!Succeed \/ Packages!Write \/ \E code \in ExitCodes : Packages!FailedRun(code)
    PROVE  CommandProgress'
<1> USE DEF Packages!state
<1>0. /\ request.what # "source" /\ request' = request /\ request \in CommandRequests
      /\ request.fatal \in BOOLEAN /\ request.remove \in BOOLEAN
      /\ step \notin {"key", "check", "write"}
    BY DEF CommandProgress, CommandRequests, Packages!import_key, Packages!Check, Packages!Succeed, Packages!FailedRun, Packages!Write
<1>1. CASE Packages!Succeed
    <2>1. /\ step' = "ok"
          /\ installed' = IF request.remove THEN installed \ {request.package}
                          ELSE installed \cup {request.package}
        BY <1>0, <1>1 DEF Packages!Succeed
    <2> QED BY <1>0, <2>1 DEF CommandProgress
<1>2. ASSUME NEW code \in ExitCodes, Packages!FailedRun(code) PROVE CommandProgress'
    <2>1. request.fatal = TRUE => Packages!Command.fatal
        BY <1>0 DEF Packages!Command, Packages!AptCommand, Packages!_snap_exec, CommandRequests
    <2>2. \/ step' = "ok" /\ request.fatal # TRUE
          \/ step' \in {"raised", "run"}
          \/ step' = "ok" /\ gave_up' = TRUE
        BY <1>0, <1>2, <2>1 DEF Packages!FailedRun
    <2> QED BY <1>0, <2>2 DEF CommandProgress
<1>3. CASE Packages!import_key \/ Packages!Check \/ Packages!Write
    BY <1>0, <1>3 DEF Packages!import_key, Packages!Check, Packages!Write
<1> QED BY <1>1, <1>2, <1>3

LEMMA FetchNext == ASSUME FetchInv, [Packages!Next]_Packages!vars PROVE FetchInv'
<1>1. CASE \/ \E s \in Sources, k, fail \in BOOLEAN : Packages!add_source(s, k, fail)
           \/ \E p \in PackageNames, fatal \in BOOLEAN : Packages!apt_install(p, fatal) \/ Packages!apt_purge(p, fatal)
           \/ \E p \in PackageNames : Packages!snap_install(p) \/ Packages!snap_remove(p)
    BY <1>1, Asked
<1>2. CASE Packages!import_key \/ Packages!Check \/ Packages!Succeed \/ Packages!Write \/ \E code \in ExitCodes : Packages!FailedRun(code)
    <2>1. step # "ok"
        BY <1>2 DEF Packages!import_key, Packages!Check, Packages!Succeed, Packages!FailedRun, Packages!Write
    <2> QED BY <1>2, <2>1, FetchTypesNext, SourceNext, CommandNext DEF FetchInv
<1>3. CASE UNCHANGED Packages!vars
    BY <1>3 DEF Packages!vars, Packages!state, FetchInv, SourceProgress, CommandProgress, Packages!TypeOK
<1> QED BY <1>1, <1>2, <1>3 DEF Packages!Next

LEMMA FetchPart == Spec => Packages!Spec
<1>1. Init => Packages!Init
    BY DEF Init
<1>2. [Next]_vars => [Packages!Next]_Packages!vars
    BY DEF Next, vars, packagesVars, Packages!vars, Packages!state
<1> QED BY <1>1, <1>2, PTL DEF Spec, Packages!Spec

LEMMA FetchInvHolds == Spec => []FetchInv
<1>1. Packages!Init => FetchInv
    BY DEF Packages!Init, FetchInv, Packages!TypeOK, Packages!Ended
<1> QED BY <1>1, FetchNext, FetchPart, PTL DEF Packages!Spec

\* A fatal call that does not raise has done what it was asked for.
THEOREM CallsDoOrRaise == Spec => []DoneOrRaised
<1>1. FetchInv => DoneOrRaised
    <2>1. ASSUME FetchInv, step = "ok", request # NoCall, ~gave_up, request.what # "source", request.fatal
          PROVE  request.package \in installed <=> ~request.remove
        <3>1. CommandProgress /\ request.fatal \in BOOLEAN /\ request.remove \in BOOLEAN
            BY <2>1 DEF FetchInv, SourceProgress, SourceRequests, CommandProgress, CommandRequests
        <3> QED BY <2>1, <3>1 DEF CommandProgress
    <2>2. ASSUME FetchInv, step = "ok", request # NoCall, ~gave_up, request.what = "source"
          PROVE  /\ request.source.kind \notin {"unknown", "distro"} => request.source \in sources
                 /\ request.source.kind # "unknown" /\ request.key => request.source \in keys
        <3>1. SourceProgress /\ request.key \in BOOLEAN
            BY <2>2 DEF FetchInv, SourceProgress, SourceRequests, CommandProgress, CommandRequests
        <3> QED BY <2>2, <3>1 DEF SourceProgress
    <2> QED BY <2>1, <2>2 DEF Packages!DoneOrRaised, DoneOrRaised
<1> QED BY <1>1, FetchInvHolds, PTL

-----------------------------------------------------------------------------
(***************************************************************************)
(* The storage volume.                                                     *)
(***************************************************************************)
StepNames == {"unmount", "forget", "mount", "record", "after_change"}

\* What is left of a call once the volume is off the mount point.
LastStep == <<"after_change">>
FromRecord == <<"record", "after_change">>
FromMount == <<"mount", "record", "after_change">>

\* The rest of a call that the options and the steps so far leave.
Planned ==
    \/ volumeTodo = <<>>
    \/ /\ volumeTodo \in Seq(StepNames) /\ volumeTodo # <<>>
       /\ \/ /\ volume = "ephemeral"
             /\ \/ volumeTodo = LastStep
                \/ Head(volumeTodo) \in {"unmount", "forget"} /\ Tail(volumeTodo) = LastStep
          \/ /\ volume \in Devices
             /\ \/ volumeTodo \in {LastStep, FromRecord, FromMount}
                \/ /\ Head(volumeTodo) \in {"unmount", "forget"}
                   /\ Tail(volumeTodo) \in {FromMount, Volume!mount_volume}

\* The step that a call has come to.
Now == IF volumeTodo = <<>> THEN "rest" ELSE Head(volumeTodo)

\* Mounts and entries agree but between the two steps that change them.
Tidy ==
    ~untidy =>
        /\ Now \in {"rest", "unmount", "after_change"} => mounted = fstab /\ Len(fstab) <= 1
        /\ Now = "forget" => mounted = <<>> /\ Len(fstab) = 1
        /\ Now = "mount" => mounted = <<>> /\ fstab = <<>>
        /\ Now = "record" => mounted = <<volume>> /\ fstab = <<>>
        /\ Now = "after_change" /\ volume = "ephemeral" => mounted = <<>>

\* A device that was mounted is on top.
OnTop ==
    volume \in Devices /\ Now \in {"record", "after_change"} => Volume!Top(mounted) = volume

InTime == volumeTodo # <<>> => result = "none"

VolumeInv == Volume!TypeOK /\ Planned /\ Tidy /\ OnTop /\ InTime /\ Volume!VolumeInPlace

LEMMA StackFacts ==
    ASSUME NEW s \in Seq(Devices)
    PROVE  /\ s = <<>> <=> Len(s) = 0
           /\ Len(s) \in Nat
           /\ s # <<>> => /\ SubSeq(s, 1, Len(s) - 1) \in Seq(Devices)
                          /\ Len(SubSeq(s, 1, Len(s) - 1)) = Len(s) - 1
                          /\ Tail(s) \in Seq(Devices) /\ Len(Tail(s)) = Len(s) - 1
                          /\ Volume!Top(s) \in Devices
           /\ \A d \in Devices : /\ Append(s, d) \in Seq(Devices)
                                 /\ Volume!Top(Append(s, d)) = d
                                 /\ s = <<>> => Append(s, d) = <<d>>
<1>1. /\ s = <<>> <=> Len(s) = 0
      /\ Len(s) \in Nat
    OBVIOUS
<1>2. s # <<>> => SubSeq(s, 1, Len(s) - 1) \in Seq(Devices) /\ Tail(s) \in Seq(Devices)
    OBVIOUS
<1>5. s # <<>> => Len(Tail(s)) = Len(s) - 1
    OBVIOUS
<1>6. s # <<>> => Len(SubSeq(s, 1, Len(s) - 1)) = Len(s) - 1
    <2> SUFFICES ASSUME s # <<>> PROVE Len(SubSeq(s, 1, Len(s) - 1)) = Len(s) - 1
        OBVIOUS
    <2> DEFINE k == Len(s) - 1
    <2>1. k \in Nat
        BY <1>1
    <2>2. \A i \in 1 .. k : s[i] \in Devices
        BY <1>1
    <2>3. Len(SubSeq(s, 1, k)) = IF 1 <= k THEN k - 1 + 1 ELSE 0
        <3> HIDE DEF k
        <3>1. 1 \in Int /\ k \in Int
            BY <2>1
        <3>2. Len(SubSeq(s, 1, k)) = IF 1 <= k THEN k - 1 + 1 ELSE 0
            BY <2>2, <3>1, SubSeqProperties
        <3> QED BY <3>2
    <2> HIDE DEF k
    <2>4. Len(SubSeq(s, 1, k)) = k
        BY <2>1, <2>3
    <2> QED BY <2>4 DEF k
<1>3. s # <<>> => Volume!Top(s) \in Devices
    BY <1>1 DEF Volume!Top
<1>4. ASSUME NEW d \in Devices
      PROVE  /\ Append(s, d) \in Seq(Devices)
             /\ Volume!Top(Append(s, d)) = d
             /\ s = <<>> => Append(s, d) = <<d>>
    <2>1. Append(s, d) \in Seq(Devices) /\ Len(Append(s, d)) = Len(s) + 1
          /\ Append(s, d)[Len(s) + 1] = d
        OBVIOUS
    <2>2. Append(s, d) # <<>>
        BY <2>1
    <2>3. s = <<>> => Append(s, d) = <<d>>
        OBVIOUS
    <2> QED BY <2>1, <2>2, <2>3 DEF Volume!Top
<1> QED BY <1>1, <1>2, <1>3, <1>4, <1>5, <1>6

LEMMA PlanFacts ==
    /\ LastStep # <<>> /\ Head(LastStep) = "after_change" /\ Tail(LastStep) = <<>>
    /\ FromRecord # <<>> /\ Head(FromRecord) = "record" /\ Tail(FromRecord) = LastStep
    /\ FromMount # <<>> /\ Head(FromMount) = "mount" /\ Tail(FromMount) = FromRecord
    /\ Volume!mount_volume # <<>> /\ Head(Volume!mount_volume) = "unmount" /\ Tail(Volume!mount_volume) = FromMount
    /\ {LastStep, FromRecord, FromMount, Volume!mount_volume} \subseteq Seq(StepNames)
<1>1. LastStep # <<>> /\ Head(LastStep) = "after_change" /\ Tail(LastStep) = <<>>
    BY DEF LastStep
<1>2. FromRecord # <<>> /\ Head(FromRecord) = "record" /\ Tail(FromRecord) = LastStep
    BY DEF LastStep, FromRecord
<1>3. FromMount # <<>> /\ Head(FromMount) = "mount" /\ Tail(FromMount) = FromRecord
    BY DEF FromRecord, FromMount
<1>4. Volume!mount_volume # <<>> /\ Head(Volume!mount_volume) = "unmount" /\ Tail(Volume!mount_volume) = FromMount
    BY DEF FromMount, Volume!mount_volume
<1>5. {LastStep, FromRecord} \subseteq Seq(StepNames)
    BY DEF LastStep, FromRecord, StepNames
<1>6. {FromMount, Volume!mount_volume} \subseteq Seq(StepNames)
    BY DEF FromMount, Volume!mount_volume, StepNames
<1> QED BY <1>1, <1>2, <1>3, <1>4, <1>5, <1>6

LEMMA Preceded ==
    ASSUME NEW S, NEW s \in Seq(S), NEW x \in S
    PROVE  /\ <<x>> \o s \in Seq(S) /\ <<x>> \o s # <<>>
           /\ Head(<<x>> \o s) = x /\ Tail(<<x>> \o s) = s
<1> DEFINE c == <<x>> \o s
<1>1. <<x>> \in Seq(S) /\ Len(<<x>>) = 1 /\ <<x>>[1] = x
    OBVIOUS
<1>2. c \in Seq(S) /\ Len(c) = Len(s) + 1
    BY <1>1, ConcatProperties
<1>3. c[1] = x /\ \A i \in 1 .. Len(s) : c[i + 1] = s[i]
    BY <1>1, ConcatProperties
<1> HIDE DEF c
<1>4. Tail(c) \in Seq(S) /\ Len(Tail(c)) = Len(s) /\ \A i \in 1 .. Len(s) : Tail(c)[i] = s[i]
    BY <1>2, <1>3
<1>5. c # <<>> /\ Head(c) = x
    BY <1>2, <1>3
<1>6. Tail(c) = s
    BY <1>4, SeqEqual
<1> QED BY <1>2, <1>5, <1>6 DEF c

\* A step of a call takes the call further along its plan.
LEMMA PlannedNext == ASSUME Volume!TypeOK, Planned, [Volume!Next]_Volume!vars PROVE Planned'
<1> USE PlanFacts, VolumeAssumption
<1>1. CASE Volume!Change \/ Volume!CommandFails \/ Volume!after_change \/ Volume!CutOff \/ Volume!Reboot
    <2>1. volumeTodo' = <<>>
        BY <1>1 DEF Volume!Change, Volume!CommandFails, Volume!after_change, Volume!CutOff, Volume!Reboot, Volume!Raise
    <2> QED BY <2>1 DEF Planned
<1>2. CASE Volume!configure_volume
    <2>1. CASE volumeTodo' = volumeTodo
        BY <1>2, <2>1 DEF Volume!configure_volume, Planned
    <2>2. CASE volumeTodo' # volumeTodo
        <3>1. volumeTodo' = Volume!Steps /\ volume' = volume /\ volume \in Devices \cup {"ephemeral"}
            BY <1>2, <2>2 DEF Volume!configure_volume, Volume!TypeOK
        <3>2. CASE volume = "ephemeral"
            <4>1. volumeTodo' = <<"unmount", "after_change">>
                BY <3>1, <3>2 DEF Volume!Steps
            <4>2. /\ volumeTodo' \in Seq(StepNames) /\ volumeTodo' # <<>>
                  /\ Head(volumeTodo') = "unmount" /\ Tail(volumeTodo') = LastStep
                BY <4>1 DEF StepNames, LastStep
            <4> QED BY <3>1, <3>2, <4>2 DEF Planned
        <3>3. CASE volume # "ephemeral"
            <4>1. volumeTodo' = Volume!mount_volume \/ volumeTodo' = <<"unmount">> \o Volume!mount_volume
                BY <3>1, <3>3 DEF Volume!Steps
            <4>2. /\ volumeTodo' \in Seq(StepNames) /\ volumeTodo' # <<>>
                  /\ Head(volumeTodo') = "unmount" /\ Tail(volumeTodo') \in {FromMount, Volume!mount_volume}
                <5>1. "unmount" \in StepNames /\ Volume!mount_volume \in Seq(StepNames)
                    BY DEF StepNames
                <5>2. /\ <<"unmount">> \o Volume!mount_volume \in Seq(StepNames)
                      /\ <<"unmount">> \o Volume!mount_volume # <<>>
                      /\ Head(<<"unmount">> \o Volume!mount_volume) = "unmount"
                      /\ Tail(<<"unmount">> \o Volume!mount_volume) = Volume!mount_volume
                    BY <5>1, Preceded
                <5> QED BY <4>1, <5>1, <5>2
            <4> QED BY <3>1, <3>3, <4>2 DEF Planned
        <3> QED BY <3>2, <3>3
    <2> QED BY <2>1, <2>2
<1>3. CASE Volume!unmount_volume
    <2>1. volumeTodo # <<>> /\ Head(volumeTodo) = "unmount" /\ volume' = volume
        BY <1>3 DEF Volume!unmount_volume, Volume!Do
    <2>2. /\ Tail(volumeTodo) \in {LastStep, FromMount, Volume!mount_volume}
          /\ Tail(volumeTodo) = LastStep => volume = "ephemeral"
          /\ Tail(volumeTodo) # LastStep => volume \in Devices
        BY <2>1 DEF Planned
    <2>3. \/ volumeTodo' = Tail(volumeTodo)
          \/ volumeTodo' = <<"forget">> \o Tail(volumeTodo)
        BY <1>3 DEF Volume!unmount_volume
    <2>4. CASE volumeTodo' = Tail(volumeTodo)
        BY <2>1, <2>2, <2>4 DEF Planned
    <2>5. CASE volumeTodo' = <<"forget">> \o Tail(volumeTodo)
        <3>1. /\ volumeTodo' \in Seq(StepNames) /\ volumeTodo' # <<>>
              /\ Head(volumeTodo') = "forget" /\ Tail(volumeTodo') = Tail(volumeTodo)
            <4>1. "forget" \in StepNames /\ Tail(volumeTodo) \in Seq(StepNames)
                BY <2>2 DEF StepNames
            <4> QED BY <2>5, <4>1, Preceded
        <3> QED BY <2>1, <2>2, <3>1 DEF Planned
    <2> QED BY <2>3, <2>4, <2>5
<1>4. CASE Volume!fstab_remove
    <2>1. /\ volumeTodo # <<>> /\ Head(volumeTodo) = "forget" /\ volume' = volume
          /\ volumeTodo' = <<>> \/ volumeTodo' = Tail(volumeTodo)
        BY <1>4 DEF Volume!fstab_remove, Volume!Do, Volume!Raise
    <2>2. /\ Tail(volumeTodo) \in {LastStep, FromMount, Volume!mount_volume}
          /\ Tail(volumeTodo) = LastStep => volume = "ephemeral"
          /\ Tail(volumeTodo) # LastStep => volume \in Devices
        BY <2>1 DEF Planned
    <2> QED BY <2>1, <2>2 DEF Planned
<1>5. CASE Volume!mount \/ Volume!fstab_add
    <2>1. /\ volumeTodo # <<>> /\ Head(volumeTodo) \in {"mount", "record"} /\ volume' = volume
          /\ volumeTodo' = <<>> \/ volumeTodo' = Tail(volumeTodo)
        BY <1>5 DEF Volume!mount, Volume!fstab_add, Volume!Do, Volume!Raise
    <2>2. volumeTodo \in {FromRecord, FromMount} /\ volume \in Devices
        BY <2>1 DEF Planned
    <2> QED BY <2>1, <2>2 DEF Planned
<1>6. CASE UNCHANGED Volume!vars
    BY <1>6 DEF Volume!vars, Planned
<1> QED BY <1>1, <1>2, <1>3, <1>4, <1>5, <1>6 DEF Volume!Next

\* Where a plan goes on from its steps.
LEMMA StepFacts ==
    ASSUME Planned, volumeTodo # <<>>
    PROVE  LET rest == IF Tail(volumeTodo) = <<>> THEN "rest" ELSE Head(Tail(volumeTodo)) IN
           /\ Now = Head(volumeTodo)
           /\ Now \in {"unmount", "forget"} =>
                 rest \in {"mount", "unmount"} \/ (rest = "after_change" /\ volume = "ephemeral")
           /\ Now = "mount" => rest = "record" /\ volume \in Devices
           /\ Now = "record" => rest = "after_change" /\ volume \in Devices
BY PlanFacts, VolumeAssumption DEF Planned, Now

LEMMA VolumeTypesNext == ASSUME Volume!TypeOK, Planned, [Volume!Next]_Volume!vars PROVE Volume!TypeOK'
<1>0. /\ volume \in Devices \cup {"ephemeral", "invalid"}
      /\ mounted \in Seq(Devices) /\ fstab \in Seq(Devices)
      /\ result \in {"none", "nothing", "done", "raised"} /\ stopped \in BOOLEAN
    BY DEF Volume!TypeOK
<1>1. CASE Volume!mount \/ Volume!fstab_add
    <2>1. volume \in Devices
        BY <1>1, StepFacts DEF Volume!mount, Volume!fstab_add, Volume!Do
    <2>2. /\ mounted' = mounted \/ mounted' = Append(mounted, volume)
          /\ fstab' = fstab \/ fstab' = Append(fstab, volume)
          /\ volume' = volume /\ stopped' = stopped /\ result' \in {result, "raised"}
        BY <1>1 DEF Volume!mount, Volume!fstab_add, Volume!Raise
    <2> QED BY <1>0, <2>1, <2>2, StackFacts DEF Volume!TypeOK
<1>2. CASE Volume!unmount_volume \/ Volume!fstab_remove
    <2>1. /\ mounted' = mounted \/ (mounted # <<>> /\ mounted' = SubSeq(mounted, 1, Len(mounted) - 1))
          /\ fstab' = fstab \/ (fstab # <<>> /\ fstab' = Tail(fstab))
          /\ volume' = volume /\ stopped' = stopped /\ result' \in {result, "raised"}
        BY <1>2 DEF Volume!unmount_volume, Volume!fstab_remove, Volume!Removed, Volume!Raise
    <2> QED BY <1>0, <2>1, StackFacts DEF Volume!TypeOK
<1>3. CASE Volume!Change \/ Volume!configure_volume \/ Volume!CommandFails \/ Volume!after_change \/ Volume!CutOff \/ Volume!Reboot \/ UNCHANGED Volume!vars
    <2>1. /\ mounted' = mounted \/ mounted' = fstab
          /\ fstab' = fstab
          /\ volume' = volume \/ volume' \in Devices \cup {"ephemeral", "invalid"}
          /\ result' \in {result, "none", "nothing", "done", "raised"}
        BY <1>3 DEF Volume!Change, Volume!configure_volume, Volume!CommandFails, Volume!after_change, Volume!CutOff, Volume!Reboot, Volume!Raise, Volume!vars
    <2>2. stopped' = stopped \/ stopped' = TRUE \/ stopped' = FALSE
        BY <1>3 DEF Volume!Change, Volume!configure_volume, Volume!CommandFails, Volume!after_change, Volume!CutOff, Volume!Reboot, Volume!vars
    <2> QED BY <1>0, <2>1, <2>2 DEF Volume!TypeOK
<1> QED BY <1>1, <1>2, <1>3 DEF Volume!Next

LEMMA InTimeNext == ASSUME Planned, InTime, [Volume!Next]_Volume!vars PROVE InTime'
<1> USE DEF InTime
<1>1. CASE Volume!Change \/ Volume!CommandFails \/ Volume!after_change \/ Volume!CutOff \/ Volume!Reboot
    BY <1>1 DEF Volume!Change, Volume!CommandFails, Volume!after_change, Volume!CutOff, Volume!Reboot, Volume!Raise
<1>2. CASE Volume!configure_volume
    BY <1>2 DEF Volume!configure_volume
<1>3. CASE Volume!unmount_volume \/ Volume!fstab_remove \/ Volume!mount \/ Volume!fstab_add \/ UNCHANGED Volume!vars
    <2>1. \/ result' = result /\ (volumeTodo = <<>> => volumeTodo' = <<>>)
          \/ volumeTodo' = <<>>
        BY <1>3 DEF Volume!unmount_volume, Volume!fstab_remove, Volume!mount, Volume!fstab_add, Volume!Raise, Volume!vars, Volume!Do
    <2> QED BY <2>1
<1> QED BY <1>1, <1>2, <1>3 DEF Volume!Next

LEMMA TidyNext == ASSUME Volume!TypeOK, Planned, Tidy, [Volume!Next]_Volume!vars PROVE Tidy'
<1> USE PlanFacts
<1> SUFFICES ASSUME ~untidy' PROVE Tidy'
    BY DEF Tidy
<1>0. /\ mounted \in Seq(Devices) /\ fstab \in Seq(Devices)
    BY DEF Volume!TypeOK
<1>9. ~untidy /\ (Volume!CutOff => Head(volumeTodo) \notin {"forget", "record"})
    <2>1. CASE Volume!CutOff
        <3>1. untidy' = (untidy \/ Head(volumeTodo) \in {"forget", "record"})
            BY <2>1 DEF Volume!CutOff
        <3> QED BY <3>1
    <2>2. CASE ~Volume!CutOff
        <3>1. untidy' = untidy
            BY <2>2 DEF Volume!Next, Volume!Change, Volume!configure_volume, Volume!CommandFails, Volume!unmount_volume,
                        Volume!fstab_remove, Volume!mount, Volume!fstab_add, Volume!after_change, Volume!Reboot, Volume!vars
        <3> QED BY <2>2, <3>1
    <2> QED BY <2>1, <2>2
<1>1. CASE Volume!Change \/ Volume!CommandFails \/ Volume!after_change \/ Volume!CutOff
    <2>1. /\ volumeTodo = <<>> \/ Head(volumeTodo) \in {"mount", "unmount", "after_change"}
          /\ volumeTodo' = <<>> /\ UNCHANGED <<mounted, fstab>>
        <3>1. CASE Volume!CutOff
            <4>1. volumeTodo # <<>> /\ Head(volumeTodo) \in {"mount", "unmount", "after_change"}
                BY <1>9, <3>1, StepFacts DEF Volume!CutOff, Planned, Now
            <4> QED BY <3>1, <4>1 DEF Volume!CutOff
        <3>2. CASE Volume!Change \/ Volume!CommandFails \/ Volume!after_change
            BY <3>2 DEF Volume!Change, Volume!CommandFails, Volume!after_change, Volume!Do, Volume!Raise
        <3> QED BY <1>1, <3>1, <3>2
    <2>2. mounted = fstab /\ Len(fstab) <= 1
        BY <1>0, <1>9, <2>1, StackFacts DEF Tidy, Now
    <2> QED BY <2>1, <2>2 DEF Tidy, Now
<1>2. CASE Volume!configure_volume
    <2>1. volumeTodo = <<>> /\ UNCHANGED <<mounted, fstab, volume>>
        BY <1>2 DEF Volume!configure_volume
    <2>2. mounted = fstab /\ Len(fstab) <= 1
        BY <1>9, <2>1 DEF Tidy, Now
    <2>3. volumeTodo' = <<>> \/ Head(volumeTodo') = "unmount"
        <3>1. CASE volumeTodo' = volumeTodo
            BY <2>1, <3>1
        <3>2. CASE volumeTodo' # volumeTodo
            <4>1. volumeTodo' = Volume!Steps
                BY <1>2, <3>2 DEF Volume!configure_volume
            <4>2. Head(<<"unmount", "after_change">>) = "unmount"
                OBVIOUS
            <4>3. Head(<<"unmount">> \o Volume!mount_volume) = "unmount"
                <5>1. "unmount" \in StepNames /\ Volume!mount_volume \in Seq(StepNames)
                    BY DEF StepNames
                <5> QED BY <5>1, Preceded
            <4> QED BY <4>1, <4>2, <4>3 DEF Volume!Steps
        <3> QED BY <3>1, <3>2
    <2> QED BY <2>1, <2>2, <2>3 DEF Tidy, Now
<1>3. CASE Volume!unmount_volume
    <2>1. volumeTodo # <<>> /\ Now = "unmount" /\ UNCHANGED <<fstab, volume>>
        BY <1>3 DEF Volume!unmount_volume, Volume!Do, Now
    <2>2. mounted = fstab /\ Len(fstab) <= 1
        BY <1>9, <2>1 DEF Tidy
    <2>3. CASE mounted = <<>>
        <3>1. volumeTodo' = Tail(volumeTodo) /\ mounted' = mounted
            BY <1>3, <2>3 DEF Volume!unmount_volume
        <3>2. Now' \in {"mount", "unmount", "after_change"}
            BY <2>1, <3>1, StepFacts DEF Now
        <3> QED BY <2>1, <2>2, <2>3, <3>1, <3>2 DEF Tidy
    <2>4. CASE mounted # <<>>
        <3>1. /\ volumeTodo' = <<"forget">> \o Tail(volumeTodo)
              /\ mounted' = SubSeq(mounted, 1, Len(mounted) - 1)
            BY <1>3, <2>4 DEF Volume!unmount_volume
        <3>2. Len(mounted) = 1 /\ Len(fstab) = 1
            BY <1>0, <2>2, <2>4, StackFacts
        <3>3. Len(mounted') = 0 /\ mounted' \in Seq(Devices)
            BY <1>0, <2>4, <3>1, <3>2, StackFacts
        <3>4. mounted' = <<>>
            BY <3>3, StackFacts
        <3>5. Now' = "forget"
            <4>1. "forget" \in StepNames /\ Tail(volumeTodo) \in Seq(StepNames)
                BY <2>1 DEF StepNames, Planned, Now
            <4>2. volumeTodo' # <<>> /\ Head(volumeTodo') = "forget"
                BY <3>1, <4>1, Preceded
            <4> QED BY <4>2 DEF Now
        <3> QED BY <2>1, <3>2, <3>4, <3>5 DEF Tidy
    <2> QED BY <2>3, <2>4
<1>4. CASE Volume!fstab_remove
    <2>1. volumeTodo # <<>> /\ Now = "forget" /\ UNCHANGED <<mounted, volume>>
        BY <1>4 DEF Volume!fstab_remove, Volume!Do, Now
    <2>2. mounted = <<>> /\ Len(fstab) = 1
        BY <1>9, <2>1 DEF Tidy
    <2>3. fstab # <<>>
        <3>1. Len(fstab) # 0
            BY <2>2
        <3> QED BY <1>0, <3>1, StackFacts
    <2>4. fstab' = Tail(fstab) /\ volumeTodo' = Tail(volumeTodo)
        BY <1>4, <2>3 DEF Volume!fstab_remove, Volume!Removed
    <2>5. Len(fstab') = 0 /\ fstab' \in Seq(Devices)
        BY <1>0, <2>2, <2>3, <2>4, StackFacts
    <2>6. fstab' = <<>>
        BY <2>5, StackFacts
    <2>7. Now' \in {"mount", "unmount", "after_change"}
        BY <2>1, <2>4, StepFacts DEF Now
    <2> QED BY <2>1, <2>2, <2>5, <2>6, <2>7 DEF Tidy
<1>5. CASE Volume!mount
    <2>1. /\ volumeTodo # <<>> /\ Now = "mount" /\ UNCHANGED <<fstab, volume>>
          /\ mounted' = Append(mounted, volume) /\ volumeTodo' = Tail(volumeTodo)
        BY <1>5 DEF Volume!mount, Volume!Do, Now
    <2>2. mounted = <<>> /\ fstab = <<>>
        BY <1>9, <2>1 DEF Tidy
    <2>3. Now' = "record" /\ volume \in Devices
        BY <2>1, StepFacts DEF Now
    <2>4. mounted' = <<volume>>
        BY <1>0, <2>1, <2>2, <2>3, StackFacts
    <2> QED BY <2>1, <2>2, <2>3, <2>4 DEF Tidy
<1>6. CASE Volume!fstab_add
    <2>1. volumeTodo # <<>> /\ Now = "record" /\ UNCHANGED <<mounted, volume>>
        BY <1>6 DEF Volume!fstab_add, Volume!Do, Now
    <2>2. mounted = <<volume>> /\ fstab = <<>>
        BY <1>9, <2>1 DEF Tidy
    <2>3. ~Volume!Listed
        BY <2>2 DEF Volume!Listed
    <2>4. fstab' = Append(fstab, volume) /\ volumeTodo' = Tail(volumeTodo)
        BY <1>6, <2>3 DEF Volume!fstab_add
    <2>5. Now' = "after_change" /\ volume \in Devices
        BY <2>1, <2>4, StepFacts DEF Now
    <2>6. fstab' = <<volume>> /\ Len(fstab') = 1
        BY <1>0, <2>2, <2>4, <2>5, StackFacts
    <2> QED BY <2>1, <2>2, <2>5, <2>6, VolumeAssumption DEF Tidy
<1>7. CASE Volume!Reboot
    <2>1. volumeTodo = <<>> /\ volumeTodo' = <<>> /\ mounted' = fstab /\ fstab' = fstab
        BY <1>7 DEF Volume!Reboot
    <2>2. Len(fstab) <= 1
        BY <1>9, <2>1 DEF Tidy, Now
    <2> QED BY <2>1, <2>2 DEF Tidy, Now
<1>8. CASE UNCHANGED Volume!vars
    BY <1>9, <1>8 DEF Volume!vars, Tidy, Now
<1> QED BY <1>1, <1>2, <1>3, <1>4, <1>5, <1>6, <1>7, <1>8 DEF Volume!Next

LEMMA OnTopNext == ASSUME Volume!TypeOK, Planned, OnTop, [Volume!Next]_Volume!vars PROVE OnTop'
<1> USE PlanFacts
<1>0. mounted \in Seq(Devices)
    BY DEF Volume!TypeOK
<1>1. CASE Volume!mount
    <2>1. /\ Now = "mount" /\ volumeTodo # <<>> /\ volume' = volume
          /\ mounted' = Append(mounted, volume)
        BY <1>1 DEF Volume!mount, Volume!Do, Now
    <2>2. volume \in Devices
        BY <2>1, StepFacts
    <2> QED BY <1>0, <2>1, <2>2, StackFacts DEF OnTop
<1>2. CASE Volume!fstab_add
    <2>1. /\ Now = "record" /\ volumeTodo # <<>> /\ UNCHANGED <<mounted, volume>>
        BY <1>2 DEF Volume!fstab_add, Volume!Do, Now
    <2> QED BY <2>1 DEF OnTop
<1>3. CASE Volume!fstab_remove
    <2>1. /\ volumeTodo # <<>>
          /\ Now = "forget"
          /\ volume' = volume
          /\ volumeTodo' = <<>> \/ volumeTodo' = Tail(volumeTodo)
        BY <1>3 DEF Volume!fstab_remove, Volume!Do, Now, Volume!Raise
    <2>2. volume \in Devices => Now' \in {"rest", "mount", "unmount"}
        BY <2>1, StepFacts, VolumeAssumption DEF Now
    <2> QED BY <2>1, <2>2 DEF OnTop
<1>4. CASE Volume!unmount_volume
    <2>1. /\ volumeTodo # <<>>
          /\ Now = "unmount"
          /\ volume' = volume
          /\ volumeTodo' = Tail(volumeTodo) \/ volumeTodo' = <<"forget">> \o Tail(volumeTodo)
        BY <1>4 DEF Volume!unmount_volume, Volume!Do, Now
    <2>2. CASE volumeTodo' = Tail(volumeTodo)
        <3>1. volume \in Devices => Now' \in {"rest", "mount", "unmount"}
            BY <2>1, <2>2, StepFacts, VolumeAssumption DEF Now
        <3> QED BY <2>1, <3>1 DEF OnTop
    <2>3. CASE volumeTodo' = <<"forget">> \o Tail(volumeTodo)
        <3>1. "forget" \in StepNames /\ Tail(volumeTodo) \in Seq(StepNames)
            BY <2>1 DEF StepNames, Planned, Now
        <3>2. volumeTodo' # <<>> /\ Head(volumeTodo') = "forget"
            BY <2>3, <3>1, Preceded
        <3> QED BY <3>2 DEF OnTop, Now
    <2> QED BY <2>1, <2>2, <2>3
<1>5. CASE Volume!Change \/ Volume!CommandFails \/ Volume!after_change \/ Volume!CutOff \/ Volume!Reboot
    <2>1. volumeTodo' = <<>>
        BY <1>5 DEF Volume!Change, Volume!CommandFails, Volume!after_change, Volume!CutOff, Volume!Reboot, Volume!Raise
    <2> QED BY <2>1 DEF OnTop, Now
<1>6. CASE Volume!configure_volume
    <2>1. volumeTodo' = volumeTodo \/ volumeTodo' = Volume!Steps
        BY <1>6 DEF Volume!configure_volume
    <2>2. Head(<<"unmount">> \o Volume!mount_volume) = "unmount"
        <3>1. "unmount" \in StepNames /\ Volume!mount_volume \in Seq(StepNames)
            BY DEF StepNames
        <3> QED BY <3>1, Preceded
    <2>3. Now' \in {"rest", "unmount"}
        BY <1>6, <2>1, <2>2 DEF Volume!configure_volume, Volume!Steps, Now
    <2> QED BY <2>3 DEF OnTop
<1>7. CASE UNCHANGED Volume!vars
    BY <1>7 DEF Volume!vars, OnTop, Now
<1> QED BY <1>1, <1>2, <1>3, <1>4, <1>5, <1>6, <1>7 DEF Volume!Next

LEMMA InPlaceNext ==
    ASSUME VolumeInv, [Volume!Next]_Volume!vars
    PROVE  Volume!VolumeInPlace'
<1> USE DEF VolumeInv
<1>0. mounted \in Seq(Devices) /\ fstab \in Seq(Devices)
    BY DEF Volume!TypeOK
<1>1. CASE Volume!Change \/ Volume!CommandFails \/ Volume!CutOff \/ Volume!Reboot
    BY <1>1 DEF Volume!Change, Volume!CommandFails, Volume!CutOff, Volume!Reboot, Volume!Raise, Volume!VolumeInPlace
<1>2. CASE Volume!unmount_volume \/ Volume!fstab_remove \/ Volume!mount \/ Volume!fstab_add
    <2>1. result = "none" /\ result' \in {"none", "raised"}
        BY <1>2 DEF Volume!unmount_volume, Volume!fstab_remove, Volume!mount, Volume!fstab_add, Volume!Do, Volume!Raise, InTime
    <2> QED BY <2>1 DEF Volume!VolumeInPlace
<1>3. CASE Volume!configure_volume
    <2>1. /\ volumeTodo = <<>> /\ result = "none" /\ UNCHANGED <<mounted, fstab, volume, untidy>>
          /\ result' = "nothing" => volume = Volume!Top(mounted)
          /\ result' \in {"none", "nothing", "raised"}
        BY <1>3 DEF Volume!configure_volume
    <2>2. untidy \/ mounted = fstab
        BY <2>1 DEF Tidy, Now
    <2> QED BY <2>1, <2>2 DEF Volume!VolumeInPlace
<1>4. CASE Volume!after_change
    <2>1. /\ volumeTodo # <<>> /\ Now = "after_change" /\ result' = "done" /\ stopped' = FALSE
          /\ UNCHANGED <<mounted, fstab, volume, untidy>>
        BY <1>4 DEF Volume!after_change, Volume!Do, Now
    <2>2. volume \in Devices \/ volume = "ephemeral"
        BY <2>1 DEF Planned, Now
    <2>3. volume \in Devices => Volume!Top(mounted) = volume
        BY <2>1 DEF OnTop
    <2>4. untidy \/ (mounted = fstab /\ (volume = "ephemeral" => mounted = <<>>))
        BY <2>1 DEF Tidy
    <2>5. mounted = <<>> => Volume!Top(mounted) = "ephemeral"
        BY DEF Volume!Top
    <2> QED BY <2>1, <2>2, <2>3, <2>4, <2>5 DEF Volume!VolumeInPlace
<1>5. CASE UNCHANGED Volume!vars
    BY <1>5 DEF Volume!vars, Volume!VolumeInPlace
<1> QED BY <1>1, <1>2, <1>3, <1>4, <1>5 DEF Volume!Next

LEMMA VolumePart == Spec => Volume!Spec
<1>1. Init => Volume!Init
    BY DEF Init
<1>2. [Next]_vars => [Volume!Next]_Volume!vars
    BY DEF Next, vars, volumesVars, Volume!vars
<1> QED BY <1>1, <1>2, PTL DEF Spec, Volume!Spec

LEMMA VolumeInvHolds == Spec => []VolumeInv
<1>1. Volume!Init => VolumeInv
    <2> SUFFICES ASSUME Volume!Init PROVE VolumeInv
        OBVIOUS
    <2>1. Planned /\ InTime /\ Volume!VolumeInPlace
        BY DEF Volume!Init, Planned, InTime, Volume!VolumeInPlace
    <2>3. Volume!TypeOK
        <3>1. <<>> \in Seq(Devices)
            OBVIOUS
        <3>2. /\ volume \in Devices \cup {"ephemeral"}
              /\ mounted = <<>> /\ fstab = <<>> /\ result = "none"
            BY DEF Volume!Init
        <3>3. stopped = FALSE
            BY DEF Volume!Init
        <3> QED BY <3>1, <3>2, <3>3 DEF Volume!TypeOK
    <2>2. Tidy /\ OnTop
        BY DEF Volume!Init, Tidy, OnTop, Now
    <2> QED BY <2>1, <2>2, <2>3 DEF VolumeInv
<1>2. VolumeInv /\ [Volume!Next]_Volume!vars => VolumeInv'
    BY VolumeTypesNext, PlannedNext, TidyNext, OnTopNext, InTimeNext, InPlaceNext DEF VolumeInv
<1> QED BY <1>1, <1>2, VolumePart, PTL DEF Volume!Spec

\* A call of configure_volume that returns leaves the volume in place, also over a reboot.
THEOREM VolumeIsInPlace == Spec => []VolumeInPlace
<1>1. VolumeInv => VolumeInPlace
    BY DEF VolumeInv, VolumeInPlace
<1> QED BY <1>1, VolumeInvHolds, PTL

-----------------------------------------------------------------------------
(***************************************************************************)
(* The certificate authority.                                              *)
(***************************************************************************)
\* How far the authority has been made; it is made once.
Built ==
    /\ ca_dir \in BOOLEAN /\ layout \in BOOLEAN /\ conf \in BOOLEAN
    /\ ~ca_dir => ~layout /\ sslStep \in {"idle", "directory"}
    /\ ~layout => ~conf
    /\ ~conf => ca_key = 0
    /\ ca_key = 0 => ca_cert = 0
    /\ sslStep = "directory" => ~ca_dir
    /\ sslStep = "layout" => ~layout
    /\ sslStep = "configure" => layout /\ ~conf
    /\ sslStep = "authority key" => conf /\ ca_key = 0
    /\ sslStep = "authority certificate" => conf /\ ca_key # 0 /\ ca_cert = 0

AuthorityTypes ==
    /\ Authority!TypeOK
    /\ keys_made \in 0 .. MaxKeys /\ common_name \in Units
    /\ key \in [Units -> Nat] /\ csr \in [Units -> Nat]
    /\ crt = [n \in Units |-> crt[n]]

\* A certificate is for the key of its name, and none is signed without an authority.
Issued ==
    /\ \A n \in Units :
        /\ crt[n] \in {NoFile, Empty, [key |-> key[n], ca |-> ca_cert]}
        /\ crt[n] # NoFile => key[n] # 0
        /\ ~Authority!Whole => crt[n] \in {NoFile, Empty}
    /\ sslStep \in {"key", "request", "sign"} => crt[common_name] = NoFile
    /\ sslStep \in {"request", "sign"} => key[common_name] # 0
    /\ sslStep = "sign" => csr[common_name] = key[common_name]

\* How the last call has ended.
Ended ==
    /\ sslOutcome \in {"returned", "raised"} => sslStep = "idle"
    /\ sslOutcome = "returned" => Authority!Whole /\ crt[common_name] # NoFile
    /\ sslOutcome = "raised" => refused \/ ~Authority!Whole

AuthorityInv == Built /\ AuthorityTypes /\ Issued /\ Ended

LEMMA WholeIsCertified == ASSUME Built, AuthorityTypes PROVE Authority!Whole <=> ca_cert # 0
BY DEF Built, AuthorityTypes, Authority!TypeOK, Authority!Whole

LEMMA BuiltNext == ASSUME Built, AuthorityTypes, [Authority!Next]_Authority!vars PROVE Built'
<1> USE DEF Authority!caVars, Authority!At, Authority!End
<1>1. CASE \/ \E n \in Units : Authority!GetServiceCert(n)
           \/ Authority!Find \/ Authority!NewKey \/ Authority!NewRequest \/ Authority!Sign \/ Authority!SignRaises \/ Authority!CutOff
           \/ UNCHANGED Authority!vars
    <2>1. UNCHANGED <<ca_dir, layout, conf, ca_key, ca_cert>>
        BY <1>1 DEF Authority!GetServiceCert, Authority!Find, Authority!NewKey, Authority!NewRequest, Authority!Sign, Authority!SignRaises, Authority!CutOff, Authority!vars
    <2>2. \/ sslStep' = sslStep
          \/ sslStep' = "idle"
          \/ sslStep' = "find" /\ ca_dir
          \/ sslStep' = "directory" /\ ~ca_dir
          \/ sslStep' \in {"find", "key", "request", "sign"} /\ sslStep \in {"find", "key", "request", "sign"}
        BY <1>1 DEF Authority!GetServiceCert, Authority!Find, Authority!NewKey, Authority!NewRequest, Authority!Sign, Authority!SignRaises, Authority!CutOff, Authority!vars
    <2> QED BY <2>1, <2>2 DEF Built
<1>2. CASE Authority!MakeDirectory
    <2>1. /\ sslStep = "directory" /\ sslStep' = "layout" /\ ca_dir' = TRUE
          /\ UNCHANGED <<layout, conf, ca_key, ca_cert>>
        BY <1>2 DEF Authority!MakeDirectory
    <2>2. ~layout
        BY <2>1 DEF Built
    <2> QED BY <2>1, <2>2 DEF Built
<1>3. CASE Authority!_init_ca_dir
    <2>1. /\ sslStep = "layout" /\ sslStep' = "configure" /\ layout' = TRUE
          /\ UNCHANGED <<ca_dir, conf, ca_key, ca_cert>>
        BY <1>3 DEF Authority!_init_ca_dir
    <2>2. ~conf /\ ca_dir
        BY <2>1 DEF Built
    <2> QED BY <2>1, <2>2 DEF Built
<1>4. CASE Authority!Configure
    <2>1. /\ sslStep = "configure" /\ sslStep' = "authority key" /\ conf' = TRUE
          /\ UNCHANGED <<ca_dir, layout, ca_key, ca_cert>>
        BY <1>4 DEF Authority!Configure
    <2>2. layout /\ ca_dir /\ ca_key = 0
        BY <2>1 DEF Built
    <2> QED BY <2>1, <2>2 DEF Built
<1>5. CASE Authority!AuthorityKey
    <2>1. keys_made \in 0 .. MaxKeys
        BY DEF AuthorityTypes
    <2>2. keys_made' = keys_made + 1 /\ ca_key' = keys_made'
        BY <1>5 DEF Authority!AuthorityKey
    <2>3. ca_key' # 0
        BY <2>1, <2>2, CertificateAssumption
    <2>4. /\ sslStep = "authority key" /\ sslStep' = "authority certificate"
          /\ UNCHANGED <<ca_dir, layout, conf, ca_cert>>
        BY <1>5 DEF Authority!AuthorityKey
    <2>5. conf /\ layout /\ ca_dir /\ ca_cert = 0
        BY <2>4 DEF Built
    <2> QED BY <2>3, <2>4, <2>5 DEF Built
<1>6. CASE Authority!AuthorityCertificate
    <2>1. /\ sslStep = "authority certificate" /\ sslStep' = "find"
          /\ UNCHANGED <<ca_dir, layout, conf, ca_key>>
        BY <1>6 DEF Authority!AuthorityCertificate
    <2>2. conf /\ layout /\ ca_dir /\ ca_key # 0
        BY <2>1 DEF Built
    <2> QED BY <2>1, <2>2 DEF Built
<1> QED BY <1>1, <1>2, <1>3, <1>4, <1>5, <1>6 DEF Authority!Next

LEMMA AuthorityTypesNext ==
    ASSUME Built, AuthorityTypes, [Authority!Next]_Authority!vars
    PROVE  AuthorityTypes'
<1> USE CertificateAssumption DEF Authority!caVars, Authority!At, Authority!End
<1>0. /\ ca_key \in 0 .. MaxKeys /\ ca_cert \in {0, ca_key}
      /\ \A n \in Units : key[n] \in 0 .. keys_made /\ csr[n] \in 0 .. keys_made
      /\ sslOutcome \in {"none", "returned", "raised"}
      /\ keys_made \in 0 .. MaxKeys /\ common_name \in Units
      /\ key \in [Units -> Nat] /\ csr \in [Units -> Nat]
      /\ crt = [n \in Units |-> crt[n]]
    BY DEF AuthorityTypes, Authority!TypeOK
<1>1. CASE \/ \E n \in Units : Authority!GetServiceCert(n)
           \/ Authority!MakeDirectory \/ Authority!_init_ca_dir \/ Authority!Configure \/ Authority!Find \/ Authority!SignRaises \/ UNCHANGED Authority!vars
    <2>1. /\ UNCHANGED <<ca_key, ca_cert, key, csr, crt, keys_made>>
          /\ common_name' \in Units /\ sslOutcome' \in {"none", "returned", "raised"}
        BY <1>0, <1>1 DEF Authority!GetServiceCert, Authority!MakeDirectory, Authority!_init_ca_dir, Authority!Configure, Authority!Find, Authority!SignRaises, Authority!vars
    <2> QED BY <1>0, <2>1 DEF AuthorityTypes, Authority!TypeOK
<1>2. CASE Authority!AuthorityKey
    <2>1. /\ keys_made < MaxKeys /\ keys_made' = keys_made + 1 /\ ca_key' = keys_made'
          /\ ca_cert' = 0
          /\ UNCHANGED <<key, csr, crt, common_name, sslOutcome>>
        BY <1>2 DEF Authority!AuthorityKey, Built
    <2> QED BY <1>0, <2>1 DEF AuthorityTypes, Authority!TypeOK
<1>3. CASE Authority!AuthorityCertificate
    <2>1. /\ ca_cert' = ca_key
          /\ UNCHANGED <<ca_key, key, csr, crt, keys_made, common_name, sslOutcome>>
        BY <1>3 DEF Authority!AuthorityCertificate
    <2> QED BY <1>0, <2>1 DEF AuthorityTypes, Authority!TypeOK
<1>4. CASE Authority!NewKey
    <2>1. /\ \/ /\ keys_made < MaxKeys /\ keys_made' = keys_made + 1
                /\ key' = [key EXCEPT ![common_name] = keys_made']
             \/ UNCHANGED <<key, keys_made>>
          /\ sslOutcome' = sslOutcome \/ sslOutcome' = "raised"
          /\ UNCHANGED <<ca_key, ca_cert, csr, crt, common_name>>
        BY <1>4 DEF Authority!NewKey
    <2> QED BY <1>0, <2>1 DEF AuthorityTypes, Authority!TypeOK
<1>5. CASE Authority!NewRequest
    <2>1. /\ csr' = [csr EXCEPT ![common_name] = key[common_name]]
          /\ UNCHANGED <<ca_key, ca_cert, key, crt, keys_made, common_name, sslOutcome>>
        BY <1>5 DEF Authority!NewRequest, Authority!Requested
    <2> QED BY <1>0, <2>1 DEF AuthorityTypes, Authority!TypeOK
<1>6. CASE Authority!Sign \/ Authority!CutOff
    <2>1. /\ crt' = crt \/ \E c : crt' = [crt EXCEPT ![common_name] = c]
          /\ sslOutcome' = sslOutcome \/ sslOutcome' = "none"
          /\ UNCHANGED <<ca_key, ca_cert, key, csr, keys_made, common_name>>
        BY <1>6 DEF Authority!Sign, Authority!CutOff
    <2>2. crt' = [n \in Units |-> crt'[n]]
        BY <1>0, <2>1
    <2> QED BY <1>0, <2>1, <2>2 DEF AuthorityTypes, Authority!TypeOK
<1> QED BY <1>1, <1>2, <1>3, <1>4, <1>5, <1>6 DEF Authority!Next

LEMMA IssuedNext ==
    ASSUME Built, AuthorityTypes, Issued, [Authority!Next]_Authority!vars, Built', AuthorityTypes'
    PROVE  Issued'
<1> USE DEF Authority!caVars, Authority!At, Authority!End
<1>0. /\ Authority!Whole <=> ca_cert # 0
      /\ Authority!Whole' <=> ca_cert' # 0
    <2>1. Authority!Whole <=> ca_cert # 0
        BY WholeIsCertified
    <2>2. Authority!Whole' <=> ca_cert' # 0
        BY DEF Built, AuthorityTypes, Authority!TypeOK, Authority!Whole
    <2> QED BY <2>1, <2>2
<1>1. common_name \in Units /\ crt = [n \in Units |-> crt[n]]
    BY DEF AuthorityTypes
<1>2. CASE \/ \E n \in Units : Authority!GetServiceCert(n)
           \/ Authority!MakeDirectory \/ Authority!_init_ca_dir \/ Authority!Configure \/ Authority!AuthorityKey \/ Authority!SignRaises
           \/ Authority!CutOff /\ UNCHANGED crt
    <2>1. /\ UNCHANGED <<ca_cert, key, csr, crt>>
          /\ sslStep' \notin {"key", "request", "sign"}
        BY <1>2 DEF Authority!GetServiceCert, Authority!MakeDirectory, Authority!_init_ca_dir, Authority!Configure, Authority!AuthorityKey,
                    Authority!SignRaises, Authority!CutOff
    <2> QED BY <1>0, <2>1 DEF Issued
<1>3. CASE UNCHANGED Authority!vars
    BY <1>0, <1>3 DEF Issued, Authority!vars
<1>4. CASE Authority!AuthorityCertificate
    <2>1. /\ UNCHANGED <<key, csr, crt>> /\ sslStep' = "find" /\ ca_cert = 0
        BY <1>4 DEF Authority!AuthorityCertificate, Built
    <2>2. \A n \in Units : crt[n] \in {NoFile, Empty}
        BY <1>0, <2>1 DEF Issued
    <2> QED BY <2>1, <2>2 DEF Issued
<1>5. CASE Authority!Find
    <2>1. /\ UNCHANGED <<ca_cert, key, csr, crt, common_name>>
          /\ sslStep' = "idle" \/ (sslStep' = "key" /\ crt[common_name] = NoFile)
        BY <1>5 DEF Authority!Find
    <2> QED BY <1>0, <2>1 DEF Issued
<1>6. CASE Authority!NewKey
    <2>1. /\ UNCHANGED <<ca_cert, csr, crt, common_name>>
          /\ \/ sslStep' = "idle" /\ key' = key
             \/ /\ sslStep' = "request" /\ keys_made' = keys_made + 1
                /\ key' = [key EXCEPT ![common_name] = keys_made']
          /\ crt[common_name] = NoFile
        BY <1>6 DEF Authority!NewKey, Issued
    <2>2. keys_made' = keys_made + 1 => keys_made' # 0
        BY DEF AuthorityTypes
    <2>3. key \in [Units -> Nat]
        BY DEF AuthorityTypes
    <2>4. \A n \in Units : crt[n] # NoFile => key'[n] = key[n]
        BY <1>1, <2>1, <2>3
    <2>5. sslStep' = "request" => key'[common_name] # 0
        BY <1>1, <2>1, <2>2, <2>3
    <2> QED BY <1>0, <2>1, <2>4, <2>5 DEF Issued
<1>7. CASE Authority!NewRequest
    <2>1. /\ sslStep = "request" /\ sslStep' = "sign"
          /\ csr' = [csr EXCEPT ![common_name] = key[common_name]]
          /\ UNCHANGED <<ca_cert, key, crt, common_name>>
        BY <1>7 DEF Authority!NewRequest, Authority!Requested
    <2>2. csr'[common_name] = key[common_name]
        BY <1>1, <2>1 DEF AuthorityTypes
    <2> QED BY <1>0, <2>1, <2>2 DEF Issued
<1>8. CASE Authority!Sign
    <2>1. /\ sslStep = "sign" /\ sslStep' = "find" /\ Authority!Whole
          /\ crt' = [crt EXCEPT ![common_name] = [key |-> csr[common_name], ca |-> ca_key]]
          /\ UNCHANGED <<ca_cert, key, csr, common_name>>
        BY <1>8 DEF Authority!Sign
    <2>2. ca_key = ca_cert /\ csr[common_name] = key[common_name] /\ key[common_name] # 0
        BY <1>0, <2>1 DEF Issued, AuthorityTypes, Authority!TypeOK
    <2>3. \A n \in Units : crt'[n] = IF n = common_name
                                     THEN [key |-> key[common_name], ca |-> ca_cert]
                                     ELSE crt[n]
        BY <1>1, <2>1, <2>2
    <2> QED BY <1>0, <2>1, <2>2, <2>3 DEF Issued
<1>9. CASE Authority!CutOff /\ ~UNCHANGED crt
    <2>1. /\ sslStep = "sign" /\ sslStep' = "idle"
          /\ crt' = [crt EXCEPT ![common_name] = Empty]
          /\ UNCHANGED <<ca_cert, key, csr, common_name>>
        BY <1>9 DEF Authority!CutOff
    <2>2. \A n \in Units : crt'[n] = IF n = common_name THEN Empty ELSE crt[n]
        BY <1>1, <2>1
    <2>3. key[common_name] # 0
        BY <2>1 DEF Issued
    <2> QED BY <1>0, <2>1, <2>2, <2>3 DEF Issued
<1> QED BY <1>2, <1>3, <1>4, <1>5, <1>6, <1>7, <1>8, <1>9 DEF Authority!Next

LEMMA EndedNext ==
    ASSUME Built, AuthorityTypes, Issued, Ended, [Authority!Next]_Authority!vars
    PROVE  Ended'
<1> USE DEF Authority!caVars, Authority!At, Authority!End
<1>0. Authority!Whole <=> ca_cert # 0
    BY WholeIsCertified
<1>1. sslStep # "idle" => sslOutcome = "none"
    BY DEF Ended, AuthorityTypes, Authority!TypeOK
<1>2. CASE \/ \E n \in Units : Authority!GetServiceCert(n)
           \/ Authority!MakeDirectory \/ Authority!_init_ca_dir \/ Authority!Configure \/ Authority!AuthorityKey \/ Authority!AuthorityCertificate
           \/ Authority!NewRequest \/ Authority!Sign \/ Authority!CutOff
    <2>1. sslOutcome' = "none"
        BY <1>1, <1>2 DEF Authority!GetServiceCert, Authority!MakeDirectory, Authority!_init_ca_dir, Authority!Configure, Authority!AuthorityKey,
                          Authority!AuthorityCertificate, Authority!NewRequest, Authority!Sign, Authority!CutOff
    <2> QED BY <2>1 DEF Ended
<1>3. CASE Authority!Find
    <2>1. /\ UNCHANGED <<ca_dir, layout, conf, ca_key, ca_cert, key, crt, common_name>>
          /\ \/ sslStep' = "key" /\ sslOutcome' = "none"
             \/ /\ sslStep' = "idle" /\ crt[common_name] # NoFile
                /\ sslOutcome' = IF key[common_name] = 0 \/ ca_cert = 0 THEN "raised" ELSE "returned"
        BY <1>1, <1>3 DEF Authority!Find
    <2>2. Authority!Whole' <=> Authority!Whole
        BY <2>1 DEF Authority!Whole
    <2>3. crt[common_name] # NoFile => key[common_name] # 0
        BY DEF Issued, AuthorityTypes
    <2> QED BY <1>0, <2>1, <2>2, <2>3 DEF Ended
<1>4. CASE Authority!NewKey
    <2>1. /\ UNCHANGED <<ca_dir, layout, conf, ca_key, ca_cert>>
          /\ \/ sslOutcome' = "none"
             \/ sslOutcome' = "raised" /\ sslStep' = "idle" /\ ~layout
        BY <1>1, <1>4 DEF Authority!NewKey
    <2>2. ~layout => ~Authority!Whole'
        BY <2>1 DEF Authority!Whole
    <2> QED BY <2>1, <2>2 DEF Ended
<1>5. CASE Authority!SignRaises
    <2>1. /\ UNCHANGED <<ca_dir, layout, conf, ca_key, ca_cert>>
          /\ sslOutcome' = "raised" /\ sslStep' = "idle"
        BY <1>5 DEF Authority!SignRaises
    <2>2. (refused' <=> Authority!Whole) /\ (Authority!Whole' <=> Authority!Whole)
        <3>1. Authority!Whole \in BOOLEAN /\ refused' = Authority!Whole
            BY <1>5 DEF Authority!SignRaises, Authority!Whole, Built
        <3> QED BY <2>1, <3>1 DEF Authority!Whole
    <2> QED BY <2>1, <2>2 DEF Ended
<1>6. CASE UNCHANGED Authority!vars
    BY <1>6 DEF Ended, Authority!vars, Authority!Whole
<1> QED BY <1>2, <1>3, <1>4, <1>5, <1>6 DEF Authority!Next

LEMMA AuthorityPart == Spec => Authority!Spec
<1>1. Init => Authority!Init
    BY DEF Init
<1>2. [Next]_vars => [Authority!Next]_Authority!vars
    BY DEF Next, vars, authorityVars, Authority!vars, Authority!caVars
<1> QED BY <1>1, <1>2, PTL DEF Spec, Authority!Spec

LEMMA AuthorityInvHolds == Spec => []AuthorityInv
<1>1. Authority!Init => AuthorityInv
    <2> SUFFICES ASSUME Authority!Init PROVE AuthorityInv
        OBVIOUS
    <2>1. Built
        BY DEF Authority!Init, Built
    <2>2. key \in [Units -> Nat] /\ csr \in [Units -> Nat]
        BY DEF Authority!Init
    <2>3. AuthorityTypes
        BY <2>2, CertificateAssumption DEF Authority!Init, AuthorityTypes, Authority!TypeOK
    <2>4. Issued
        BY DEF Authority!Init, Issued
    <2>5. Ended
        BY DEF Authority!Init, Ended
    <2> QED BY <2>1, <2>3, <2>4, <2>5 DEF AuthorityInv
<1>2. AuthorityInv /\ [Authority!Next]_Authority!vars => AuthorityInv'
    BY BuiltNext, AuthorityTypesNext, IssuedNext, EndedNext DEF AuthorityInv
<1> QED BY <1>1, <1>2, AuthorityPart, PTL DEF Authority!Spec

\* What get_service_cert returns fits together, however often hooks were cut off.
THEOREM CertificatesAreFit == Spec => []CertificatesFit
<1>1. AuthorityInv => CertificatesFit
    BY DEF AuthorityInv, AuthorityTypes, Issued, Ended, Authority!CertificatesFit, CertificatesFit
<1> QED BY <1>1, AuthorityInvHolds, PTL
=============================================================================
