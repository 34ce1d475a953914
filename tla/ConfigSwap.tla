----------------------------- MODULE ConfigSwap -----------------------------
(***************************************************************************)
(* How one run of the monitors hook replaces the configuration of nagios   *)
(* (src/hooks/common.py): it copies /etc/nagios4 to /etc/nagios4-inprogress*)
(* and changes the copy, then moves the old directory to /etc/nagios4.bak  *)
(* and the copy into its place.  A run may be cut off between any two      *)
(* steps (a reboot, a killed agent); Juju then runs the hook again.        *)
(*                                                                         *)
(* nagios.cfg names the directories by absolute path, so it is rewritten   *)
(* on the way: the text "/etc/nagios4" is replaced by                      *)
(* "/etc/nagios4-inprogress" in the copy and the other way round after the *)
(* move.  The first text is a prefix of the second: what counts is how     *)
(* many times "-inprogress" follows "/etc/nagios4" in the file.            *)
(***************************************************************************)
EXTENDS Integers

CONSTANTS MaxVersion,  \* bound on the changes of the relation data
          MaxCrashes   \* bound on the runs that are cut off

ASSUME BoundAssumption == MaxVersion \in Nat /\ MaxCrashes \in Nat

Versions == 0 .. MaxVersion
Mixed == -1           \* the files of a configuration that is being generated
Missing == -1         \* no nagios.cfg

\* A directory: whether it is there in full, the suffixes in the paths of its
\* nagios.cfg, the relation data its files were generated from, and whether all
\* of these files are there.
Dirs == [state : {"none", "partial", "whole"},
         cfg : Missing .. MaxCrashes + 1, version : Versions \cup {Mixed},
         files : {"all", "some"}]

NoDir == [state |-> "none", cfg |-> Missing, version |-> Mixed, files |-> "all"]
Partial == [state |-> "partial", cfg |-> Missing, version |-> Mixed, files |-> "all"]

VARIABLES
    main, inprogress, bak,  \* the three directories
    temp,      \* paths in the temporary file that is to become nagios.cfg
    wanted,    \* version of the relation data
    plan,      \* the version that the run has read
    pc,        \* where the run is
    crashes

vars == <<main, inprogress, bak, temp, wanted, plan, pc, crashes>>

Exists(dir) == dir.state # "none"

Raise == /\ pc' = "failed"
         /\ UNCHANGED <<main, inprogress, bak, temp, wanted, plan, crashes>>
-----------------------------------------------------------------------------
\* A unit publishes something new.
Publish ==
    /\ wanted < MaxVersion
    /\ wanted' = wanted + 1
    /\ UNCHANGED <<main, inprogress, bak, temp, plan, pc, crashes>>

\* Broken variant of Start: a run works on the data of the one before.
Bug_StartStale ==
    /\ pc \in {"idle", "failed"}
    /\ pc' = "clear"
    /\ UNCHANGED <<main, inprogress, bak, temp, wanted, plan, crashes>>

\* A hook starts, or the one that failed is retried: it reads the relation data.
Start ==
    /\ pc \in {"idle", "failed"}
    /\ pc' = "clear"
    /\ plan' = wanted
    /\ UNCHANGED <<main, inprogress, bak, temp, wanted, crashes>>

\* initialize_inprogress_config: remove what an earlier run has left ...
Clear ==
    /\ pc = "clear"
    /\ inprogress' = IF inprogress.state = "whole" THEN Partial ELSE NoDir
    /\ pc' = IF inprogress.state = "whole" THEN "clear" ELSE "copy"
    /\ UNCHANGED <<main, bak, temp, wanted, plan, crashes>>

\* ... copy the configuration, which raises when it is not there ...
Copy ==
    /\ pc = "copy"
    /\ Exists(main)
    /\ inprogress' = IF inprogress.state = "none" THEN Partial ELSE main
    /\ pc' = IF inprogress.state = "none" THEN "copy" ELSE "replace"
    /\ UNCHANGED <<main, bak, temp, wanted, plan, crashes>>

CopyRaises == pc = "copy" /\ ~Exists(main) /\ Raise

\* ... and replace the paths: unlink nagios.cfg, then rename the new one to it.
Replace ==
    /\ pc = "replace"
    /\ inprogress.cfg # Missing
    /\ temp' = inprogress.cfg + 1
    /\ inprogress' = [inprogress EXCEPT !.cfg = Missing]
    /\ pc' = "replacing"
    /\ UNCHANGED <<main, bak, wanted, plan, crashes>>

ReplaceRaises == pc = "replace" /\ inprogress.cfg = Missing /\ Raise

RenameReplaced ==
    /\ pc = "replacing"
    /\ inprogress' = [inprogress EXCEPT !.cfg = temp]
    /\ pc' = "generate"
    /\ UNCHANGED <<main, bak, temp, wanted, plan, crashes>>

\* Host and host group files are written one by one into the copy ...
Generate ==
    /\ pc = "generate"
    /\ inprogress.cfg = 1
    /\ inprogress' = [inprogress EXCEPT !.version = Mixed]
    /\ pc' = "generating"
    /\ UNCHANGED <<main, bak, temp, wanted, plan, crashes>>

\* ... until all of them are.
Generated ==
    /\ pc = "generating"
    /\ inprogress' = [inprogress EXCEPT !.version = plan, !.files = "all"]
    /\ pc' = "retire"
    /\ UNCHANGED <<main, bak, temp, wanted, plan, crashes>>

\* pynag finds the objects through nagios.cfg, files are removed by their names.  When the
\* paths in nagios.cfg do not lead to the copy, a host without a file raises.  A run without
\* any writes nothing, but hosts that are left over and the groups related to the hook's unit
\* are removed, and no group is written again: pynag knows of no host.
Prune ==
    /\ pc = "generate"
    /\ inprogress.cfg # 1
    /\ \E left \in {inprogress.files, "some"} : inprogress' = [inprogress EXCEPT !.files = left]
    /\ pc' = "retire"
    /\ UNCHANGED <<main, bak, temp, wanted, plan, crashes>>

\* Broken variant of GenerateRaises: the run that fails puts the backup back, although
\* it has not replaced anything yet.
Bug_RollBack ==
    /\ pc \in {"generate", "generating"}
    /\ main' = IF Exists(bak) THEN bak ELSE main
    /\ pc' = "failed"
    /\ UNCHANGED <<inprogress, bak, temp, wanted, plan, crashes>>

\* Monitors that do not parse, or a host that pynag does not find.
GenerateRaises == pc \in {"generate", "generating"} /\ Raise

\* flush_inprogress_config: remove the old backup ...
RetireBackup ==
    /\ pc = "retire"
    /\ bak' = IF bak.state = "whole" THEN Partial ELSE NoDir
    /\ pc' = IF bak.state = "whole" THEN "retire" ELSE "backup"
    /\ UNCHANGED <<main, inprogress, temp, wanted, plan, crashes>>

\* Broken variant of BackUp: the old configuration is removed.
Bug_NoBackUp ==
    /\ pc = "backup"
    /\ bak' = NoDir
    /\ main' = NoDir
    /\ pc' = "install"
    /\ UNCHANGED <<inprogress, temp, wanted, plan, crashes>>

\* ... move the configuration there ...
BackUp ==
    /\ pc = "backup"
    /\ bak' = IF Exists(main) THEN main ELSE bak
    /\ main' = NoDir
    /\ pc' = "install"
    /\ UNCHANGED <<inprogress, temp, wanted, plan, crashes>>

\* ... and the copy into its place.
Install ==
    /\ pc = "install"
    /\ main' = inprogress
    /\ inprogress' = NoDir
    /\ pc' = "commit"
    /\ UNCHANGED <<bak, temp, wanted, plan, crashes>>

\* Broken variant of Commit: the paths stay as they are.
Bug_CommitAsIs ==
    /\ pc = "commit"
    /\ temp' = main.cfg
    /\ main' = [main EXCEPT !.cfg = Missing]
    /\ pc' = "committing"
    /\ UNCHANGED <<inprogress, bak, wanted, plan, crashes>>

\* _commit_in_config replaces the paths back.
Commit ==
    /\ pc = "commit"
    /\ temp' = IF main.cfg > 0 THEN main.cfg - 1 ELSE main.cfg
    /\ main' = [main EXCEPT !.cfg = Missing]
    /\ pc' = "committing"
    /\ UNCHANGED <<inprogress, bak, wanted, plan, crashes>>

\* Broken variant of RenameCommitted: the new file keeps its temporary name.
Bug_NoRename ==
    /\ pc = "committing"
    /\ pc' = "idle"
    /\ UNCHANGED <<main, inprogress, bak, temp, wanted, plan, crashes>>

RenameCommitted ==
    /\ pc = "committing"
    /\ main' = [main EXCEPT !.cfg = temp]
    /\ pc' = "idle"
    /\ UNCHANGED <<inprogress, bak, temp, wanted, plan, crashes>>

Crash ==
    /\ pc \notin {"idle", "failed"}
    /\ crashes < MaxCrashes
    /\ crashes' = crashes + 1
    /\ pc' = "failed"
    /\ UNCHANGED <<main, inprogress, bak, temp, wanted, plan>>

\* update_config of config-changed renders nagios.cfg from its template.
UpdateConfig ==
    /\ pc = "idle"
    /\ main.cfg # 0
    /\ main' = [main EXCEPT !.cfg = 0]
    /\ UNCHANGED <<inprogress, bak, temp, wanted, plan, pc, crashes>>
-----------------------------------------------------------------------------
\* nagios is installed and configured for no relation at all.
Init ==
    /\ main = [state |-> "whole", cfg |-> 0, version |-> 0, files |-> "all"]
    /\ inprogress = NoDir /\ bak = NoDir
    /\ temp = 0 /\ wanted = 0 /\ plan = 0
    /\ pc = "idle"
    /\ crashes = 0

Step == \/ Clear \/ Copy \/ CopyRaises \/ Replace \/ ReplaceRaises
        \/ RenameReplaced \/ Generate \/ Generated \/ Prune
        \/ GenerateRaises \/ RetireBackup \/ BackUp \/ Install \/ Commit \/ RenameCommitted

Next == Publish \/ Start \/ Step \/ Crash \/ UpdateConfig

Spec == Init /\ [][Next]_vars

\* Juju runs the hook while there is something to tell, and a run goes on until
\* it ends; what made a run raise is mended some time.
Due == pc = "failed" \/ main.version # wanted

FairSpec ==
    /\ Spec
    /\ WF_vars(Due /\ Start) /\ WF_vars(Step)
    /\ SF_vars(Generate) /\ SF_vars(Generated)
-----------------------------------------------------------------------------
\* Among the types: the suffixes in nagios.cfg do not pile up, each run that was
\* cut off adds one at most.
TypeOK ==
    /\ main \in Dirs /\ inprogress \in Dirs /\ bak \in Dirs
    /\ temp \in 0 .. MaxCrashes + 1
    /\ wanted \in Versions /\ plan \in Versions
    /\ pc \in {"idle", "failed", "clear", "copy", "replace", "replacing", "generate",
               "generating", "retire", "backup", "install", "commit", "committing"}
    /\ crashes \in 0 .. MaxCrashes

\* A configuration of which every file that is there belongs to one version.
Consistent(dir) == dir.state = "whole" /\ dir.version # Mixed

\* However a run failed or was cut off, the files that nagios sees are of one version; and
\* where it sees none, those of the backup are, for an operator to put back.  Some of them
\* are gone only when a run was cut off before and has left nagios.cfg with other paths.
SurvivingCopy ==
    /\ IF Exists(main) THEN Consistent(main) ELSE Consistent(bak)
    /\ "some" \in {main.files, bak.files} => crashes > 0

\* "now that directory has been changed need to update the config file to reflect
\* the real stuff": after a run that ends well the paths in nagios.cfg lead to the
\* directory it is in.
CommittedPathsAreReal == pc = "idle" => main.cfg = 0

\* That is what holds of it: a suffix is left for every run that was cut off, at most.
OneSuffixPerCrash == pc = "idle" => main.cfg \in 0 .. crashes

\* The configuration that nagios reads, or that an operator would put back from the backup.
InForce == IF Exists(main) THEN main ELSE bak

\* However runs fail, are cut off and are retried while the units publish, the configuration
\* goes from one version to a newer one that was published, and never back; as a whole, unless
\* a run was cut off.
Published == INSTANCE Publication WITH
                 published <- wanted, inForce <- InForce.version,
                 files <- InForce.files, cut <- crashes > 0
TakesOver == Published!Spec

\* Between runs nothing is missing, and nagios may be restarted any time: after runs that
\* end well, and after any others as long as none is cut off.
ReadyBetweenRuns ==
    pc = "idle" \/ (pc = "failed" /\ crashes = 0) => Exists(main) /\ main.cfg # Missing

\* What the units publish is in force in the end, or something newer is, unless a run
\* is cut off.
EventuallyInstalled ==
    \A v \in Versions : wanted = v ~> main.version >= v \/ crashes > 0
=============================================================================
