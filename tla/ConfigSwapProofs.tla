-------------------------- MODULE ConfigSwapProofs --------------------------
(***************************************************************************)
(* Invariants of the replacement of the configuration for any number of    *)
(* changes and of runs that are cut off.                                   *)
(***************************************************************************)
EXTENDS ConfigSwap, TLAPS

\* Where a run relies on the configuration that nagios has ...
Kept == {"idle", "replace", "replacing", "generate", "generating", "retire", "backup",
         "commit", "committing"}

\* ... and where on the copy of it, of which every file belongs to one version.
Copied == {"replace", "replacing", "generate", "retire", "backup", "install"}

Whole ==
    /\ Exists(main) => Consistent(main)
    /\ pc \in Kept => Consistent(main)
    /\ pc \in Copied => Consistent(inprogress)
    /\ pc = "generating" => inprogress.state = "whole"
    /\ pc = "install" => Consistent(bak)
    /\ Consistent(main) \/ Consistent(bak)

\* How many suffixes there are in the paths, each step of the way.
Suffixes ==
    /\ main.cfg <= IF pc = "commit" THEN crashes + 1 ELSE crashes
    /\ pc = "idle" => main.cfg >= 0
    /\ pc = "replace" => inprogress.cfg <= crashes
    /\ pc = "replacing" => temp \in 1 .. crashes + 1
    /\ pc \in {"generate", "generating", "retire", "backup", "install"} =>
          inprogress.cfg \in 1 .. crashes + 1
    /\ pc = "commit" => main.cfg \in 1 .. crashes + 1
    /\ pc = "committing" => temp \in 0 .. crashes

\* Without a run that is cut off nagios.cfg is missing only while it is replaced.
InPlace ==
    crashes = 0 /\ pc \notin {"install", "committing"} =>
        Exists(main) /\ main.cfg # Missing

\* Files are gone only after a run was cut off.
Complete == "some" \in {main.files, inprogress.files, bak.files} => crashes > 0

IInv == TypeOK /\ Whole /\ Suffixes /\ InPlace /\ Complete
-----------------------------------------------------------------------------
\* What a directory is, and what changing a field of it does.
LEMMA FieldsOfDir ==
    ASSUME NEW dir \in Dirs
    PROVE  /\ dir.state \in {"none", "partial", "whole"}
           /\ dir.cfg \in Missing .. MaxCrashes + 1
           /\ dir.version \in Versions \cup {Mixed}
           /\ dir.files \in {"all", "some"}
BY DEF Dirs

LEMMA EmptyDirs == /\ NoDir \in Dirs /\ Partial \in Dirs
                   /\ NoDir.state = "none" /\ Partial.state = "partial"
                   /\ NoDir.cfg = Missing /\ Partial.cfg = Missing
                   /\ NoDir.files = "all" /\ Partial.files = "all"
BY BoundAssumption DEF Dirs, NoDir, Partial, Missing, Mixed

LEMMA WithCfg ==
    ASSUME NEW dir \in Dirs, NEW c \in Missing .. MaxCrashes + 1
    PROVE  LET new == [dir EXCEPT !.cfg = c]
           IN  /\ new \in Dirs /\ new.cfg = c /\ new.state = dir.state
               /\ new.version = dir.version /\ new.files = dir.files
BY DEF Dirs

LEMMA WithVersion ==
    ASSUME NEW dir \in Dirs, NEW v \in Versions \cup {Mixed}
    PROVE  LET new == [dir EXCEPT !.version = v]
           IN  /\ new \in Dirs /\ new.version = v /\ new.state = dir.state
               /\ new.cfg = dir.cfg /\ new.files = dir.files
BY DEF Dirs

LEMMA WithFiles ==
    ASSUME NEW dir \in Dirs, NEW left \in {"all", "some"}
    PROVE  LET new == [dir EXCEPT !.files = left]
           IN  /\ new \in Dirs /\ new.files = left /\ new.state = dir.state
               /\ new.cfg = dir.cfg /\ new.version = dir.version
BY DEF Dirs

LEMMA WithAll ==
    ASSUME NEW dir \in Dirs, NEW v \in Versions
    PROVE  LET new == [dir EXCEPT !.version = v, !.files = "all"]
           IN  /\ new \in Dirs /\ new.version = v /\ new.files = "all"
               /\ new.state = dir.state /\ new.cfg = dir.cfg
BY DEF Dirs

LEMMA InitIInv == Init => IInv
BY BoundAssumption
   DEF Init, IInv, TypeOK, Whole, Suffixes, InPlace, Complete, Kept, Copied, Dirs, NoDir, Missing,
       Mixed, Versions, Consistent, Exists

\* One step per action: what it does to the directories and how many suffixes it leaves.
LEMMA NextIInv == IInv /\ [Next]_vars => IInv'
<1> SUFFICES ASSUME IInv, [Next]_vars PROVE IInv'
    OBVIOUS
<1> USE DEF IInv, Missing, Mixed
<1>a. /\ main \in Dirs /\ inprogress \in Dirs /\ bak \in Dirs
      /\ crashes \in Nat /\ crashes <= MaxCrashes /\ MaxCrashes \in Nat
    BY BoundAssumption DEF TypeOK
<1>b. /\ main.cfg \in Missing .. MaxCrashes + 1
      /\ inprogress.cfg \in Missing .. MaxCrashes + 1
      /\ bak.cfg \in Missing .. MaxCrashes + 1
    BY <1>a, FieldsOfDir
<1> USE <1>a, <1>b, EmptyDirs
    DEF TypeOK, Whole, Suffixes, InPlace, Complete, Kept, Copied, Consistent, Exists
<1>1. CASE Publish
    BY <1>1, BoundAssumption DEF Publish, Versions
<1>2. CASE Start
    BY <1>2 DEF Start
<1>3. CASE Clear
    BY <1>3 DEF Clear
<1>4. CASE Copy
    BY <1>4 DEF Copy
<1>5. CASE CopyRaises
    BY <1>5 DEF CopyRaises, Raise
<1>6. CASE Replace
    BY <1>6, WithCfg DEF Replace
<1>7. CASE ReplaceRaises
    BY <1>7 DEF ReplaceRaises, Raise
<1>8. CASE RenameReplaced
    <2>1. temp \in Missing .. MaxCrashes + 1
        OBVIOUS
    <2> QED BY <1>8, <2>1, WithCfg DEF RenameReplaced
<1>9. CASE Generate
    <2>1. Mixed \in Versions \cup {Mixed}
        OBVIOUS
    <2> QED BY <1>9, <2>1, WithVersion DEF Generate
<1>10. CASE Generated
    <2>1. plan \in Versions /\ plan # Mixed
        BY DEF Versions
    <2>2. inprogress' = [inprogress EXCEPT !.version = plan, !.files = "all"]
        BY ONLY <1>10 DEF Generated
    <2>3. /\ inprogress' \in Dirs /\ inprogress'.version = plan
          /\ inprogress'.files = "all" /\ inprogress'.cfg = inprogress.cfg
          /\ inprogress'.state = inprogress.state
        BY ONLY <1>a, <2>1, <2>2, WithAll
    <2> QED BY <1>10, <2>1, <2>3 DEF Generated
<1>11. CASE Prune
    <2>1. PICK left \in {"all", "some"} :
              /\ left = "some" \/ left = inprogress.files
              /\ inprogress' = [inprogress EXCEPT !.files = left]
        BY <1>11, FieldsOfDir DEF Prune
    <2>2. /\ inprogress' \in Dirs /\ inprogress'.files = left
          /\ inprogress'.state = inprogress.state /\ inprogress'.cfg = inprogress.cfg
          /\ inprogress'.version = inprogress.version
        BY <2>1, WithFiles
    <2>3. pc = "generate" /\ inprogress.cfg # 1 /\ pc' = "retire"
          /\ UNCHANGED <<main, bak, temp, wanted, plan, crashes>>
        BY <1>11 DEF Prune
    <2> QED BY <2>2, <2>3
<1>12. CASE GenerateRaises
    BY <1>12 DEF GenerateRaises, Raise
<1>13. CASE RetireBackup
    BY <1>13 DEF RetireBackup
<1>14. CASE BackUp
    BY <1>14 DEF BackUp
<1>15. CASE Install
    BY <1>15 DEF Install
<1>16. CASE Commit
    BY <1>16, WithCfg DEF Commit
<1>17. CASE RenameCommitted
    BY <1>17, WithCfg DEF RenameCommitted
<1>18. CASE Crash
    BY <1>18 DEF Crash
<1>19. CASE UpdateConfig
    BY <1>19, WithCfg DEF UpdateConfig
<1>20. CASE UNCHANGED vars
    BY <1>20 DEF vars
<1> QED
    BY <1>1, <1>2, <1>3, <1>4, <1>5, <1>6, <1>7, <1>8, <1>9, <1>10, <1>11, <1>12, <1>13,
       <1>14, <1>15, <1>16, <1>17, <1>18, <1>19, <1>20 DEF Next, Step

LEMMA IInvHolds == Spec => []IInv
BY InitIInv, NextIInv, PTL DEF Spec
-----------------------------------------------------------------------------
\* What nagios reads is of one version, however often runs fail or are cut off, and complete
\* before any is; the order of the moves leaves such a backup when it has nothing to read.
THEOREM CopySurvives == Spec => []SurvivingCopy
<1>1. IInv => SurvivingCopy
    BY DEF IInv, Whole, Complete, SurvivingCopy, Consistent, Exists
<1> QED BY <1>1, IInvHolds, PTL

\* Replacing the paths forth and back adds a suffix only when a run is cut off in between.
THEOREM OneSuffix == Spec => []OneSuffixPerCrash
<1>1. IInv => OneSuffixPerCrash
    BY DEF IInv, TypeOK, Dirs, Missing, Suffixes, OneSuffixPerCrash
<1> QED BY <1>1, IInvHolds, PTL

\* Between runs nagios can be restarted, unless one was cut off and is yet to be retried.
THEOREM ReadyAfterRuns == Spec => []ReadyBetweenRuns
<1>1. IInv => ReadyBetweenRuns
    BY DEF IInv, TypeOK, Dirs, Missing, Whole, Kept, Consistent, Exists, Suffixes, InPlace,
           ReadyBetweenRuns
<1> QED BY <1>1, IInvHolds, PTL

\* Every reachable state is well typed: the suffixes stay within their bound.
THEOREM TypesHold == Spec => []TypeOK
<1>1. IInv => TypeOK
    BY DEF IInv
<1> QED BY <1>1, IInvHolds, PTL
-----------------------------------------------------------------------------
\* The version of the copy lies between the one it was copied from and the one the run has
\* read, and the units have published that.
Forward ==
    /\ InForce.version <= plan /\ plan <= wanted
    /\ pc \in {"replace", "replacing", "generate"} =>
          inprogress.version = main.version /\ inprogress.files = main.files
    /\ pc \in {"retire", "backup", "install"} =>
          /\ inprogress.version \in InForce.version .. plan
          /\ inprogress.files = "some" => inprogress.version = InForce.version

\* What a step does to what is published and in force.
Told == wanted' = wanted + 1 /\ UNCHANGED <<InForce.version, InForce.files, crashes>>

Written == /\ UNCHANGED <<wanted, crashes>> /\ InForce.files' = "all"
           /\ InForce.version' \in InForce.version .. plan

Lost == /\ UNCHANGED <<wanted, crashes, InForce.version>>
        /\ crashes > 0 /\ InForce.files' = "some"

Unmoved == /\ wanted' = wanted /\ UNCHANGED <<InForce.version, InForce.files>>
           /\ crashes' = crashes \/ crashes' > 0

LEMMA InForceIsVersion ==
    IInv => /\ InForce.version \in Nat /\ wanted \in Nat /\ plan \in Nat
            /\ InForce.files \in {"all", "some"} /\ crashes \in Nat
BY BoundAssumption, FieldsOfDir DEF IInv, TypeOK, Whole, InForce, Consistent, Exists, Versions, Mixed

LEMMA InitForward == Init => Forward
BY DEF Init, Forward, InForce, Exists, NoDir

\* One step per action; most leave the configuration in force alone.
LEMMA NextForward ==
    ASSUME IInv, IInv', Forward, [Next]_vars
    PROVE  Forward' /\ (Told \/ Written \/ Lost \/ Unmoved)
<1>1. /\ InForce.version \in Nat /\ wanted \in Nat /\ plan \in Nat
      /\ InForce.version' \in Nat /\ wanted' \in Nat /\ plan' \in Nat
      /\ InForce.files \in {"all", "some"} /\ InForce.files' \in {"all", "some"}
      /\ crashes \in Nat /\ crashes' \in Nat
    <2>1. IInv' => (/\ InForce.version \in Nat /\ wanted \in Nat /\ plan \in Nat
                    /\ InForce.files \in {"all", "some"} /\ crashes \in Nat)'
        BY InForceIsVersion, PTL
    <2> QED BY <2>1, InForceIsVersion
<1> USE <1>1
    DEF Forward, Told, Written, Lost, Unmoved
<1>2. CASE Publish
    BY <1>2 DEF Publish, InForce, Exists
<1>3. CASE Start
    BY <1>3 DEF Start, InForce, Exists
<1>4. CASE Clear
    BY <1>4 DEF Clear, InForce, Exists
<1>5. CASE Copy
    BY <1>5 DEF Copy, InForce, Exists
<1>6. CASE CopyRaises \/ ReplaceRaises \/ GenerateRaises \/ Crash
    BY <1>6 DEF CopyRaises, ReplaceRaises, GenerateRaises, Crash, Raise, InForce, Exists
<1>7. CASE Replace
    BY <1>7 DEF Replace, InForce, Exists, IInv, TypeOK, Missing
<1>8. CASE RenameReplaced
    BY <1>8 DEF RenameReplaced, InForce, Exists, IInv, TypeOK, Suffixes, Missing
<1>9. CASE Generate
    BY <1>9 DEF Generate, InForce, Exists
<1>10. CASE Generated
    BY <1>10 DEF Generated, InForce, Exists, IInv, TypeOK
<1>11. CASE Prune
    BY <1>11 DEF Prune, InForce, IInv, TypeOK, Whole, Kept, Consistent, Exists
<1>12. CASE RetireBackup
    BY <1>12 DEF RetireBackup, InForce, IInv, Whole, Kept, Consistent, Exists
<1>13. CASE BackUp
    BY <1>13 DEF BackUp, InForce, IInv, Whole, Kept, Consistent, Exists, NoDir
<1>14. CASE Install
    BY <1>14 DEF Install, InForce, IInv, TypeOK, Whole, Complete, Copied, Consistent, Exists
<1>15. CASE Commit
    BY <1>15 DEF Commit, InForce, Exists, IInv, TypeOK, Missing
<1>16. CASE RenameCommitted
    BY <1>16 DEF RenameCommitted, InForce, Exists, IInv, TypeOK, Suffixes, Missing
<1>17. CASE UpdateConfig
    BY <1>17 DEF UpdateConfig, InForce, Exists, IInv, TypeOK, Missing
<1>18. CASE UNCHANGED vars
    BY <1>18 DEF vars, InForce, Exists
<1> QED
    BY <1>2, <1>3, <1>4, <1>5, <1>6, <1>7, <1>8, <1>9, <1>10, <1>11, <1>12, <1>13, <1>14,
       <1>15, <1>16, <1>17, <1>18 DEF Next, Step

\* The replacement implements Publication: a version takes over, none that is older than the
\* one before or that nobody has published, whatever is cut off and retried; and no file
\* is lost on the way before a run is cut off.
THEOREM ReplacementImplemented == Spec => TakesOver
<1>1. Init => Published!Init
    BY DEF Init, Published!Init, InForce, Exists
<1>2. IInv /\ IInv' /\ Forward /\ [Next]_vars => [Published!Next]_Published!vars
    <2> SUFFICES ASSUME IInv, IInv', Forward, [Next]_vars
                 PROVE  [Published!Next]_Published!vars
        OBVIOUS
    <2>1. Told \/ Written \/ Lost \/ Unmoved
        BY NextForward
    <2> USE DEF Published!Next, Published!vars
    <2>2. CASE Told
        BY <2>2 DEF Told, Published!Publish
    <2>3. CASE Written
        <3>1. InForce.version' \in InForce.version .. wanted
            BY <2>3, InForceIsVersion DEF Written, Forward
        <3> QED BY <2>3, <3>1 DEF Written, Published!TakeOver
    <2>4. CASE Lost
        BY <2>4 DEF Lost, Published!Prune
    <2>5. CASE Unmoved
        <3>1. CASE crashes' = crashes
            BY <2>5, <3>1 DEF Unmoved
        <3>2. CASE crashes' > 0
            BY <2>5, <3>2 DEF Unmoved, Published!Cut
        <3> QED BY <2>5, <3>1, <3>2 DEF Unmoved
    <2> QED BY <2>1, <2>2, <2>3, <2>4, <2>5
<1>3. IInv /\ IInv' /\ Forward /\ [Next]_vars => Forward'
    BY NextForward
<1> QED BY <1>1, <1>2, <1>3, InitForward, IInvHolds, PTL DEF Spec, TakesOver, Published!Spec
=============================================================================
