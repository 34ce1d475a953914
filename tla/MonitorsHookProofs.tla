------------------------- MODULE MonitorsHookProofs -------------------------
(***************************************************************************)
(* The host names, and the invariants of the monitors hook, for all sets   *)
(* of units, models, digests, targets and offers.                          *)
(***************************************************************************)
EXTENDS MonitorsHook, WellFoundedInduction, SequenceTheorems, FiniteSetTheorems, TLAPS

-----------------------------------------------------------------------------
(***************************************************************************)
(* The host names, for all sets of models and all digests.                 *)
(***************************************************************************)
\* The search of compute_host_prefixes ends well: the digests in full tell the
\* models apart, so some length in range does, and the one found does.
LEMMA PrefixLengthDistinguishes ==
    ASSUME NEW models \in SUBSET Models
    PROVE  /\ PrefixLength(models) \in Lengths
           /\ Distinguishes(PrefixLength(models), models)
<1> DEFINE good == {i \in Lengths : Distinguishes(i, models)}
           R == OpToRel(<, Nat)
<1>1. Lengths \subseteq Nat /\ HOST_PREFIX_MAX_LENGTH \in Lengths
    BY LengthAssumption DEF Lengths
<1>2. \A m \in models : ShaPrefix(m, HOST_PREFIX_MAX_LENGTH) = Sha[m]
    <2> SUFFICES ASSUME NEW m \in models
                 PROVE  ShaPrefix(m, HOST_PREFIX_MAX_LENGTH) = Sha[m]
        OBVIOUS
    <2>1. Sha[m] \in Seq(HexDigits) /\ Len(Sha[m]) = HOST_PREFIX_MAX_LENGTH
        BY ShaAssumption
    <2> QED BY <2>1, LengthAssumption DEF ShaPrefix
<1>3. Distinguishes(HOST_PREFIX_MAX_LENGTH, models)
    BY <1>2, ShaAssumption DEF Distinguishes
<1>4. \E i \in good : \A j \in good : <<j, i>> \notin R
    <2>1. good \subseteq Nat /\ good # {}
        BY <1>1, <1>3
    <2> HIDE DEF good, R
    <2> QED BY <2>1, WFMin, NatLessThanWellFounded DEF R
<1>5. PICK i \in good : \A j \in good : <<j, i>> \notin R
    BY <1>4
<1>6. \A j \in good : i <= j
    <2> SUFFICES ASSUME NEW j \in good, j < i PROVE FALSE
        BY <1>1
    <2>1. <<j, i>> \in Nat \X Nat /\ <<j, i>>[1] = j /\ <<j, i>>[2] = i
        BY <1>1
    <2>2. <<j, i>> \in R
        BY <2>1 DEF OpToRel
    <2> QED BY <1>5, <2>2
<1> QED
    BY <1>1, <1>3, <1>5, <1>6 DEF PrefixLength
-----------------------------------------------------------------------------
\* A view in which every unit announces a target, and a model or none.
IsView(view) == \A u \in DOMAIN view : /\ view[u].target \in Targets
                                       /\ view[u].model \in Models \cup {NoModel}

\* Prefixes are never empty: a prefixed name is not a plain one.
LEMMA PrefixNotEmpty ==
    ASSUME NEW m \in Models, NEW i \in Lengths
    PROVE  /\ ShaPrefix(m, i) \in Prefixes
           /\ ShaPrefix(m, i) # << >>
<1>1. Sha[m] \in Seq(HexDigits) /\ Len(Sha[m]) = HOST_PREFIX_MAX_LENGTH
    BY ShaAssumption
<1>2. i \in Nat /\ 1 <= i /\ i <= HOST_PREFIX_MAX_LENGTH
    BY LengthAssumption DEF Lengths
<1>3. SubSeq(Sha[m], 1, i) \in Seq(HexDigits) /\ Len(SubSeq(Sha[m], 1, i)) = i
    BY <1>1, <1>2, LengthAssumption
<1>4. ShaPrefix(m, i) \in Prefixes
    BY <1>3 DEF ShaPrefix, Prefixes
<1>5. ASSUME ShaPrefix(m, i) = << >> PROVE FALSE
    <2>1. Len(ShaPrefix(m, i)) = 0
        BY <1>5
    <2>2. Len(ShaPrefix(m, i)) = i
        BY <1>3 DEF ShaPrefix
    <2> QED BY <1>2, <2>1, <2>2
<1> QED BY <1>4, <1>5

LEMMA HostNameType ==
    ASSUME NEW view, IsView(view), NEW u \in DOMAIN view
    PROVE  HostName(view, u) \in HostNames
<1>1. ModelIds(view) \in SUBSET Models
    BY DEF ModelIds, IsView
<1>2. PrefixLength(ModelIds(view)) \in Lengths
    BY <1>1, PrefixLengthDistinguishes
<1>3. << >> \in Prefixes
    BY DEF Prefixes
<1> QED BY <1>2, <1>3, PrefixNotEmpty DEF HostName, HostNames, IsView

\* Two units come under one name only when they announce one target from one
\* model: the de-duplication in main never lets units of two models share a file.
THEOREM HostNameInjective ==
    ASSUME NEW view, IsView(view),
           NEW u \in DOMAIN view, NEW w \in DOMAIN view,
           HostName(view, u) = HostName(view, w)
    PROVE  view[u].target = view[w].target /\ view[u].model = view[w].model
<1> DEFINE i == PrefixLength(ModelIds(view))
<1>1. view[u].target = view[w].target
    BY DEF HostName
<1>2. ModelIds(view) \in SUBSET Models
    BY DEF ModelIds, IsView
<1>3. i \in Lengths /\ Distinguishes(i, ModelIds(view))
    BY <1>2, PrefixLengthDistinguishes
<1>4. SUFFICES ASSUME view[u].model # view[w].model PROVE FALSE
    BY <1>1
<1>5. DedupingRequired(view, u) /\ DedupingRequired(view, w)
    BY <1>1, <1>4 DEF DedupingRequired
<1>6. CASE view[u].model = NoModel
    <2>1. HostName(view, u).prefix = << >>
        BY <1>6 DEF HostName
    <2>2. view[w].model \in Models
        BY <1>4, <1>6 DEF IsView
    <2>3. HostName(view, w).prefix = ShaPrefix(view[w].model, i)
        BY <1>5, <2>2, ModelAssumption DEF HostName
    <2> QED BY <1>3, <2>1, <2>2, <2>3, PrefixNotEmpty
<1>7. CASE view[w].model = NoModel
    <2>1. HostName(view, w).prefix = << >>
        BY <1>7 DEF HostName
    <2>2. view[u].model \in Models
        BY <1>4, <1>7 DEF IsView
    <2>3. HostName(view, u).prefix = ShaPrefix(view[u].model, i)
        BY <1>5, <2>2, ModelAssumption DEF HostName
    <2> QED BY <1>3, <2>1, <2>2, <2>3, PrefixNotEmpty
<1>8. CASE view[u].model # NoModel /\ view[w].model # NoModel
    <2>1. /\ HostName(view, u).prefix = ShaPrefix(view[u].model, i)
          /\ HostName(view, w).prefix = ShaPrefix(view[w].model, i)
        BY <1>5, <1>8 DEF HostName
    <2>2. view[u].model \in ModelIds(view) /\ view[w].model \in ModelIds(view)
        BY <1>8 DEF ModelIds
    <2> QED BY <1>3, <1>4, <2>1, <2>2 DEF Distinguishes
<1> QED BY <1>6, <1>7, <1>8

-----------------------------------------------------------------------------
\* The settings of a unit that is not skipped: no required key is missing.
Complete == [target : Targets, model : Models \cup {NoModel},
             address : Addresses, ingress : Addresses \cup {NoAddress},
             monitors : Monitors, machine : Machines \cup {NoMachine}]

ViewOK(view) == /\ DOMAIN view \subseteq Units
                /\ \A u \in DOMAIN view : view[u] \in Complete

\* What a run reads of well-typed relation data.
LEMMA ViewOfType ==
    ASSUME remote \in [Units -> Settings], NEW us \in SUBSET Units
    PROVE  ViewOK(ViewOf(us))
<1> SUFFICES ASSUME NEW u \in us, Ready(u)
             PROVE  Prepared(u, remote[u]) \in Complete
    BY DEF ViewOK, ViewOf
<1>1. remote[u] \in Settings
    OBVIOUS
<1>2. Prepared(u, remote[u]) \in Settings
    BY <1>1, UnitAssumption, DataAssumption DEF Prepared, Settings
<1> QED BY <1>2 DEF Ready, Settings, Complete

LEMMA ViewOKIsView ==
    ASSUME NEW view, ViewOK(view)
    PROVE  IsView(view)
BY DEF ViewOK, IsView, Complete
-----------------------------------------------------------------------------
\* Of finitely many bounded numbers there is a largest one.
LEMMA MaximumExists ==
    ASSUME NEW us, us # {}, NEW f, NEW top \in Nat,
           \A u \in us : f[u] \in Nat /\ f[u] <= top
    PROVE  \E u \in us : \A w \in us : f[w] <= f[u]
<1> DEFINE gaps == {top - f[u] : u \in us}
           R == OpToRel(<, Nat)
<1>1. gaps \subseteq Nat /\ gaps # {}
    OBVIOUS
<1>2. PICK g \in gaps : \A h \in gaps : <<h, g>> \notin R
    <2> HIDE DEF gaps, R
    <2> QED BY <1>1, WFMin, NatLessThanWellFounded DEF R
<1>3. ASSUME NEW h \in gaps PROVE g <= h
    <2> SUFFICES ASSUME h < g PROVE FALSE
        BY <1>1, <1>3
    <2>1. <<h, g>> \in Nat \X Nat /\ <<h, g>>[1] = h /\ <<h, g>>[2] = g
        BY <1>1, <1>3
    <2>2. <<h, g>> \in R
        BY <2>1 DEF OpToRel
    <2> QED BY <1>2, <1>3, <2>2
<1>4. PICK u \in us : g = top - f[u]
    BY <1>2
<1>5. ASSUME NEW w \in us PROVE f[w] <= f[u]
    <2>1. top - f[u] <= top - f[w]
        BY <1>3, <1>4
    <2> QED BY <2>1
<1> QED BY <1>5

LEMMA MinimumExists ==
    ASSUME NEW us, us # {}, NEW f, \A u \in us : f[u] \in Nat
    PROVE  \E u \in us : \A w \in us : f[u] <= f[w]
<1> DEFINE values == {f[u] : u \in us}
           R == OpToRel(<, Nat)
<1>1. values \subseteq Nat /\ values # {}
    OBVIOUS
<1>2. PICK v \in values : \A x \in values : <<x, v>> \notin R
    <2> HIDE DEF values, R
    <2> QED BY <1>1, WFMin, NatLessThanWellFounded DEF R
<1>3. ASSUME NEW x \in values PROVE v <= x
    <2> SUFFICES ASSUME x < v PROVE FALSE
        BY <1>1, <1>3
    <2>1. <<x, v>> \in Nat \X Nat /\ <<x, v>>[1] = x /\ <<x, v>>[2] = v
        BY <1>1, <1>3
    <2>2. <<x, v>> \in R
        BY <2>1 DEF OpToRel
    <2> QED BY <1>2, <1>3, <2>2
<1> QED BY <1>2, <1>3

\* Positions are numbers from 1 to the number of units.
LEMMA PositionType ==
    /\ Cardinality(Units) \in Nat
    /\ \A u \in Units : Position[u] \in Nat /\ Position[u] <= Cardinality(Units)
<1>1. Cardinality(Units) \in Nat
    BY UnitAssumption, FS_CardinalityType
<1> QED BY <1>1, UnitAssumption

LEMMA LastType ==
    ASSUME NEW us \in SUBSET Units, us # {}
    PROVE  Last(us) \in us
<1>1. \E u \in us : \A w \in us : Position[w] <= Position[u]
    BY PositionType, MaximumExists
<1> QED BY <1>1 DEF Last

\* The first unit of a target that is listed.
LEMMA FirstPositionType ==
    ASSUME NEW view, ViewOK(view), NEW u \in DOMAIN view
    PROVE  \E w \in DOMAIN view : /\ view[w].target = view[u].target
                                  /\ FirstPosition(view, view[u].target) = Position[w]
<1> DEFINE us == {w \in DOMAIN view : view[w].target = view[u].target}
<1>1. us # {} /\ us \subseteq Units
    BY DEF ViewOK
<1>2. \E w \in us : \A x \in us : Position[w] <= Position[x]
    BY <1>1, PositionType, MinimumExists
<1> QED BY <1>2 DEF FirstPosition

\* The order in which settings are gone through has a last unit.
LEMMA LastOfMachine ==
    ASSUME NEW view, ViewOK(view), NEW us \in SUBSET DOMAIN view, us # {}
    PROVE  \E u \in us : \A w \in us : Before(view, w, u)
<1> DEFINE first == [u \in us |-> FirstPosition(view, view[u].target)]
<1>1. \A u \in us : first[u] \in Nat /\ first[u] <= Cardinality(Units)
    BY FirstPositionType, PositionType DEF ViewOK
<1>2. PICK t \in us : \A w \in us : first[w] <= first[t]
    <2> HIDE DEF first
    <2> QED BY <1>1, PositionType, MaximumExists
<1> DEFINE latest == {u \in us : view[u].target = view[t].target}
<1>3. latest # {} /\ latest \subseteq Units
    BY DEF ViewOK
<1>4. PICK u \in latest : \A w \in latest : Position[w] <= Position[u]
    <2> HIDE DEF latest
    <2> QED BY <1>3, PositionType, MaximumExists
<1>5. ASSUME NEW w \in us PROVE Before(view, w, u)
    <2>1. CASE view[w].target = view[t].target
        BY <1>4, <2>1 DEF Before
    <2>2. CASE view[w].target # view[t].target
        <3>1. first[w] # first[t]
            <4>1. PICK x \in DOMAIN view : /\ view[x].target = view[w].target
                                           /\ first[w] = Position[x]
                BY FirstPositionType
            <4>2. PICK y \in DOMAIN view : /\ view[y].target = view[t].target
                                           /\ first[t] = Position[y]
                BY FirstPositionType
            <4> QED BY <2>2, <4>1, <4>2, UnitAssumption DEF ViewOK
        <3>2. first[w] < first[t]
            BY <1>1, <1>2, <3>1
        <3> QED BY <3>2 DEF Before
    <2> QED BY <2>1, <2>2
<1> QED BY <1>5
-----------------------------------------------------------------------------
LEMMA ParentHostType ==
    ASSUME NEW view, ViewOK(view), NEW u \in DOMAIN view
    PROVE  ParentHost(view, u) \in HostNames \cup {NoHost}
<1> SUFFICES ASSUME NEW model, NEW machine
             PROVE  HostOfMachine(view, model, machine) \in HostNames \cup {NoHost}
    BY DEF ParentHost
<1> DEFINE us == {w \in DOMAIN view : view[w].model = model /\ view[w].machine = machine}
           last == CHOOSE w \in us : \A x \in us : Before(view, x, w)
<1>1. CASE us = {}
    BY <1>1 DEF HostOfMachine
<1>2. CASE us # {}
    <2>1. last \in us
        BY <1>2, LastOfMachine
    <2>2. HostName(view, last) \in HostNames
        BY <2>1, ViewOKIsView, HostNameType
    <2> QED BY <1>2, <2>2 DEF HostOfMachine
<1> QED BY <1>1, <1>2

HostFile == [address : Addresses, parents : HostNames \cup {NoHost},
             services : SUBSET Monitors]

LEMMA WrittenType ==
    ASSUME NEW view, ViewOK(view), NEW n \in Names(view)
    PROVE  Written(view, n) \in HostFile
<1> DEFINE us == {u \in DOMAIN view : HostName(view, u) = n}
           children == {u \in us : ParentHost(view, u) # NoHost}
<1>1. us # {} /\ us \subseteq Units /\ children \subseteq Units
    BY DEF Names, ViewOK
<1>2. view[Last(us)].address \in Addresses
    BY <1>1, LastType DEF ViewOK, Complete
<1>3. ASSUME children # {}
      PROVE  ParentHost(view, Last(children)) \in HostNames
    <2>1. Last(children) \in children
        BY <1>1, <1>3, LastType
    <2> QED BY <2>1, ParentHostType
<1>4. {view[u].monitors : u \in us} \ {NoServices} \in SUBSET Monitors
    BY DEF ViewOK, Complete
<1> QED BY <1>2, <1>3, <1>4 DEF Written, HostFile

LEMMA NamesType ==
    ASSUME NEW view, ViewOK(view)
    PROVE  Names(view) \subseteq HostNames
BY ViewOKIsView, HostNameType DEF Names
-----------------------------------------------------------------------------
HostFilesOK(files) == /\ DOMAIN files \subseteq HostNames
                      /\ \A n \in DOMAIN files : files[n] \in HostFile

GroupsOK(groups) == /\ DOMAIN groups \subseteq GroupNames
                    /\ \A g \in DOMAIN groups : groups[g] \subseteq HostNames

\* What the hook keeps to start from is well typed.
LEMMA WithoutType ==
    ASSUME NEW removed, NEW files
    PROVE  /\ HostFilesOK(files) => HostFilesOK(Without(files, removed))
           /\ GroupsOK(files) => GroupsOK(Without(files, removed))
BY DEF Without, Restrict, HostFilesOK, GroupsOK

\* After apply and cleanup there is a file for every name asked for and no other.
LEMMA RegeneratedNames ==
    ASSUME NEW view, NEW files
    PROVE  DOMAIN CleanupLeftoverHosts(view, ApplyRelationConfig(view, files))
             = Names(view)
BY DEF CleanupLeftoverHosts, ApplyRelationConfig, Without, Restrict

LEMMA RegeneratedType ==
    ASSUME NEW view, ViewOK(view), NEW files, HostFilesOK(files)
    PROVE  HostFilesOK(CleanupLeftoverHosts(view, ApplyRelationConfig(view, files)))
<1>1. HostFilesOK(ApplyRelationConfig(view, files))
    BY WrittenType, NamesType DEF HostFilesOK, ApplyRelationConfig
<1> QED BY <1>1, WithoutType DEF CleanupLeftoverHosts

LEMMA RefreshedType ==
    ASSUME NEW groups, GroupsOK(groups), NEW hosts \in SUBSET HostNames,
           NEW emptied \in SUBSET DeletedGroups(groups, hosts)
    PROVE  GroupsOK(RefreshHostgroups(groups, hosts, emptied))
<1>1. DeletedGroups(groups, hosts) \subseteq GroupNames
    BY DEF DeletedGroups, GroupsOK
<1>2. WantedGroups(hosts) \subseteq GroupNames
    BY AppAssumption DEF WantedGroups, HasGroup, GroupOf, HostNames, GroupNames
<1>3. \A g : HostsOfGroup(g, hosts) \subseteq HostNames
    BY DEF HostsOfGroup
<1> QED BY <1>1, <1>2, <1>3 DEF RefreshHostgroups, GroupsOK

LEMMA ReportedType ==
    ASSUME NEW view, ViewOK(view)
    PROVE  DuplicateTargets(view) \subseteq Targets
BY DEF DuplicateTargets, ViewOK, Complete

\* The four variables that a run of the hook writes.
FilesOK == /\ HostFilesOK(hostFiles) /\ GroupsOK(hostgroups)
           /\ reported \subseteq Targets /\ overwritten \in BOOLEAN

LEMMA RegenerateType ==
    ASSUME NEW view, ViewOK(view), NEW files, HostFilesOK(files),
           NEW groups, GroupsOK(groups), Regenerate(view, files, groups)
    PROVE  FilesOK'
<1>1. HostFilesOK(hostFiles')
    BY RegeneratedType DEF Regenerate
<1>2. PICK emptied \in SUBSET DeletedGroups(groups, DOMAIN hostFiles') :
          hostgroups' = RefreshHostgroups(groups, DOMAIN hostFiles', emptied)
    BY DEF Regenerate
<1>3. GroupsOK(hostgroups')
    BY <1>1, <1>2, RefreshedType DEF HostFilesOK
<1> QED BY <1>1, <1>3, ReportedType DEF Regenerate, FilesOK, HostFilesOK, GroupsOK

LEMMA RaiseType ==
    ASSUME NEW view, ViewOK(view), NEW files, FilesOK, Raise(view, files)
    PROVE  FilesOK'
BY ReportedType DEF Raise, FilesOK, HostFilesOK, GroupsOK
-----------------------------------------------------------------------------
\* What is inductive: besides the types, the unit of a departed hook that has to
\* be retried has left.
DepartedIsGone == \A u \in Units : failed = <<"departed", u>> => u \notin alive

TypeInv == TypeOK /\ DepartedIsGone

LEMMA TypeOKParts ==
    TypeOK <=> /\ remote \in [Units -> Settings]
               /\ alive \subseteq members /\ members \subseteq Units
               /\ dirty \subseteq members
               /\ failed \in ({"changed", "departed"} \X Units) \cup {NoHook}
               /\ FilesOK
BY DEF TypeOK, FilesOK, HostFilesOK, GroupsOK, HostFile

LEMMA EmptyFiles == DOMAIN << >> = {} /\ HostFilesOK(<< >>) /\ GroupsOK(<< >>)
<1>1. DOMAIN << >> = {}
    OBVIOUS
<1> QED BY <1>1 DEF HostFilesOK, GroupsOK

LEMMA TypeInit == Init => TypeInv
<1> SUFFICES ASSUME Init PROVE TypeInv
    OBVIOUS
<1>1. Blank \in Settings
    BY DEF Blank, Settings
<1>2. FilesOK
    BY EmptyFiles DEF Init, FilesOK
<1>3. DepartedIsGone
    BY UnitAssumption DEF Init, DepartedIsGone
<1> QED BY <1>1, <1>2, <1>3, TypeOKParts DEF Init, TypeInv

LEMMA TypeNext == TypeInv /\ [Next]_vars => TypeInv'
<1> SUFFICES ASSUME TypeInv, [Next]_vars PROVE TypeInv'
    OBVIOUS
<1>1. /\ remote \in [Units -> Settings]
      /\ alive \subseteq members /\ members \subseteq Units
      /\ dirty \subseteq members
      /\ failed \in ({"changed", "departed"} \X Units) \cup {NoHook}
      /\ FilesOK
      /\ DepartedIsGone
    BY TypeOKParts DEF TypeInv
<1>2. ViewOK(View) /\ \A u \in Units : ViewOK(ViewOf(members \ {u}))
    BY <1>1, ViewOfType DEF View
<1>3. \A raw : /\ HostFilesOK(HostsUnrelatedTo(raw))
               /\ GroupsOK(GroupsUnrelatedTo(raw))
    BY <1>1, WithoutType DEF HostsUnrelatedTo, GroupsUnrelatedTo, FilesOK
<1> SUFFICES /\ remote' \in [Units -> Settings]
             /\ alive' \subseteq members' /\ members' \subseteq Units
             /\ dirty' \subseteq members'
             /\ failed' \in ({"changed", "departed"} \X Units) \cup {NoHook}
             /\ FilesOK'
             /\ DepartedIsGone'
    BY DEF TypeInv, TypeOK, FilesOK, HostFilesOK, GroupsOK, HostFile
<1>4. ASSUME UNCHANGED <<hostFiles, hostgroups, reported, overwritten>> PROVE FilesOK'
    BY <1>1, <1>4 DEF FilesOK, HostFilesOK, GroupsOK
<1>5. CASE UNCHANGED vars
    BY <1>1, <1>4, <1>5 DEF vars, DepartedIsGone
<1>6. ASSUME NEW u \in Units, NEW s \in Offers[u], Join(u, s) \/ Publish(u, s)
      PROVE  /\ remote' \in [Units -> Settings]
             /\ alive' \subseteq members' /\ members' \subseteq Units
             /\ dirty' \subseteq members'
             /\ failed' \in ({"changed", "departed"} \X Units) \cup {NoHook}
             /\ FilesOK'
             /\ DepartedIsGone'
    <2>1. s \in Settings
        BY <1>6, DataAssumption
    <2>2. CASE Join(u, s)
        <3>1. \A w : failed' # <<"departed", w>> \/ w \notin Units
            BY <2>2, UnitAssumption DEF Join
        <3> QED BY <1>1, <1>4, <2>1, <2>2, <3>1 DEF Join, DepartedIsGone
    <2>3. CASE Publish(u, s)
        BY <1>1, <1>4, <2>1, <2>3 DEF Publish, DepartedIsGone
    <2> QED BY <1>6, <2>2, <2>3
<1>7. ASSUME NEW u \in Units, Leave(u)
      PROVE  /\ remote' \in [Units -> Settings]
             /\ alive' \subseteq members' /\ members' \subseteq Units
             /\ dirty' \subseteq members'
             /\ failed' \in ({"changed", "departed"} \X Units) \cup {NoHook}
             /\ FilesOK'
             /\ DepartedIsGone'
    BY <1>1, <1>4, <1>7 DEF Leave, DepartedIsGone
<1>8. ASSUME NEW u \in Units, RelationChanged(u)
      PROVE  /\ remote' \in [Units -> Settings]
             /\ alive' \subseteq members' /\ members' \subseteq Units
             /\ dirty' \subseteq members'
             /\ failed' \in ({"changed", "departed"} \X Units) \cup {NoHook}
             /\ FilesOK'
             /\ DepartedIsGone'
    <2>1. FilesOK'
        BY <1>1, <1>2, <1>3, <1>8, RegenerateType, RaiseType DEF RelationChanged
    <2>2. \A w \in Units : failed' # <<"departed", w>>
        BY <1>8, UnitAssumption DEF RelationChanged
    <2> QED BY <1>1, <1>8, <2>1, <2>2 DEF RelationChanged, env, DepartedIsGone
<1>9. ASSUME NEW u \in Units, RelationDeparted(u)
      PROVE  /\ remote' \in [Units -> Settings]
             /\ alive' \subseteq members' /\ members' \subseteq Units
             /\ dirty' \subseteq members'
             /\ failed' \in ({"changed", "departed"} \X Units) \cup {NoHook}
             /\ FilesOK'
             /\ DepartedIsGone'
    <2>1. FilesOK'
        BY <1>1, <1>2, <1>3, <1>9, RegenerateType, RaiseType DEF RelationDeparted
    <2>2. u \notin alive
        BY <1>1, <1>9 DEF RelationDeparted, DepartedIsGone
    <2>3. failed' \in {NoHook, <<"departed", u>>}
        BY <1>9 DEF RelationDeparted
    <2>4. DepartedIsGone'
        BY <1>9, <2>2, <2>3, UnitAssumption DEF RelationDeparted, DepartedIsGone
    <2>5. remote' \in [Units -> Settings]
        BY <1>1, <1>9 DEF RelationDeparted, Blank, Settings
    <2> QED BY <1>1, <1>9, <2>1, <2>2, <2>3, <2>4, <2>5 DEF RelationDeparted
<1>10. CASE ConfigChanged
    <2>1. FilesOK'
        BY <1>1, <1>2, <1>3, <1>10, RegenerateType, RaiseType DEF ConfigChanged
    <2> QED BY <1>1, <1>10, <2>1 DEF ConfigChanged, DepartedIsGone
<1>11. CASE RewritePeerConfig
    <2>1. FilesOK'
        BY <1>1, <1>2, <1>11, EmptyFiles, RegenerateType, RaiseType
           DEF RewritePeerConfig
    <2> QED BY <1>1, <1>11, <2>1 DEF RewritePeerConfig, DepartedIsGone
<1>12. CASE UpdateStatus
    <2>1. FilesOK'
        BY <1>1, <1>12 DEF UpdateStatus, FilesOK, HostFilesOK, GroupsOK
    <2> QED BY <1>1, <1>12, <2>1 DEF UpdateStatus, env, DepartedIsGone
<1> QED BY <1>5, <1>6, <1>7, <1>8, <1>9, <1>10, <1>11, <1>12
        DEF Next, Environment, RelationHook

\* Every reachable state is well typed; above all every file has an address, a
\* parent that is a host name or none, and monitors that were published.
THEOREM TypeCorrect == Spec => []TypeOK
<1>1. TypeInv => TypeOK
    BY DEF TypeInv
<1> QED BY <1>1, TypeInit, TypeNext, PTL DEF Spec
-----------------------------------------------------------------------------
\* What a run reads depends on the data of the units it asks for alone.
LEMMA ViewOfSame ==
    ASSUME NEW us, \A w \in us : remote'[w] = remote[w]
    PROVE  ViewOf(us)' = ViewOf(us)
<1>1. \A w \in us : Ready(w)' = Ready(w)
    BY DEF Ready, Prepared
<1> QED BY <1>1 DEF ViewOf, Prepared

LEMMA RegenerateNames ==
    ASSUME NEW view, NEW files, NEW groups, Regenerate(view, files, groups)
    PROVE  DOMAIN hostFiles' = Names(view)
BY RegeneratedNames DEF Regenerate

LEMMA FollowNext ==
    TypeInv /\ HostFilesFollowRelations /\ [Next]_vars => HostFilesFollowRelations'
<1> SUFFICES ASSUME TypeInv, HostFilesFollowRelations, [Next]_vars, NothingDue'
             PROVE  DOMAIN hostFiles' = Names(View)'
    BY DEF HostFilesFollowRelations
<1>1. remote \in [Units -> Settings] /\ members \subseteq Units
    BY DEF TypeInv, TypeOK
<1>2. ASSUME UNCHANGED <<remote, members>> PROVE Names(View)' = Names(View)
    <2>1. View' = View
        BY <1>2, ViewOfSame DEF View
    <2> QED BY <2>1 DEF Names, HostName, DedupingRequired, ModelIds
<1>3. ASSUME UNCHANGED <<remote, members, dirty, failed, hostFiles>>
      PROVE  DOMAIN hostFiles' = Names(View)'
    BY <1>2, <1>3 DEF HostFilesFollowRelations, NothingDue
<1>4. CASE UNCHANGED vars
    BY <1>3, <1>4 DEF vars
<1>5. ASSUME NEW u \in Units, NEW s \in Offers[u], Join(u, s) \/ Publish(u, s)
      PROVE  FALSE
    BY <1>5 DEF Join, Publish, NothingDue
<1>6. ASSUME NEW u \in Units, Leave(u) PROVE DOMAIN hostFiles' = Names(View)'
    BY <1>3, <1>6 DEF Leave
<1>7. ASSUME NEW u \in Units, RelationChanged(u)
      PROVE  DOMAIN hostFiles' = Names(View)'
    <2>1. Regenerate(View, HostsUnrelatedTo(remote[u]), GroupsUnrelatedTo(remote[u]))
        BY <1>7, UnitAssumption DEF RelationChanged, NothingDue
    <2>2. UNCHANGED <<remote, members>>
        BY <1>7 DEF RelationChanged, env
    <2> QED BY <1>2, <2>1, <2>2, RegenerateNames
<1>8. ASSUME NEW u \in Units, RelationDeparted(u)
      PROVE  DOMAIN hostFiles' = Names(View)'
    <2>1. /\ Regenerate(ViewOf(members \ {u}), HostsUnrelatedTo(remote[u]),
                        GroupsUnrelatedTo(remote[u]))
          /\ remote' = [remote EXCEPT ![u] = Blank]
          /\ members' = members \ {u}
        BY <1>8, UnitAssumption DEF RelationDeparted, NothingDue
    <2>2. \A w \in members \ {u} : remote'[w] = remote[w]
        BY <1>1, <2>1
    <2>3. View' = ViewOf(members \ {u})
        BY <2>1, <2>2, ViewOfSame DEF View
    <2>4. Names(View)' = Names(ViewOf(members \ {u}))
        BY <2>3 DEF Names, HostName, DedupingRequired, ModelIds
    <2> QED BY <2>1, <2>4, RegenerateNames
<1>9. CASE ConfigChanged
    <2>1. CASE Regenerate(View, HostsUnrelatedTo(Blank), GroupsUnrelatedTo(Blank))
        <3>1. UNCHANGED <<remote, members>>
            BY <1>9 DEF ConfigChanged
        <3> QED BY <1>2, <2>1, <3>1, RegenerateNames
    <2>2. CASE Raise(View, HostsUnrelatedTo(Blank))
        BY <1>3, <1>9, <2>2 DEF ConfigChanged, Raise
    <2> QED BY <1>9, <2>1, <2>2 DEF ConfigChanged
<1>10. CASE RewritePeerConfig
    <2>1. CASE Regenerate(View, << >>, << >>)
        <3>1. UNCHANGED <<remote, members>>
            BY <1>10 DEF RewritePeerConfig
        <3> QED BY <1>2, <2>1, <3>1, RegenerateNames
    <2>2. CASE Raise(View, << >>)
        BY <1>3, <1>10, <2>2 DEF RewritePeerConfig, Raise
    <2> QED BY <1>10, <2>1, <2>2 DEF RewritePeerConfig
<1>11. CASE UpdateStatus
    BY <1>3, <1>11 DEF UpdateStatus, env
<1> QED BY <1>4, <1>5, <1>6, <1>7, <1>8, <1>9, <1>10, <1>11
        DEF Next, Environment, RelationHook

\* With no hook due the host files are those the units ask for, no more and no
\* fewer, whatever the hooks skipped, renamed or failed on before.
THEOREM HostFilesCorrect == Spec => []HostFilesFollowRelations
<1>1. Init => HostFilesFollowRelations
    <2> SUFFICES ASSUME Init PROVE DOMAIN hostFiles = Names(View)
        BY DEF HostFilesFollowRelations
    <2>1. DOMAIN hostFiles = {} /\ members = {}
        BY EmptyFiles DEF Init
    <2>2. DOMAIN View = {}
        BY <2>1 DEF View, ViewOf
    <2> QED BY <2>1, <2>2 DEF Names
<1> QED BY <1>1, TypeInit, TypeNext, FollowNext, PTL DEF Spec

\* In every reachable state the units that share a host share target and model.
THEOREM NamesCorrect == Spec => []NamesTellModelsApart
<1>1. TypeOK => NamesTellModelsApart
    <2> SUFFICES ASSUME TypeOK PROVE NamesTellModelsApart
        OBVIOUS
    <2>1. IsView(View)
        BY ViewOfType, ViewOKIsView DEF TypeOK, View
    <2> QED BY <2>1, HostNameInjective DEF NamesTellModelsApart
<1> QED BY <1>1, TypeCorrect, PTL
-----------------------------------------------------------------------------
\* The duplicates are those of the relation data, when no hook is due, or overwritten.
Tells == \/ reported = DuplicateTargets(View)
         \/ overwritten /\ reported = {}

Reports == NothingDue => Tells

LEMMA ReportsNext == TypeInv /\ Reports /\ [Next]_vars => Reports'
<1> SUFFICES ASSUME TypeInv, Reports, [Next]_vars, NothingDue'
             PROVE  Tells'
    BY DEF Reports
<1>1. remote \in [Units -> Settings] /\ members \subseteq Units
    BY DEF TypeInv, TypeOK
<1>2. ASSUME UNCHANGED <<remote, members>>
      PROVE  DuplicateTargets(View)' = DuplicateTargets(View)
    <2>1. View' = View
        BY <1>2, ViewOfSame DEF View
    <2> QED BY <2>1 DEF DuplicateTargets, DedupingRequired
<1>3. ASSUME UNCHANGED <<remote, members, dirty, failed, reported, overwritten>>
      PROVE  Tells'
    BY <1>2, <1>3 DEF Reports, NothingDue, Tells
<1>4. CASE UNCHANGED vars
    BY <1>3, <1>4 DEF vars
<1>5. ASSUME NEW u \in Units, NEW s \in Offers[u], Join(u, s) \/ Publish(u, s)
      PROVE  FALSE
    BY <1>5 DEF Join, Publish, NothingDue
<1>6. ASSUME NEW u \in Units, Leave(u) PROVE Tells'
    BY <1>3, <1>6 DEF Leave
<1>7. ASSUME NEW u \in Units, RelationChanged(u)
      PROVE  Tells'
    BY <1>2, <1>7 DEF RelationChanged, Regenerate, Raise, env, Tells
<1>8. ASSUME NEW u \in Units, RelationDeparted(u)
      PROVE  Tells'
    <2>1. /\ Regenerate(ViewOf(members \ {u}), HostsUnrelatedTo(remote[u]),
                        GroupsUnrelatedTo(remote[u]))
          /\ remote' = [remote EXCEPT ![u] = Blank]
          /\ members' = members \ {u}
        BY <1>8, UnitAssumption DEF RelationDeparted, NothingDue
    <2>2. \A w \in members \ {u} : remote'[w] = remote[w]
        BY <1>1, <2>1
    <2>3. View' = ViewOf(members \ {u})
        BY <2>1, <2>2, ViewOfSame DEF View
    <2>4. DuplicateTargets(View)' = DuplicateTargets(ViewOf(members \ {u}))
        BY <2>3 DEF DuplicateTargets, DedupingRequired
    <2> QED BY <2>1, <2>4 DEF Regenerate, Tells
<1>9. CASE ConfigChanged \/ RewritePeerConfig
    BY <1>2, <1>9 DEF ConfigChanged, RewritePeerConfig, Regenerate, Raise, Tells
<1>10. CASE UpdateStatus
    BY <1>2, <1>10 DEF UpdateStatus, env, Reports, NothingDue, Tells
<1> QED BY <1>4, <1>5, <1>6, <1>7, <1>8, <1>9, <1>10 DEF Next, Environment, RelationHook

\* The duplicates of a view are the targets of its prefixed names.
LEMMA DuplicatesArePrefixed ==
    ASSUME NEW view, IsView(view)
    PROVE  DuplicateTargets(view) = {n.target : n \in {h \in Names(view) : h.prefix # << >>}}
<1>1. PrefixLength(ModelIds(view)) \in Lengths
    BY PrefixLengthDistinguishes DEF ModelIds, IsView
<1>2. ASSUME NEW u \in DOMAIN view
      PROVE  (HostName(view, u).prefix # << >>)
                <=> (view[u].model # NoModel /\ DedupingRequired(view, u))
    BY <1>1, PrefixNotEmpty DEF HostName, IsView
<1>3. \A u \in DOMAIN view : HostName(view, u).target = view[u].target
    BY DEF HostName
<1> QED BY <1>2, <1>3 DEF DuplicateTargets, Names

\* With no hook due the status tells exactly the targets monitored under prefixed names, or
\* none because there were some and another hook has overwritten it.
THEOREM StatusCorrect == Spec => []StatusMatchesFiles
<1>1. Init => Reports
    <2> SUFFICES ASSUME Init PROVE reported = DuplicateTargets(View)
        BY DEF Reports, Tells
    <2>1. DOMAIN View = {} /\ reported = {}
        BY DEF Init, View, ViewOf
    <2> QED BY <2>1 DEF DuplicateTargets
<1>2. TypeOK /\ HostFilesFollowRelations /\ Reports => StatusMatchesFiles
    <2> SUFFICES ASSUME TypeOK, HostFilesFollowRelations, Reports, NothingDue
                 PROVE  \/ reported = {n.target : n \in {h \in DOMAIN hostFiles :
                                                            h.prefix # << >>}}
                        \/ overwritten /\ reported = {}
        BY DEF StatusMatchesFiles
    <2>1. IsView(View)
        BY ViewOfType, ViewOKIsView DEF TypeOK, View
    <2>2. DOMAIN hostFiles = Names(View) /\ Tells
        BY DEF HostFilesFollowRelations, Reports
    <2> QED BY <2>1, <2>2, DuplicatesArePrefixed DEF Tells
<1> QED BY <1>1, <1>2, TypeInit, TypeNext, ReportsNext, TypeCorrect, HostFilesCorrect, PTL
        DEF Spec
-----------------------------------------------------------------------------
(***************************************************************************)
(* What the files say.  A file that is kept was written by an earlier run, *)
(* from another view; it is still right when the units it was written from *)
(* have not changed, and they have not when none of their hooks is due.    *)
(***************************************************************************)
\* The units whose hooks hold the file of n to be their own.
Concerns(view, n) ==
    {u \in DOMAIN view : view[u].target = n.target /\ Matches(n.prefix, view[u].model)}

\* Those of them that come under the name n, in whichever run it is given.
Meant(view, n) ==
    {u \in Concerns(view, n) :
        IF n.prefix = << >>
        THEN view[u].model = NoModel \/ ~DedupingRequired(view, u)
        ELSE view[u].model # NoModel /\ ShaPrefix(view[u].model, Len(n.prefix)) = n.prefix}

Says(file, view, n) ==
    /\ Meant(view, n) # {}
    /\ file.address = view[Last(Meant(view, n))].address
    /\ file.services = {view[u].monitors : u \in Meant(view, n)} \ {NoServices}

\* A hook that is due, or waits to be retried, will remove the file of n.
Pending(n) == \E u \in Units : /\ u \in dirty \/ failed = <<"departed", u>>
                               /\ RelatedHost(remote[u], n)

\* Every file says what the units of its name have published, unless one is pending.
Current == \A n \in DOMAIN hostFiles : ~Pending(n) => Says(hostFiles[n], View, n)

Announced == \A u \in members : remote[u] \in Offers[u]

\* A prefixed name has the pattern of its model.
LEMMA NameMatches ==
    ASSUME NEW view, IsView(view), NEW u \in DOMAIN view
    PROVE  Matches(HostName(view, u).prefix, view[u].model)
<1> DEFINE m == view[u].model
           i == PrefixLength(ModelIds(view))
<1>1. i \in Lengths
    BY PrefixLengthDistinguishes DEF ModelIds, IsView
<1>2. CASE HostName(view, u).prefix = << >>
    BY <1>2 DEF Matches
<1>3. CASE HostName(view, u).prefix # << >>
    <2>1. m \in Models /\ HostName(view, u).prefix = ShaPrefix(m, i)
        BY <1>3 DEF HostName, IsView
    <2>2. Sha[m] \in Seq(HexDigits) /\ Len(Sha[m]) = HOST_PREFIX_MAX_LENGTH
        BY <2>1, ShaAssumption
    <2>3. /\ i \in Nat /\ HOST_PREFIX_MIN_LENGTH <= i /\ i <= HOST_PREFIX_MAX_LENGTH
          /\ HOST_PREFIX_MIN_LENGTH \in Nat \ {0}
        BY <1>1, LengthAssumption DEF Lengths
    <2>4. /\ Len(ShaPrefix(m, i)) = i
          /\ SubSeq(ShaPrefix(m, i), 1, HOST_PREFIX_MIN_LENGTH)
               = ShaPrefix(m, HOST_PREFIX_MIN_LENGTH)
        BY <2>2, <2>3 DEF ShaPrefix
    <2> QED BY <2>1, <2>3, <2>4, ModelAssumption DEF Matches
<1> QED BY <1>2, <1>3

\* The units that a run gives a name are those that are meant by it.
LEMMA MeantAreNamed ==
    ASSUME NEW view, IsView(view), NEW n \in Names(view)
    PROVE  {u \in DOMAIN view : HostName(view, u) = n} = Meant(view, n)
<1> DEFINE i == PrefixLength(ModelIds(view))
<1>1. PICK w \in DOMAIN view : HostName(view, w) = n
    BY DEF Names
<1>2. i \in Lengths /\ Distinguishes(i, ModelIds(view))
    BY PrefixLengthDistinguishes DEF ModelIds, IsView
<1>3. ASSUME NEW m \in Models PROVE ShaPrefix(m, i) # << >> /\ Len(ShaPrefix(m, i)) = i
    <2>1. Sha[m] \in Seq(HexDigits) /\ Len(Sha[m]) = HOST_PREFIX_MAX_LENGTH
        BY ShaAssumption
    <2>2. i \in Nat /\ 1 <= i /\ i <= HOST_PREFIX_MAX_LENGTH
        BY <1>2, LengthAssumption DEF Lengths
    <2> QED BY <1>2, <2>1, <2>2, PrefixNotEmpty DEF ShaPrefix
<1>4. ASSUME NEW u \in DOMAIN view, HostName(view, u) = n PROVE u \in Meant(view, n)
    <2>1. u \in Concerns(view, n)
        BY <1>4, NameMatches DEF Concerns, HostName
    <2>2. CASE n.prefix = << >>
        BY <1>3, <1>4, <2>1, <2>2 DEF Meant, HostName, IsView
    <2>3. CASE n.prefix # << >>
        BY <1>3, <1>4, <2>1, <2>3 DEF Meant, HostName, IsView
    <2> QED BY <2>2, <2>3
<1>5. ASSUME NEW u \in Meant(view, n) PROVE HostName(view, u) = n
    <2>1. u \in DOMAIN view /\ view[u].target = n.target /\ view[w].target = n.target
        BY <1>1, <1>5 DEF Meant, Concerns, HostName
    <2>2. CASE n.prefix = << >>
        BY <1>1, <1>5, <2>1, <2>2 DEF Meant, HostName
    <2>3. CASE n.prefix # << >>
        <3>1. /\ view[w].model \in Models /\ DedupingRequired(view, w)
              /\ n.prefix = ShaPrefix(view[w].model, i)
            BY <1>1, <2>3 DEF HostName, IsView
        <3>2. view[u].model # NoModel /\ ShaPrefix(view[u].model, i) = n.prefix
            BY <1>3, <1>5, <2>3, <3>1 DEF Meant
        <3>3. view[u].model = view[w].model
            BY <1>2, <2>1, <3>1, <3>2, ModelAssumption DEF Distinguishes, ModelIds
        <3>4. DedupingRequired(view, u)
            BY <2>1, <3>1, <3>3 DEF DedupingRequired
        <3> QED BY <1>1, <2>1, <3>3, <3>2, <3>4, <3>1 DEF HostName
    <2> QED BY <2>2, <2>3
<1> QED BY <1>4, <1>5 DEF Meant, Concerns

\* What a file says hangs on the units it concerns alone.
LEMMA SaysTheSame ==
    ASSUME NEW v, ViewOK(v), NEW w, NEW n, NEW file, Says(file, v, n),
           Concerns(w, n) = Concerns(v, n), \A u \in Concerns(v, n) : w[u] = v[u]
    PROVE  Says(file, w, n)
<1>1. ASSUME n.prefix = << >>, NEW u \in Concerns(v, n)
      PROVE  DedupingRequired(w, u) <=> DedupingRequired(v, u)
    BY <1>1 DEF Concerns, DedupingRequired, Matches
<1>2. Meant(w, n) = Meant(v, n)
    BY <1>1 DEF Meant
<1>3. Meant(v, n) \subseteq Concerns(v, n) /\ Meant(v, n) \subseteq Units
    BY DEF Meant, Concerns, ViewOK
<1>4. Last(Meant(v, n)) \in Meant(v, n)
    BY <1>3, LastType DEF Says
<1> QED BY <1>2, <1>3, <1>4 DEF Says

\* A file that a run has written says what the run has read.
LEMMA WrittenSays ==
    ASSUME NEW view, ViewOK(view), NEW n \in Names(view)
    PROVE  Says(Written(view, n), view, n)
<1>1. {u \in DOMAIN view : HostName(view, u) = n} = Meant(view, n)
    BY ViewOKIsView, MeantAreNamed
<1>2. Meant(view, n) # {}
    BY <1>1 DEF Names
<1> QED BY <1>1, <1>2 DEF Written, Says

\* A run keeps the files it has not removed as they are, and writes the others.
LEMMA RegeneratedFiles ==
    ASSUME NEW view, NEW files, NEW groups, Regenerate(view, files, groups),
           NEW n \in DOMAIN hostFiles'
    PROVE  /\ n \in Names(view)
           /\ hostFiles'[n] = IF n \in DOMAIN files THEN files[n] ELSE Written(view, n)
<1> DEFINE applied == ApplyRelationConfig(view, files)
<1>1. hostFiles' = [x \in DOMAIN applied \ (DOMAIN applied \ Names(view)) |-> applied[x]]
    <2>1. hostFiles' = Restrict(applied, DOMAIN applied \ (DOMAIN applied \ Names(view)))
        BY DEF Regenerate, CleanupLeftoverHosts, Without
    <2> HIDE DEF applied
    <2> QED BY <2>1 DEF Restrict
<1>2. n \in DOMAIN applied /\ n \in Names(view) /\ hostFiles'[n] = applied[n]
    <2> HIDE DEF applied
    <2> QED BY <1>1
<1> QED BY <1>2 DEF ApplyRelationConfig

LEMMA KeptFiles ==
    ASSUME NEW raw
    PROVE  /\ DOMAIN HostsUnrelatedTo(raw) = {n \in DOMAIN hostFiles : ~RelatedHost(raw, n)}
           /\ \A n \in DOMAIN HostsUnrelatedTo(raw) : HostsUnrelatedTo(raw)[n] = hostFiles[n]
BY DEF HostsUnrelatedTo, Without, Restrict

\* What a unit that announces its target itself publishes is read as its target and model.
LEMMA OwnIdentity ==
    ASSUME OwnFilesFound, NEW u, NEW raw \in Settings
    PROVE  Prepared(u, raw).target = raw.target /\ Prepared(u, raw).model = raw.model
BY DEF OwnFilesFound, Prepared, Settings

\* What a unit publishes as a member is in the view as it is, and its hook finds its file.
LEMMA ReadIsRemote ==
    ASSUME OwnFilesFound, TypeInv, Announced,
           NEW us \in SUBSET members, NEW u \in DOMAIN ViewOf(us)
    PROVE  /\ u \in us /\ u \in Units
           /\ ViewOf(us)[u] = Prepared(u, remote[u])
           /\ ViewOf(us)[u].target = remote[u].target /\ ViewOf(us)[u].model = remote[u].model
           /\ remote[u].target # NoTarget /\ remote[u].target \in Targets
           /\ {remote[u].target, AppOf[remote[u].target]} \cap Escaped = {}
<1>1. u \in us /\ u \in Units /\ Ready(u) /\ ViewOf(us)[u] = Prepared(u, remote[u])
    BY DEF ViewOf, TypeInv, TypeOK
<1>2. remote[u] \in Settings
    BY <1>1 DEF TypeInv, TypeOK
<1>3. /\ Prepared(u, remote[u]).target = remote[u].target
      /\ Prepared(u, remote[u]).model = remote[u].model
    BY <1>2, OwnIdentity
<1>4. remote[u].target # NoTarget /\ remote[u].target \in Targets
    BY <1>1, <1>2, <1>3 DEF Ready, Settings
<1>5. remote[u] \in Offers[u]
    BY <1>1 DEF Announced
<1> QED BY <1>1, <1>3, <1>4, <1>5 DEF OwnFilesFound

LEMMA ConcernedIsRelated ==
    ASSUME OwnFilesFound, TypeInv, Announced, NEW us \in SUBSET members, NEW n,
           NEW u \in Concerns(ViewOf(us), n)
    PROVE  u \in us /\ RelatedHost(remote[u], n)
<1>1. u \in DOMAIN ViewOf(us)
    BY DEF Concerns
<1> QED BY <1>1, ReadIsRemote DEF Concerns, RelatedHost

LEMMA AnnouncedNext == TypeInv /\ Announced /\ [Next]_vars => Announced'
<1> SUFFICES ASSUME TypeInv, Announced, [Next]_vars PROVE Announced'
    OBVIOUS
<1>1. /\ remote \in [Units -> Settings] /\ alive \subseteq members /\ members \subseteq Units
    BY DEF TypeInv, TypeOK
<1>2. ASSUME NEW u \in Units, NEW s \in Offers[u], Join(u, s) \/ Publish(u, s) PROVE Announced'
    BY <1>1, <1>2 DEF Join, Publish, Announced
<1>3. ASSUME NEW u \in Units, RelationDeparted(u) PROVE Announced'
    BY <1>1, <1>3 DEF RelationDeparted, Announced
<1>4. ASSUME UNCHANGED <<remote, members>> PROVE Announced'
    BY <1>4 DEF Announced
<1>5. ASSUME NEW u \in Units, Leave(u) \/ RelationChanged(u) PROVE Announced'
    BY <1>4, <1>5 DEF Leave, RelationChanged, env
<1>6. CASE ConfigChanged \/ UpdateStatus \/ RewritePeerConfig \/ UNCHANGED vars
    BY <1>4, <1>6 DEF ConfigChanged, UpdateStatus, env, RewritePeerConfig, vars
<1> QED BY <1>2, <1>3, <1>5, <1>6 DEF Next, Environment, RelationHook

\* A file that a step leaves alone goes on saying what it should, when the units it
\* concerns are those that it concerned.
LEMMA KeptSays ==
    ASSUME TypeInv, Current, NEW n \in DOMAIN hostFiles, ~Pending(n), NEW view,
           Concerns(view, n) = Concerns(View, n), \A u \in Concerns(View, n) : view[u] = View[u]
    PROVE  Says(hostFiles[n], view, n)
<1>1. ViewOK(View)
    BY ViewOfType DEF TypeInv, TypeOK, View
<1> QED BY <1>1, SaysTheSame DEF Current

\* A run that removes what is related to u and reads the units us leaves every file right
\* that no other hook is to remove.
LEMMA RunSays ==
    ASSUME OwnFilesFound, TypeInv, Announced, Current, NEW us \in SUBSET members,
           NEW raw, NEW groups, Regenerate(ViewOf(us), HostsUnrelatedTo(raw), groups),
           NEW n \in DOMAIN hostFiles',
           RelatedHost(raw, n) \/ ~Pending(n),
           ~RelatedHost(raw, n) => \A u \in members \ us : ~RelatedHost(remote[u], n)
    PROVE  Says(hostFiles'[n], ViewOf(us), n)
<1>1. ViewOK(ViewOf(us))
    BY ViewOfType DEF TypeInv, TypeOK
<1>2. /\ n \in Names(ViewOf(us))
      /\ hostFiles'[n] = IF n \in DOMAIN HostsUnrelatedTo(raw) THEN HostsUnrelatedTo(raw)[n]
                         ELSE Written(ViewOf(us), n)
    BY RegeneratedFiles
<1>3. CASE n \notin DOMAIN HostsUnrelatedTo(raw)
    BY <1>1, <1>2, <1>3, WrittenSays
<1>4. CASE n \in DOMAIN HostsUnrelatedTo(raw)
    <2>1. n \in DOMAIN hostFiles /\ ~RelatedHost(raw, n) /\ hostFiles'[n] = hostFiles[n]
        BY <1>2, <1>4, KeptFiles
    <2>2. /\ DOMAIN ViewOf(us) = DOMAIN View \cap us
          /\ \A u \in DOMAIN ViewOf(us) : ViewOf(us)[u] = View[u]
        BY DEF View, ViewOf
    <2>3. Concerns(View, n) \subseteq us
        BY <2>1, ConcernedIsRelated DEF View
    <2>4. Concerns(ViewOf(us), n) = Concerns(View, n)
        BY <2>2, <2>3 DEF Concerns
    <2> QED BY <2>1, <2>2, <2>4, KeptSays DEF Concerns
<1> QED BY <1>3, <1>4

LEMMA CurrentNext ==
    ASSUME OwnFilesFound, TypeInv, Announced, Current, [Next]_vars, [KeepsIdentity]_vars
    PROVE  Current'
<1> SUFFICES ASSUME NEW n \in DOMAIN hostFiles', ~Pending(n)'
             PROVE  Says(hostFiles'[n], View', n)
    BY DEF Current, Says, Meant, Concerns, Last, DedupingRequired
<1>1. /\ remote \in [Units -> Settings] /\ alive \subseteq members /\ members \subseteq Units
      /\ dirty \subseteq members /\ DepartedIsGone
    BY DEF TypeInv, TypeOK
<1>2. ASSUME UNCHANGED <<remote, members>> PROVE View' = View
    BY <1>2, ViewOfSame DEF View
<1>3. ASSUME UNCHANGED <<remote, members, dirty, failed, hostFiles>>
      PROVE  Says(hostFiles'[n], View', n)
    <2>1. ~Pending(n)
        BY <1>3 DEF Pending
    <2> QED BY <1>2, <1>3, <2>1, KeptSays
<1>4. CASE UNCHANGED vars \/ UpdateStatus \/ \E u \in Units : Leave(u)
    BY <1>3, <1>4 DEF vars, UpdateStatus, env, Leave
<1>5. ASSUME NEW u \in Units, NEW s \in Offers[u], Join(u, s) \/ Publish(u, s)
      PROVE  Says(hostFiles'[n], View', n)
    <2>1. /\ u \in dirty' /\ dirty' = dirty \cup {u} /\ UNCHANGED <<failed, hostFiles>>
          /\ members' = members \cup {u} /\ remote' = [remote EXCEPT ![u] = s]
          /\ u \notin members \/ (u \in alive /\ KeepsIdentity)
        BY <1>1, <1>5 DEF Join, Publish, vars
    <2>2. ~RelatedHost(remote'[u], n)
        BY <2>1 DEF Pending
    <2>3. u \in members => ~RelatedHost(remote[u], n)
        BY <1>1, <2>1, <2>2 DEF KeepsIdentity, RelatedHost
    <2>4. \A w \in Units \ {u} : remote'[w] = remote[w]
        BY <1>1, <2>1
    <2>5. ~Pending(n)
        <3> SUFFICES ASSUME NEW w \in Units, w \in dirty \/ failed = <<"departed", w>>,
                            RelatedHost(remote[w], n)
                     PROVE  FALSE
            BY DEF Pending
        <3>1. CASE w # u
            BY <2>1, <2>4, <3>1 DEF Pending
        <3>2. CASE w = u
            <4>1. u \notin members
                BY <2>3, <3>2
            <4>2. failed = <<"departed", u>> /\ Join(u, s)
                BY <1>1, <1>5, <3>2, <4>1 DEF Publish
            <4> QED BY <4>2, UnitAssumption DEF Join
        <3> QED BY <3>1, <3>2
    <2>6. /\ DOMAIN View' \ {u} = DOMAIN View \ {u}
          /\ \A w \in DOMAIN View \ {u} : View'[w] = View[w]
        <3>1. \A w \in Units \ {u} : /\ Prepared(w, remote[w])' = Prepared(w, remote[w])
                                     /\ Ready(w)' <=> Ready(w)
            BY <2>4 DEF Ready, Prepared
        <3> QED BY <1>1, <2>1, <3>1 DEF View, ViewOf
    <2>7. u \notin Concerns(View, n)
        BY <2>3, ConcernedIsRelated DEF View
    <2>8. u \notin Concerns(View', n)
        <3> SUFFICES ASSUME u \in Concerns(View', n) PROVE FALSE
            OBVIOUS
        <3>1. Prepared(u, s).target # NoTarget /\ View'[u] = Prepared(u, s) /\ s \in Settings
            BY <1>1, <2>1, DataAssumption DEF Concerns, View, ViewOf, Ready
        <3>2. View'[u].target = s.target /\ View'[u].model = s.model /\ s.target # NoTarget
            BY <3>1, OwnIdentity
        <3> QED BY <1>1, <2>1, <2>2, <3>2 DEF Concerns, RelatedHost, OwnFilesFound
    <2>9. Concerns(View', n) = Concerns(View, n)
        BY <2>6, <2>7, <2>8 DEF Concerns
    <2>10. \A w \in Concerns(View, n) : View'[w] = View[w]
        BY <2>6, <2>7 DEF Concerns
    <2> QED BY <2>1, <2>5, <2>9, <2>10, KeptSays
<1>6. ASSUME NEW u \in Units, RelationChanged(u) PROVE Says(hostFiles'[n], View', n)
    <2>1. UNCHANGED <<remote, members>> /\ View' = View
        BY <1>2, <1>6 DEF RelationChanged, env
    <2>2. failed \in {NoHook, <<"changed", u>>} /\ \A w \in Units : failed # <<"departed", w>>
        BY <1>6, UnitAssumption DEF RelationChanged
    <2>3. CASE /\ Regenerate(View, HostsUnrelatedTo(remote[u]), GroupsUnrelatedTo(remote[u]))
               /\ dirty' = dirty \ {u}
        <3>1. RelatedHost(remote[u], n) \/ ~Pending(n)
            BY <2>1, <2>2, <2>3 DEF Pending
        <3> QED BY <2>1, <2>3, <3>1, RunSays DEF View
    <2>4. CASE Raise(View, HostsUnrelatedTo(remote[u])) /\ UNCHANGED dirty
        <3>1. ~Pending(n)
            BY <2>1, <2>2, <2>4 DEF Pending
        <3> QED BY <2>1, <2>4, <3>1, KeptSays DEF Raise
    <2> QED BY <1>6, <2>3, <2>4 DEF RelationChanged
<1>7. ASSUME NEW u \in Units, RelationDeparted(u) PROVE Says(hostFiles'[n], View', n)
    <2> DEFINE us == members \ {u}
    <2>1. /\ members' = us /\ dirty' = dirty \ {u} /\ us \in SUBSET members
          /\ \A w \in Units : failed = <<"departed", w>> => w = u
        BY <1>7, UnitAssumption DEF RelationDeparted
    <2>2. \A w \in Units \ {u} : remote'[w] = remote[w]
        BY <1>1, <1>7 DEF RelationDeparted
    <2>3. View' = ViewOf(us)
        BY <1>1, <2>1, <2>2, ViewOfSame DEF View
    <2>4. RelatedHost(remote[u], n) \/ ~Pending(n)
        BY <2>1, <2>2 DEF Pending
    <2>5. CASE Regenerate(ViewOf(us), HostsUnrelatedTo(remote[u]), GroupsUnrelatedTo(remote[u]))
        BY <2>1, <2>3, <2>4, <2>5, RunSays
    <2>6. CASE /\ Raise(ViewOf(us), HostsUnrelatedTo(remote[u]))
               /\ failed' = <<"departed", u>> /\ UNCHANGED remote
        <3>1. ~RelatedHost(remote[u], n)
            BY <2>6 DEF Pending
        <3>2. ~Pending(n) /\ UNCHANGED hostFiles
            BY <2>4, <2>6, <3>1 DEF Raise
        <3>3. /\ DOMAIN ViewOf(us) = DOMAIN View \cap us
              /\ \A w \in DOMAIN ViewOf(us) : ViewOf(us)[w] = View[w]
            BY DEF View, ViewOf
        <3>4. Concerns(View, n) \subseteq us
            BY <3>1, ConcernedIsRelated DEF View
        <3>5. Concerns(View', n) = Concerns(View, n)
            BY <2>3, <3>3, <3>4 DEF Concerns
        <3>6. \A w \in Concerns(View, n) : View'[w] = View[w]
            BY <2>3, <3>3, <3>5 DEF Concerns
        <3> QED BY <3>2, <3>5, <3>6, KeptSays
    <2> QED BY <1>7, <2>5, <2>6 DEF RelationDeparted
<1>8. CASE ConfigChanged
    <2>1. UNCHANGED <<remote, members, dirty, failed>> /\ View' = View /\ ~Pending(n)
        BY <1>2, <1>8 DEF ConfigChanged, Pending
    <2>2. CASE Regenerate(View, HostsUnrelatedTo(Blank), GroupsUnrelatedTo(Blank))
        BY <2>1, <2>2, RunSays DEF View
    <2>3. CASE Raise(View, HostsUnrelatedTo(Blank))
        BY <1>3, <2>1, <2>3 DEF Raise
    <2> QED BY <1>8, <2>2, <2>3 DEF ConfigChanged
<1>9. CASE RewritePeerConfig
    <2>1. UNCHANGED <<remote, members, dirty, failed>> /\ View' = View
        BY <1>2, <1>9 DEF RewritePeerConfig
    <2>2. CASE Regenerate(View, << >>, << >>)
        <3>1. n \in Names(View) /\ hostFiles'[n] = Written(View, n)
            BY <2>2, RegeneratedFiles, EmptyFiles
        <3>2. ViewOK(View)
            BY <1>1, ViewOfType DEF View
        <3> QED BY <2>1, <3>1, <3>2, WrittenSays
    <2>3. CASE Raise(View, << >>)
        BY <1>3, <2>1, <2>3 DEF Raise
    <2> QED BY <1>9, <2>2, <2>3 DEF RewritePeerConfig
<1> QED BY <1>4, <1>5, <1>6, <1>7, <1>8, <1>9 DEF Next, Environment, RelationHook

\* A file says what the units of its name have published last, unless the hook of one of
\* them is due: for units that keep what they announce, and whose files their hooks find.
THEOREM ContentsFollow ==
    ASSUME OwnFilesFound
    PROVE  Spec /\ [][KeepsIdentity]_vars => []ContentsFollowRelations
<1>1. Init => Announced /\ Current
    BY EmptyFiles DEF Init, Announced, Current
<1>2. TypeInv /\ Current => ContentsFollowRelations
    <2> SUFFICES ASSUME TypeInv, Current, failed = NoHook,
                        NEW n \in DOMAIN hostFiles \cap Names(View), DueFor(n) = {}
                 PROVE  /\ hostFiles[n].address = Written(View, n).address
                        /\ hostFiles[n].services = Written(View, n).services
        BY DEF ContentsFollowRelations
    <2>1. ~Pending(n)
        BY UnitAssumption DEF Pending, DueFor
    <2>2. ViewOK(View)
        BY ViewOfType DEF TypeInv, TypeOK, View
    <2>3. {u \in DOMAIN View : HostName(View, u) = n} = Meant(View, n)
        BY <2>2, ViewOKIsView, MeantAreNamed
    <2> QED BY <2>1, <2>3 DEF Current, Says, Written
<1> QED BY <1>1, <1>2, TypeInit, TypeNext, AnnouncedNext, CurrentNext, PTL DEF Spec
-----------------------------------------------------------------------------
(***************************************************************************)
(* The groups, where the targets with an application are announced by one  *)
(* model each, and hosts of groups have no prefix therefore.               *)
(***************************************************************************)
\* The units of the application of g.
OfApp(view, g) == {u \in DOMAIN view : AppOf[view[u].target] = g.app}

GroupPending(g) == \E u \in Units : /\ u \in dirty \/ failed = <<"departed", u>>
                                    /\ RelatedGroup(remote[u], g)

\* The group's file, if there is one, lists these hosts, and there is one if there are any.
Lists(groups, g, hosts) == /\ hosts # {} => g \in DOMAIN groups
                           /\ g \in DOMAIN groups => groups[g] = hosts

\* Names with a group are plain; and the hosts of a group, which are those of the view,
\* are in its file, unless a hook is pending that will remove it.
GroupsCurrent ==
    /\ \A n \in DOMAIN hostFiles : HasGroup(n) => n.prefix = << >>
    /\ \A g \in DOMAIN hostgroups : g.prefix = << >>
    /\ \A g \in GroupNames : g.prefix = << >> /\ ~GroupPending(g) =>
          /\ HostsOfGroup(g, DOMAIN hostFiles) = HostsOfGroup(g, Names(View))
          /\ Lists(hostgroups, g, HostsOfGroup(g, DOMAIN hostFiles))

\* A view in which a target with an application is announced by one model.
PlainView(view) ==
    /\ IsView(view)
    /\ \A u, w \in DOMAIN view :
          view[u].target = view[w].target /\ AppOf[view[u].target] # NoApp
            => view[u].model = view[w].model

LEMMA ReadIsPlain ==
    ASSUME OwnFilesFound, TypeInv, Announced, GroupsOfOneModel, NEW us \in SUBSET members
    PROVE  PlainView(ViewOf(us))
<1>1. IsView(ViewOf(us))
    BY ViewOfType, ViewOKIsView DEF TypeInv, TypeOK
<1>2. \A u \in DOMAIN ViewOf(us) :
        /\ u \in members /\ remote[u].target # NoTarget
        /\ ViewOf(us)[u].target = remote[u].target /\ ViewOf(us)[u].model = remote[u].model
    BY ReadIsRemote
<1> QED BY <1>1, <1>2 DEF PlainView, GroupsOfOneModel

\* The hosts of a group in such a view are the plain names of its units.
LEMMA HostsArePlain ==
    ASSUME NEW view, PlainView(view)
    PROVE  /\ \A n \in Names(view) : HasGroup(n) => n.prefix = << >>
           /\ \A g \in GroupNames : g.prefix = << >> =>
                HostsOfGroup(g, Names(view))
                  = {[prefix |-> << >>, target |-> view[u].target] : u \in OfApp(view, g)}
<1>1. ASSUME NEW u \in DOMAIN view, AppOf[view[u].target] # NoApp
      PROVE  HostName(view, u) = [prefix |-> << >>, target |-> view[u].target]
    BY <1>1 DEF HostName, DedupingRequired, PlainView
<1>2. \A n \in Names(view) :
        \E u \in DOMAIN view : n = HostName(view, u) /\ n.target = view[u].target
    BY DEF Names, HostName
<1>3. \A n \in Names(view) : HasGroup(n) => n.prefix = << >>
    BY <1>1, <1>2 DEF HasGroup
<1>4. ASSUME NEW g \in GroupNames, g.prefix = << >>
      PROVE  HostsOfGroup(g, Names(view))
               = {[prefix |-> << >>, target |-> view[u].target] : u \in OfApp(view, g)}
    <2>1. g = [prefix |-> << >>, app |-> g.app] /\ g.app # NoApp
        BY <1>4, AppAssumption DEF GroupNames
    <2>2. ASSUME NEW n \in HostsOfGroup(g, Names(view))
          PROVE  \E u \in OfApp(view, g) : n = [prefix |-> << >>, target |-> view[u].target]
        <3>1. n \in Names(view) /\ HasGroup(n) /\ g.app = AppOf[n.target]
            BY <2>1, <2>2 DEF HostsOfGroup, GroupOf
        <3> QED BY <1>1, <1>2, <3>1 DEF HasGroup, OfApp
    <2>3. ASSUME NEW u \in OfApp(view, g)
          PROVE  [prefix |-> << >>, target |-> view[u].target] \in HostsOfGroup(g, Names(view))
        <3>1. u \in DOMAIN view /\ AppOf[view[u].target] = g.app
            BY <2>3 DEF OfApp
        <3>2. [prefix |-> << >>, target |-> view[u].target] \in Names(view)
            BY <1>1, <2>1, <3>1 DEF Names
        <3> QED BY <2>1, <3>1, <3>2 DEF HostsOfGroup, HasGroup, GroupOf
    <2> QED BY <2>2, <2>3
<1> QED BY <1>3, <1>4

\* Units of a group's application that are members are those that relate to it.
LEMMA AppIsRelated ==
    ASSUME OwnFilesFound, TypeInv, Announced, NEW us \in SUBSET members,
           NEW g \in GroupNames, g.prefix = << >>, NEW u \in OfApp(ViewOf(us), g)
    PROVE  u \in us /\ RelatedGroup(remote[u], g)
<1>1. u \in DOMAIN ViewOf(us) /\ AppOf[ViewOf(us)[u].target] = g.app
    BY DEF OfApp
<1>2. g.app \in Apps
    BY DEF GroupNames
<1> QED BY <1>1, <1>2, ReadIsRemote, AppAssumption DEF RelatedGroup, Matches

\* Views with the same units of its application give a group the same hosts.
LEMMA SameHosts ==
    ASSUME NEW v, PlainView(v), NEW w, PlainView(w), NEW g \in GroupNames, g.prefix = << >>,
           OfApp(w, g) = OfApp(v, g), \A u \in OfApp(v, g) : w[u].target = v[u].target
    PROVE  HostsOfGroup(g, Names(w)) = HostsOfGroup(g, Names(v))
<1>1. /\ HostsOfGroup(g, Names(v))
           = {[prefix |-> << >>, target |-> v[u].target] : u \in OfApp(v, g)}
      /\ HostsOfGroup(g, Names(w))
           = {[prefix |-> << >>, target |-> w[u].target] : u \in OfApp(w, g)}
    BY HostsArePlain
<1> QED BY <1>1

\* So does a part of the members, when none of the others relates to the group.
LEMMA SameHostsInPart ==
    ASSUME OwnFilesFound, TypeInv, Announced, GroupsOfOneModel, NEW us \in SUBSET members,
           NEW g \in GroupNames, g.prefix = << >>,
           \A u \in members \ us : ~RelatedGroup(remote[u], g)
    PROVE  HostsOfGroup(g, Names(ViewOf(us))) = HostsOfGroup(g, Names(View))
<1>1. OfApp(View, g) \subseteq us
    BY AppIsRelated DEF View
<1>2. /\ DOMAIN ViewOf(us) = DOMAIN View \cap us
      /\ \A u \in DOMAIN ViewOf(us) : ViewOf(us)[u] = View[u]
    BY DEF View, ViewOf
<1>3. OfApp(ViewOf(us), g) = OfApp(View, g)
    BY <1>1, <1>2 DEF OfApp
<1>4. \A u \in OfApp(View, g) : ViewOf(us)[u].target = View[u].target
    BY <1>2, <1>3 DEF OfApp
<1> QED BY <1>3, <1>4, ReadIsPlain, SameHosts DEF View

\* refresh_hostgroups on a group whose file, if it is kept, lists the hosts there are.
LEMMA RefreshedLists ==
    ASSUME NEW groups, NEW hosts, NEW g, NEW emptied \in SUBSET DeletedGroups(groups, hosts),
           g \in DOMAIN groups => groups[g] = HostsOfGroup(g, hosts)
    PROVE  Lists(RefreshHostgroups(groups, hosts, emptied), g, HostsOfGroup(g, hosts))
<1> DEFINE deleted == DeletedGroups(groups, hosts)
           refreshed == RefreshHostgroups(groups, hosts, emptied)
<1>1. g \in WantedGroups(hosts) <=> HostsOfGroup(g, hosts) # {}
    BY DEF WantedGroups, HostsOfGroup
<1>2. g \notin deleted
    BY <1>1 DEF DeletedGroups
<1>3. /\ DOMAIN refreshed = (DOMAIN groups \ deleted) \cup emptied \cup WantedGroups(hosts)
      /\ g \in DOMAIN refreshed =>
            refreshed[g] = IF g \in DOMAIN groups THEN groups[g] ELSE HostsOfGroup(g, hosts)
    BY <1>2 DEF RefreshHostgroups
<1> QED BY <1>1, <1>2, <1>3 DEF Lists

\* The groups that a run writes are as plain as its hosts.
LEMMA RefreshedPlain ==
    ASSUME NEW groups, NEW hosts, NEW emptied \in SUBSET DeletedGroups(groups, hosts),
           \A g \in DOMAIN groups : g.prefix = << >>,
           \A n \in hosts : HasGroup(n) => n.prefix = << >>
    PROVE  \A g \in DOMAIN RefreshHostgroups(groups, hosts, emptied) : g.prefix = << >>
<1>1. \A g \in WantedGroups(hosts) : g.prefix = << >>
    BY DEF WantedGroups, GroupOf
<1>2. DOMAIN RefreshHostgroups(groups, hosts, emptied)
        \subseteq DOMAIN groups \cup WantedGroups(hosts)
    BY DEF RefreshHostgroups, DeletedGroups
<1> QED BY <1>1, <1>2

LEMMA KeptGroups ==
    ASSUME NEW raw
    PROVE  /\ DOMAIN GroupsUnrelatedTo(raw) = {g \in DOMAIN hostgroups : ~RelatedGroup(raw, g)}
           /\ \A g \in DOMAIN GroupsUnrelatedTo(raw) : GroupsUnrelatedTo(raw)[g] = hostgroups[g]
BY DEF GroupsUnrelatedTo, Without, Restrict

\* What a run leaves, that kept these groups and read the units us.
LEMMA RunLists ==
    ASSUME OwnFilesFound, TypeInv, Announced, GroupsOfOneModel, NEW us \in SUBSET members,
           NEW files, NEW groups, Regenerate(ViewOf(us), files, groups),
           \A g \in DOMAIN groups : g.prefix = << >>
    PROVE  /\ \A n \in DOMAIN hostFiles' : HasGroup(n) => n.prefix = << >>
           /\ \A g \in DOMAIN hostgroups' : g.prefix = << >>
           /\ DOMAIN hostFiles' = Names(ViewOf(us))
           /\ \A g : (g \in DOMAIN groups => groups[g] = HostsOfGroup(g, Names(ViewOf(us))))
                        => Lists(hostgroups', g, HostsOfGroup(g, DOMAIN hostFiles'))
<1>1. DOMAIN hostFiles' = Names(ViewOf(us))
    BY RegenerateNames
<1>2. \A n \in DOMAIN hostFiles' : HasGroup(n) => n.prefix = << >>
    BY <1>1, ReadIsPlain, HostsArePlain
<1>3. PICK emptied \in SUBSET DeletedGroups(groups, DOMAIN hostFiles') :
          hostgroups' = RefreshHostgroups(groups, DOMAIN hostFiles', emptied)
    BY DEF Regenerate
<1>4. \A g \in DOMAIN hostgroups' : g.prefix = << >>
    BY <1>2, <1>3, RefreshedPlain
<1>5. ASSUME NEW g, g \in DOMAIN groups => groups[g] = HostsOfGroup(g, Names(ViewOf(us)))
      PROVE  Lists(hostgroups', g, HostsOfGroup(g, DOMAIN hostFiles'))
    BY <1>1, <1>3, <1>5, RefreshedLists
<1> QED BY <1>1, <1>2, <1>4, <1>5

\* A run for a unit leaves a group right that no other hook is to remove.
LEMMA RunGroups ==
    ASSUME OwnFilesFound, TypeInv, Announced, GroupsOfOneModel, GroupsCurrent,
           NEW us \in SUBSET members, NEW raw, NEW files,
           Regenerate(ViewOf(us), files, GroupsUnrelatedTo(raw))
    PROVE  /\ \A n \in DOMAIN hostFiles' : HasGroup(n) => n.prefix = << >>
           /\ \A g \in DOMAIN hostgroups' : g.prefix = << >>
           /\ DOMAIN hostFiles' = Names(ViewOf(us))
           /\ \A g \in GroupNames :
                /\ g.prefix = << >>
                /\ RelatedGroup(raw, g) \/ ~GroupPending(g)
                /\ ~RelatedGroup(raw, g) => \A u \in members \ us : ~RelatedGroup(remote[u], g)
                => Lists(hostgroups', g, HostsOfGroup(g, DOMAIN hostFiles'))
<1> DEFINE groups == GroupsUnrelatedTo(raw)
<1>1. \A g \in DOMAIN groups : g.prefix = << >>
    BY KeptGroups DEF GroupsCurrent
<1>2. ASSUME NEW g \in GroupNames, g.prefix = << >>, RelatedGroup(raw, g) \/ ~GroupPending(g),
             ~RelatedGroup(raw, g) => \A u \in members \ us : ~RelatedGroup(remote[u], g),
             g \in DOMAIN groups
      PROVE  groups[g] = HostsOfGroup(g, Names(ViewOf(us)))
    <2>1. g \in DOMAIN hostgroups /\ ~RelatedGroup(raw, g) /\ groups[g] = hostgroups[g]
        BY <1>2, KeptGroups
    <2>2. hostgroups[g] = HostsOfGroup(g, Names(View))
        BY <1>2, <2>1 DEF GroupsCurrent, Lists
    <2>3. HostsOfGroup(g, Names(ViewOf(us))) = HostsOfGroup(g, Names(View))
        BY <1>2, <2>1, SameHostsInPart
    <2> QED BY <2>1, <2>2, <2>3
<1> HIDE DEF groups
<1>3. /\ \A n \in DOMAIN hostFiles' : HasGroup(n) => n.prefix = << >>
      /\ \A g \in DOMAIN hostgroups' : g.prefix = << >>
      /\ DOMAIN hostFiles' = Names(ViewOf(us))
      /\ \A g : (g \in DOMAIN groups => groups[g] = HostsOfGroup(g, Names(ViewOf(us))))
                   => Lists(hostgroups', g, HostsOfGroup(g, DOMAIN hostFiles'))
    BY <1>1, RunLists DEF groups
<1> QED BY <1>2, <1>3

LEMMA GroupsNext ==
    ASSUME OwnFilesFound, TypeInv, TypeInv', Announced, Announced',
           GroupsOfOneModel, GroupsOfOneModel', GroupsCurrent, [Next]_vars, [KeepsIdentity]_vars
    PROVE  GroupsCurrent'
<1> DEFINE Goal(g) ==
        /\ HostsOfGroup(g, DOMAIN hostFiles') = HostsOfGroup(g, Names(View'))
        /\ Lists(hostgroups', g, HostsOfGroup(g, DOMAIN hostFiles'))
<1> SUFFICES /\ \A n \in DOMAIN hostFiles' : HasGroup(n) => n.prefix = << >>
             /\ \A g \in DOMAIN hostgroups' : g.prefix = << >>
             /\ \A g \in GroupNames : g.prefix = << >> /\ ~GroupPending(g)' => Goal(g)
    BY DEF GroupsCurrent, HostsOfGroup, Names, HostName, DedupingRequired, ModelIds,
           Lists, HasGroup, GroupOf
<1>1. /\ remote \in [Units -> Settings] /\ alive \subseteq members /\ members \subseteq Units
      /\ dirty \subseteq members /\ DepartedIsGone
    BY DEF TypeInv, TypeOK
<1>2. ASSUME UNCHANGED <<remote, members>> PROVE View' = View
    BY <1>2, ViewOfSame DEF View
<1>3. ASSUME UNCHANGED <<hostFiles, hostgroups>>, NEW g \in GroupNames, g.prefix = << >>,
             ~GroupPending(g), HostsOfGroup(g, Names(View')) = HostsOfGroup(g, Names(View))
      PROVE  Goal(g)
    BY <1>3 DEF GroupsCurrent
<1>4. ASSUME UNCHANGED <<hostFiles, hostgroups>>
      PROVE  /\ \A n \in DOMAIN hostFiles' : HasGroup(n) => n.prefix = << >>
             /\ \A g \in DOMAIN hostgroups' : g.prefix = << >>
    BY <1>4 DEF GroupsCurrent
<1>5. CASE UNCHANGED <<remote, members, dirty, failed, hostFiles, hostgroups>>
    <2>1. \A g : GroupPending(g)' = GroupPending(g)
        BY <1>5 DEF GroupPending
    <2> QED BY <1>2, <1>3, <1>4, <1>5, <2>1
<1>6. CASE UNCHANGED vars \/ UpdateStatus \/ \E u \in Units : Leave(u)
    BY <1>5, <1>6 DEF vars, UpdateStatus, env, Leave
<1>7. PlainView(View) /\ PlainView(View')
    <2>1. View' = [w \in {v \in members' : Ready(v)'} |-> Prepared(w, remote'[w])]
        BY DEF View, ViewOf, Prepared
    <2>2. \A w \in DOMAIN View' : /\ w \in members' /\ remote'[w] \in Settings
                                  /\ Prepared(w, remote'[w]).target # NoTarget
                                  /\ View'[w] = Prepared(w, remote'[w])
        <3>1. members' \subseteq Units /\ remote' \in [Units -> Settings]
            BY DEF TypeInv, TypeOK
        <3>2. \A w : Ready(w)' => Prepared(w, remote'[w]).target # NoTarget
            BY DEF Ready
        <3> HIDE DEF Prepared
        <3> QED BY <2>1, <3>1, <3>2
    <2>3. \A w \in DOMAIN View' : /\ View'[w].target = remote'[w].target
                                  /\ View'[w].target # NoTarget
                                  /\ View'[w].model = remote'[w].model
        BY <2>2, OwnIdentity
    <2>4. IsView(View')
        BY <2>2, <2>3 DEF Settings, IsView
    <2> QED BY <2>2, <2>3, <2>4, ReadIsPlain DEF View, PlainView, GroupsOfOneModel
<1>8. ASSUME NEW u \in Units, NEW s \in Offers[u], Join(u, s) \/ Publish(u, s),
             NEW g \in GroupNames, g.prefix = << >>, ~GroupPending(g)'
      PROVE  Goal(g)
    <2>1. /\ u \in dirty' /\ dirty' = dirty \cup {u} /\ UNCHANGED <<failed, hostFiles, hostgroups>>
          /\ members' = members \cup {u} /\ remote' = [remote EXCEPT ![u] = s]
          /\ u \notin members \/ (u \in alive /\ KeepsIdentity)
        BY <1>1, <1>8 DEF Join, Publish, vars
    <2>2. ~RelatedGroup(remote'[u], g)
        BY <1>8, <2>1 DEF GroupPending
    <2>3. u \in members => ~RelatedGroup(remote[u], g)
        BY <1>1, <2>1, <2>2 DEF KeepsIdentity, RelatedGroup
    <2>4. \A w \in Units \ {u} : remote'[w] = remote[w]
        BY <1>1, <2>1
    <2>5. ~GroupPending(g)
        <3> SUFFICES ASSUME NEW w \in Units, w \in dirty \/ failed = <<"departed", w>>,
                            RelatedGroup(remote[w], g)
                     PROVE  FALSE
            BY DEF GroupPending
        <3>1. CASE w # u
            BY <1>8, <2>1, <2>4, <3>1 DEF GroupPending
        <3>2. CASE w = u
            <4>1. u \notin members
                BY <2>3, <3>2
            <4>2. failed = <<"departed", u>> /\ Join(u, s)
                BY <1>1, <1>8, <3>2, <4>1 DEF Publish
            <4> QED BY <4>2, UnitAssumption DEF Join
        <3> QED BY <3>1, <3>2
    <2>6. /\ DOMAIN View' \ {u} = DOMAIN View \ {u}
          /\ \A w \in DOMAIN View \ {u} : View'[w] = View[w]
        <3>1. \A w \in Units \ {u} : /\ Prepared(w, remote[w])' = Prepared(w, remote[w])
                                     /\ Ready(w)' <=> Ready(w)
            BY <2>4 DEF Ready, Prepared
        <3> QED BY <1>1, <2>1, <3>1 DEF View, ViewOf
    <2>7. u \notin OfApp(View, g)
        BY <1>8, <2>3, AppIsRelated DEF View
    <2>8. u \notin OfApp(View', g)
        <3> SUFFICES ASSUME u \in OfApp(View', g) PROVE FALSE
            OBVIOUS
        <3>1. Prepared(u, s).target # NoTarget /\ View'[u] = Prepared(u, s) /\ s \in Settings
            BY <1>1, <2>1, DataAssumption DEF OfApp, View, ViewOf, Ready
        <3>2. View'[u].target = s.target /\ s.target # NoTarget
            BY <3>1, OwnIdentity
        <3>3. AppOf[s.target] = g.app /\ g.app # NoApp
            BY <3>2, AppAssumption DEF OfApp, GroupNames
        <3> QED BY <1>1, <1>8, <2>1, <2>2, <3>2, <3>3 DEF RelatedGroup, OwnFilesFound, Matches
    <2>9. /\ OfApp(View', g) = OfApp(View, g)
          /\ \A w \in OfApp(View, g) : View'[w].target = View[w].target
        BY <2>6, <2>7, <2>8 DEF OfApp
    <2>10. HostsOfGroup(g, Names(View')) = HostsOfGroup(g, Names(View))
        BY <1>8, <1>7, <2>9, SameHosts
    <2> QED BY <1>3, <1>8, <2>1, <2>5, <2>10
<1>9. CASE \E u \in Units : \E s \in Offers[u] : Join(u, s) \/ Publish(u, s)
    <2>1. UNCHANGED <<hostFiles, hostgroups>>
        BY <1>9 DEF Join, Publish
    <2> QED BY <1>4, <1>8, <1>9, <2>1
<1>10. ASSUME NEW u \in Units, RelationChanged(u)
       PROVE  /\ \A n \in DOMAIN hostFiles' : HasGroup(n) => n.prefix = << >>
              /\ \A g \in DOMAIN hostgroups' : g.prefix = << >>
              /\ \A g \in GroupNames : g.prefix = << >> /\ ~GroupPending(g)' => Goal(g)
    <2>1. UNCHANGED <<remote, members>> /\ View' = View
        BY <1>2, <1>10 DEF RelationChanged, env
    <2>2. failed \in {NoHook, <<"changed", u>>} /\ \A w \in Units : failed # <<"departed", w>>
        BY <1>10, UnitAssumption DEF RelationChanged
    <2>3. CASE /\ Regenerate(View, HostsUnrelatedTo(remote[u]), GroupsUnrelatedTo(remote[u]))
               /\ dirty' = dirty \ {u}
        <3>1. \A g : ~GroupPending(g)' => RelatedGroup(remote[u], g) \/ ~GroupPending(g)
            BY <2>1, <2>2, <2>3 DEF GroupPending
        <3> QED BY <2>1, <2>3, <3>1, RunGroups DEF View
    <2>4. CASE Raise(View, HostsUnrelatedTo(remote[u])) /\ UNCHANGED dirty
        <3>1. \A g : ~GroupPending(g)' => ~GroupPending(g)
            BY <2>1, <2>2, <2>4 DEF GroupPending
        <3> QED BY <1>3, <1>4, <2>1, <2>4, <3>1 DEF Raise
    <2> QED BY <1>10, <2>3, <2>4 DEF RelationChanged
<1>11. ASSUME NEW u \in Units, RelationDeparted(u)
       PROVE  /\ \A n \in DOMAIN hostFiles' : HasGroup(n) => n.prefix = << >>
              /\ \A g \in DOMAIN hostgroups' : g.prefix = << >>
              /\ \A g \in GroupNames : g.prefix = << >> /\ ~GroupPending(g)' => Goal(g)
    <2> DEFINE us == members \ {u}
    <2>1. /\ members' = us /\ dirty' = dirty \ {u} /\ us \in SUBSET members
          /\ \A w \in Units : failed = <<"departed", w>> => w = u
        BY <1>11, UnitAssumption DEF RelationDeparted
    <2>2. \A w \in Units \ {u} : remote'[w] = remote[w]
        BY <1>1, <1>11 DEF RelationDeparted
    <2>3. View' = ViewOf(us)
        BY <1>1, <2>1, <2>2, ViewOfSame DEF View
    <2>4. \A g : ~GroupPending(g)' => RelatedGroup(remote[u], g) \/ ~GroupPending(g)
        BY <2>1, <2>2 DEF GroupPending
    <2>5. CASE Regenerate(ViewOf(us), HostsUnrelatedTo(remote[u]), GroupsUnrelatedTo(remote[u]))
        BY <2>1, <2>3, <2>4, <2>5, RunGroups
    <2>6. CASE /\ Raise(ViewOf(us), HostsUnrelatedTo(remote[u]))
               /\ failed' = <<"departed", u>> /\ UNCHANGED remote
        <3>1. ASSUME NEW g \in GroupNames, g.prefix = << >>, ~GroupPending(g)' PROVE Goal(g)
            <4>1. ~RelatedGroup(remote[u], g)
                BY <2>6, <3>1 DEF GroupPending
            <4>2. ~GroupPending(g) /\ UNCHANGED <<hostFiles, hostgroups>>
                BY <2>4, <2>6, <3>1, <4>1 DEF Raise
            <4>3. HostsOfGroup(g, Names(View')) = HostsOfGroup(g, Names(View))
                BY <2>1, <2>3, <3>1, <4>1, SameHostsInPart
            <4> QED BY <1>3, <3>1, <4>2, <4>3
        <3> QED BY <1>4, <2>6, <3>1 DEF Raise
    <2> QED BY <1>11, <2>5, <2>6 DEF RelationDeparted
<1>12. CASE ConfigChanged
    <2>1. UNCHANGED <<remote, members, dirty, failed>> /\ View' = View
        BY <1>2, <1>12 DEF ConfigChanged
    <2>2. \A g : GroupPending(g)' = GroupPending(g)
        BY <2>1 DEF GroupPending
    <2>3. CASE Regenerate(View, HostsUnrelatedTo(Blank), GroupsUnrelatedTo(Blank))
        BY <2>1, <2>2, <2>3, RunGroups DEF View
    <2>4. CASE Raise(View, HostsUnrelatedTo(Blank))
        BY <1>5, <2>1, <2>4 DEF Raise
    <2> QED BY <1>12, <2>3, <2>4 DEF ConfigChanged
<1>13. CASE RewritePeerConfig
    <2>1. UNCHANGED <<remote, members, dirty, failed>> /\ View' = View
        BY <1>2, <1>13 DEF RewritePeerConfig
    <2>2. CASE Regenerate(View, << >>, << >>)
        BY <2>1, <2>2, EmptyFiles, RunLists DEF View
    <2>3. CASE Raise(View, << >>)
        BY <1>5, <2>1, <2>3 DEF Raise
    <2> QED BY <1>13, <2>2, <2>3 DEF RewritePeerConfig
<1> QED BY <1>6, <1>9, <1>10, <1>11, <1>12, <1>13 DEF Next, Environment, RelationHook

\* A group that no due hook relates to lists exactly the hosts there are of it, where the
\* targets of groups are announced by one model each (NoOldHosts shows what happens where
\* they are not).
THEOREM GroupsFollow ==
    ASSUME OwnFilesFound
    PROVE  Spec /\ [][KeepsIdentity]_vars /\ []GroupsOfOneModel => []GroupsFollowHosts
<1>1. Init => Announced /\ GroupsCurrent
    <2> SUFFICES ASSUME Init PROVE GroupsCurrent
        BY DEF Init, Announced
    <2>1. DOMAIN hostFiles = {} /\ DOMAIN hostgroups = {} /\ DOMAIN View = {}
        BY EmptyFiles DEF Init, View, ViewOf
    <2> QED BY <2>1 DEF GroupsCurrent, Lists, HostsOfGroup, Names
<1>2. TypeInv /\ GroupsCurrent => GroupsFollowHosts
    <2> SUFFICES ASSUME TypeInv, GroupsCurrent, failed = NoHook,
                        NEW g \in DOMAIN hostgroups \cup WantedGroups(DOMAIN hostFiles),
                        \A u \in dirty : ~RelatedGroup(remote[u], g)
                 PROVE  /\ g \in DOMAIN hostgroups
                        /\ hostgroups[g] = HostsOfGroup(g, DOMAIN hostFiles)
        BY DEF GroupsFollowHosts
    <2>1. WantedGroups(DOMAIN hostFiles) \subseteq GroupNames
        BY AppAssumption DEF TypeInv, TypeOK, WantedGroups, HasGroup, GroupOf, HostNames,
                             GroupNames
    <2>2. g \in GroupNames /\ g.prefix = << >>
        BY <2>1 DEF GroupsCurrent, WantedGroups, GroupOf, TypeInv, TypeOK
    <2>3. ~GroupPending(g)
        BY UnitAssumption DEF GroupPending
    <2>4. g \in WantedGroups(DOMAIN hostFiles) => HostsOfGroup(g, DOMAIN hostFiles) # {}
        BY DEF WantedGroups, HostsOfGroup
    <2> QED BY <2>2, <2>3, <2>4 DEF GroupsCurrent, Lists
<1> QED BY <1>1, <1>2, TypeInit, TypeNext, AnnouncedNext, GroupsNext, PTL DEF Spec
=============================================================================
