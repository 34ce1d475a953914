----------------------------- MODULE HostNaming -----------------------------
(***************************************************************************)
(* The names the charm gives to nagios hosts and host groups.              *)
(*                                                                         *)
(* Every unit related to the charm announces a target (its host name) and, *)
(* when its nrpe charm is recent enough, the id of the Juju model it lives *)
(* in.  Units of different models may announce the same target.  The hook  *)
(* tells them apart by a prefix: the first characters of the sha256 of the *)
(* model id, as few as distinguish all the models at hand                  *)
(* (src/hooks/monitors_relation_changed.py, compute_host_prefixes and the  *)
(* loop of main).                                                          *)
(*                                                                         *)
(* A name is the pair of its prefix (<< >> when there is none) and the     *)
(* target or application it is built from; the string that joins the two   *)
(* with "_" is not modelled.                                               *)
(***************************************************************************)
EXTENDS Integers, Sequences

CONSTANTS
    Models,                  \* ids of Juju models
    NoModel,                 \* "no model_id in the relation data"
    Targets,                 \* values of target-id
    Apps,                    \* what precedes the last "-" of a target
    NoApp,                   \* "the target has no dash"
    AppOf,                   \* [Targets -> Apps \cup {NoApp}]
    HexDigits,               \* the characters of a digest
    Sha,                     \* the sha256 of every model id
    HOST_PREFIX_MIN_LENGTH,
    HOST_PREFIX_MAX_LENGTH

ASSUME ModelAssumption == NoModel \notin Models

ASSUME AppAssumption == /\ NoApp \notin Apps
                        /\ AppOf \in [Targets -> Apps \cup {NoApp}]

ASSUME LengthAssumption ==
    /\ HOST_PREFIX_MIN_LENGTH \in Nat \ {0}
    /\ HOST_PREFIX_MAX_LENGTH \in Nat
    /\ HOST_PREFIX_MIN_LENGTH <= HOST_PREFIX_MAX_LENGTH

\* A digest has the maximal length, and no two model ids share a digest.
ASSUME ShaAssumption ==
    /\ Sha \in [Models -> Seq(HexDigits)]
    /\ \A m \in Models : Len(Sha[m]) = HOST_PREFIX_MAX_LENGTH
    /\ \A m, n \in Models : Sha[m] = Sha[n] => m = n
-----------------------------------------------------------------------------
Prefixes == Seq(HexDigits)
HostNames == [prefix : Prefixes, target : Targets]
GroupNames == [prefix : Prefixes, app : Apps]

\* The first i characters of the digest of a model id (hashes[model_id][:i]).
ShaPrefix(m, i) == SubSeq(Sha[m], 1, i)

\* As many hash fragments as model ids: the test that ends the search.
Distinguishes(i, models) ==
    \A m, n \in models : m # n => ShaPrefix(m, i) # ShaPrefix(n, i)

Lengths == HOST_PREFIX_MIN_LENGTH .. HOST_PREFIX_MAX_LENGTH

\* Broken variant of PrefixLength: the length is fixed.
Bug_FixedLength(models) == HOST_PREFIX_MIN_LENGTH

\* The shortest length in range that distinguishes the models; the loop of the
\* code falls through with the longest one if there were none.
PrefixLength(models) ==
    IF \E i \in Lengths : Distinguishes(i, models)
    THEN CHOOSE i \in Lengths : /\ Distinguishes(i, models)
                                /\ \A j \in Lengths : Distinguishes(j, models) => i <= j
    ELSE HOST_PREFIX_MAX_LENGTH
-----------------------------------------------------------------------------
(***************************************************************************)
(* A view is what one run of the hook read: a function from related units  *)
(* to their settings, records with at least the fields target and model.   *)
(***************************************************************************)
ModelIds(view) == {view[u].model : u \in DOMAIN view} \ {NoModel}

\* Units that announce the target of u do not all announce the same model.
DedupingRequired(view, u) ==
    \E w \in DOMAIN view : /\ view[w].target = view[u].target
                           /\ view[w].model # view[u].model

\* The host name under which the unit is monitored: a unit without a model id
\* keeps the plain name even when its target is duplicated.
HostName(view, u) ==
    [prefix |-> IF view[u].model # NoModel /\ DedupingRequired(view, u)
                THEN ShaPrefix(view[u].model, PrefixLength(ModelIds(view)))
                ELSE << >>,
     target |-> view[u].target]

Names(view) == {HostName(view, u) : u \in DOMAIN view}

\* Broken variant of DuplicateTargets: units are counted instead of models.
Bug_SharedTargets(view) ==
    {view[u].target : u \in {v \in DOMAIN view :
                                \E w \in DOMAIN view \ {v} : view[w].target = view[v].target}}

\* Targets reported in the status of the charm.
DuplicateTargets(view) ==
    {view[u].target : u \in {w \in DOMAIN view : /\ view[w].model # NoModel
                                                 /\ DedupingRequired(view, w)}}

\* get_hostgroup_name: what precedes the last dash, the prefix included.
HasGroup(name) == AppOf[name.target] # NoApp
GroupOf(name) == [prefix |-> name.prefix, app |-> AppOf[name.target]]

\* The pattern "<7 characters>*_<name>" of the files of a model, and the plain
\* name: what the hook of a unit regards as files of that unit.
Matches(prefix, model) ==
    \/ prefix = << >>
    \/ /\ model # NoModel
       /\ Len(prefix) >= HOST_PREFIX_MIN_LENGTH
       /\ SubSeq(prefix, 1, HOST_PREFIX_MIN_LENGTH)
            = ShaPrefix(model, HOST_PREFIX_MIN_LENGTH)
=============================================================================
