---------------------------- MODULE RelationCache ----------------------------
(***************************************************************************)
(* Relation data within one hook (src/hooks/charmhelpers/core/hookenv.py): *)
(* @cached keeps the very object that a function has returned, others      *)
(* change that object in place, and relation_set drops the entries whose   *)
(* arguments name the local unit.  Juju does not change the data of remote *)
(* units while a hook runs.                                                *)
(***************************************************************************)
EXTENDS Naturals

CONSTANTS
    Units, local_unit,
    Settings,    \* what a unit may have set, NoSettings among them
    WithLists,   \* those with a key that ends in "-list"
    NoSettings,
    Nothing,     \* no entry in the cache
    Shared,      \* the object that relation_get has cached
    MaxSets      \* bound on the calls of relation-set

Spellings == {"unit, rid", "unit=, rid="}   \* each is a key of its own

VARIABLES
    juju,      \* what relation-get answers, by unit
    getCache,  \* relation_get(unit=, rid=): an object or Nothing
    unitCache, \* relation_for_unit: the calls that are in the cache
    allCache,  \* relations(): by unit Shared or an object, or Nothing
    sets,      \* how often relation-set was called
    cleared,   \* relation_clear has failed
    setSince   \* relation_set has succeeded since relations() was computed

cacheVars == <<getCache, unitCache, allCache>>
vars == <<juju, cacheVars, sets, cleared, setSince>>

\* A dictionary that relation-get has printed: its settings, whether the values of its
\* "-list" keys are texts, and whether relation_for_unit has written into it.
Objects == [settings : Settings, lists : {"none", "texts", "other"}, marked : BOOLEAN]

Fetched(u) == [settings |-> juju[u], marked |-> FALSE,
               lists |-> IF juju[u] \in WithLists THEN "texts" ELSE "none"]

\* Lists for the texts, and "__unit__".
Prepared(object) == [settings |-> object.settings, marked |-> TRUE,
                     lists |-> IF object.lists = "none" THEN "none" ELSE "other"]

\* None for every value but the addresses.
Emptied(object) == [settings |-> NoSettings, marked |-> object.marked,
                    lists |-> IF object.lists = "none" THEN "none" ELSE "other"]

relation_get(u) == IF getCache[u] = Nothing THEN Fetched(u) ELSE getCache[u]

RelationGet(u) ==
    /\ getCache' = [getCache EXCEPT ![u] = relation_get(u)]
    /\ UNCHANGED <<juju, unitCache, allCache, sets, cleared, setSince>>

\* Writes into the object that relation_get hands out to everyone.  What has been split, or
\* is None, has no method split: AttributeError.
relation_for_unit(u, spelling) ==
    /\ <<u, spelling>> \notin unitCache
    /\ \/ /\ relation_get(u).lists = "other"
          /\ getCache' = [getCache EXCEPT ![u] = relation_get(u)]
          /\ UNCHANGED unitCache
       \/ /\ relation_get(u).lists # "other"
          /\ getCache' = [getCache EXCEPT ![u] = Prepared(relation_get(u))]
          /\ unitCache' = unitCache \cup {<<u, spelling>>}
    /\ UNCHANGED <<juju, allCache, sets, cleared, setSince>>

\* relations_for_id and relations_of_type call it for every remote unit.
relations_for_id == \E u \in Units \ {local_unit} : relation_for_unit(u, "unit, rid")

\* The objects are those of relation_get.
relations ==
    /\ allCache = Nothing
    /\ getCache' = [u \in Units |-> relation_get(u)]
    /\ allCache' = [u \in Units |-> Shared]
    /\ setSince' = FALSE
    /\ UNCHANGED <<juju, unitCache, sets, cleared>>

\* Broken variant of flush: the key names the unit that asks.
Bug_flush(unit, get) ==
    /\ getCache' = get
    /\ UNCHANGED <<unitCache, allCache>>

\* The entries with the unit in their arguments.  relations() has no arguments and stays,
\* with the objects it holds.
flush(unit, get) ==
    /\ getCache' = [get EXCEPT ![unit] = Nothing]
    /\ unitCache' = {call \in unitCache : call[1] # unit}
    /\ allCache' = IF allCache # Nothing /\ allCache[unit] = Shared
                   THEN [allCache EXCEPT ![unit] = get[unit]] ELSE allCache

relation_set(settings) ==
    /\ sets < MaxSets
    /\ sets' = sets + 1
    /\ juju' = [juju EXCEPT ![local_unit] = settings]
    /\ flush(local_unit, getCache)
    /\ setSince' = (allCache # Nothing)
    /\ UNCHANGED cleared

\* relation-set fails: nothing is set and nothing flushed.
RelationSetRaises ==
    /\ sets < MaxSets
    /\ sets' = sets + 1
    /\ UNCHANGED <<juju, cacheVars, cleared, setSince>>

\* Removes the settings from the cached object before it calls relation_set with it.
relation_clear ==
    /\ sets < MaxSets
    /\ sets' = sets + 1
    /\ LET get == [getCache EXCEPT ![local_unit] = Emptied(relation_get(local_unit))]
       IN  \/ /\ juju' = [juju EXCEPT ![local_unit] = NoSettings]
              /\ flush(local_unit, get)
              /\ setSince' = (allCache # Nothing)
              /\ UNCHANGED cleared
           \/ /\ getCache' = get /\ cleared' = TRUE
              /\ UNCHANGED <<juju, unitCache, allCache, setSince>>
-----------------------------------------------------------------------------
Init ==
    /\ juju \in [Units -> Settings]
    /\ getCache = [u \in Units |-> Nothing]
    /\ unitCache = {} /\ allCache = Nothing
    /\ sets = 0 /\ cleared = FALSE /\ setSince = FALSE

Next ==
    \/ \E u \in Units : RelationGet(u)
    \/ \E u \in Units, s \in Spellings : relation_for_unit(u, s)
    \/ relations_for_id \/ relations
    \/ \E settings \in Settings : relation_set(settings)
    \/ RelationSetRaises \/ relation_clear

Spec == Init /\ [][Next]_vars
-----------------------------------------------------------------------------
TypeOK ==
    /\ juju \in [Units -> Settings]
    /\ getCache \in [Units -> Objects \cup {Nothing}]
    /\ unitCache \subseteq Units \X Spellings
    /\ allCache = Nothing \/ allCache \in [Units -> Objects \cup {Shared}]
    /\ sets \in 0 .. MaxSets /\ cleared \in BOOLEAN /\ setSince \in BOOLEAN

\* What relations() holds of a unit.
Seen(u) == IF allCache[u] = Shared THEN getCache[u] ELSE allCache[u]

\* The calls of relation_for_unit for a unit that are in the cache.
Asked(u) == {s \in Spellings : <<u, s>> \in unitCache}

\* The settings are Juju's, and the object is as relation-get has printed it, unless
\* relation_for_unit has written into it.
AsPrinted(u, object) == object.settings = juju[u] /\ (object = Fetched(u) \/ object.marked)

\* "Flush cache of any relation-gets for local unit": whichever way relation data is asked
\* for, and whatever was asked before, the settings are Juju's, unless relation_clear has
\* failed; only relations() is behind after a relation_set, and with the local unit alone.
\* They come as Juju has printed them, without lists and "__unit__", exactly if
\* relation_for_unit has no entry for the unit; and it has two, of two spellings, only if no
\* key ends in "-list": the second raises otherwise.
AnswersAreJujus ==
    /\ \A u \in Units :
        /\ Asked(u) # {} <=> getCache[u] # Nothing /\ getCache[u].marked
        /\ \A s, t \in Asked(u) : s = t \/ getCache[u].lists = "none"
    /\ ~cleared =>
        /\ \A u \in Units : getCache[u] # Nothing => AsPrinted(u, getCache[u])
        /\ allCache # Nothing =>
             \A u \in Units : AsPrinted(u, Seen(u)) \/ (u = local_unit /\ setSince)
=============================================================================
