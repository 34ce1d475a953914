--------------------------- MODULE HookDataProofs ---------------------------
(***************************************************************************)
(* What hooks keep: the store, the cache of relation data within a hook, and *)
(* the copy of the options; for any keys, values, units and numbers of hooks. *)
(***************************************************************************)
EXTENDS Library, TLAPS

-----------------------------------------------------------------------------
(***************************************************************************)
(* The key value store.                                                    *)
(***************************************************************************)
LEMMA RecordedIsRows ==
    ASSUME Data!TypeOK, NEW ks, NEW d \in Values \cup {Deleted}
    PROVE  Data!Recorded(ks, d) \in Data!Rows
BY DEF Data!TypeOK, Data!Recorded, Data!Rows

LEMMA DataTypeInit == Data!Init => Data!TypeOK
BY DataAssumption DEF Data!Init, Data!TypeOK, Data!Rows, Data!NoRow

LEMMA DataTypeNext == Data!TypeOK /\ [Data!Next]_Data!vars => Data!TypeOK'
<1> SUFFICES ASSUME Data!TypeOK, [Data!Next]_Data!vars PROVE Data!TypeOK'
    OBVIOUS
<1> USE DataAssumption DEF Data!TypeOK, Data!store, Data!work
<1>1. ASSUME NEW k \in Keys, NEW v \in Values, Data!set(k, v) PROVE Data!TypeOK'
    BY <1>1, RecordedIsRows DEF Data!set
<1>2. ASSUME NEW ks \in SUBSET Keys, Data!Unset(ks) PROVE Data!TypeOK'
    BY <1>2, RecordedIsRows DEF Data!Unset
<1>3. ASSUME Data!Abort, blind' = blind PROVE Data!TypeOK'
    BY <1>3 DEF Data!Abort, Data!Rollback
<1>4. ASSUME NEW prefix \in Prefixes, Data!UnsetPrefix(prefix) PROVE Data!TypeOK'
    BY <1>4 DEF Data!UnsetPrefix
<1>5. CASE Data!Flush \/ Data!LeaveScope
    BY <1>5 DEF Data!Flush, Data!LeaveScope
<1>6. CASE Data!EnterScope
    BY <1>6 DEF Data!EnterScope
<1>7. CASE UNCHANGED Data!vars
    BY <1>7 DEF Data!vars
<1> QED BY <1>1, <1>2, <1>3, <1>4, <1>5, <1>6, <1>7
        DEF Data!Next, Data!UnsetRaises, Data!RaiseInScope, Data!Close

LEMMA DataPart == Spec => Data!Spec
<1>1. Init => Data!Init
    BY DEF Init
<1>2. [Next]_vars => [Data!Next]_Data!vars
    BY DEF Next, vars, dataVars, Data!vars, Data!store, Data!work
<1> QED BY <1>1, <1>2, PTL DEF Spec, Data!Spec

LEMMA DataTypes == Spec => []Data!TypeOK
BY DataTypeInit, DataTypeNext, DataPart, PTL DEF Data!Spec
-----------------------------------------------------------------------------
\* The changes of a hook are stored as a whole or dropped as a whole: each step of the
\* storage is one of a map with a draft.
THEOREM StorageImplementsMap == Spec => StorageIsAtomic
<1>1. Data!Init => Data!Map!Init
    BY DEF Data!Init, Data!Map!Init
<1>2. ASSUME Data!TypeOK, Data!TypeOK', [Data!Next]_Data!vars
      PROVE  [Data!Map!Next]_<<kv, kvNow, revision # 0>>
    <2> USE DEF Data!store, Data!work
    <2>1. kvNow' \in Data!Map!Maps /\ hooksNow \in Nat
        BY <1>2, DataAssumption DEF Data!TypeOK, Data!Map!Maps
    <2>2. ASSUME kvNow' \in Data!Map!Maps, UNCHANGED <<kv, revision>> PROVE Data!Map!Change
        BY <2>2 DEF Data!Map!Change
    <2>3. CASE \/ \E k \in Keys, v \in Values : Data!set(k, v)
               \/ \E ks \in SUBSET Keys : Data!Unset(ks)
               \/ \E prefix \in Prefixes : Data!UnsetPrefix(prefix)
        BY <2>1, <2>2, <2>3 DEF Data!set, Data!Unset, Data!UnsetPrefix, Data!Map!Next
    <2>4. CASE Data!Abort
        BY <2>4 DEF Data!Abort, Data!Rollback, Data!Map!Abort, Data!Map!Next
    <2>5. CASE Data!EnterScope
        BY <2>1, <2>5 DEF Data!EnterScope, Data!Map!Begin, Data!Map!Next
    <2>6. CASE Data!Flush \/ Data!LeaveScope
        BY <2>6 DEF Data!Flush, Data!LeaveScope, Data!Map!Commit, Data!Map!Next
    <2>7. CASE UNCHANGED Data!vars
        BY <2>7 DEF Data!vars
    <2> QED BY <1>2, <2>3, <2>4, <2>5, <2>6, <2>7
            DEF Data!Next, Data!UnsetRaises, Data!RaiseInScope, Data!Close
<1> QED BY <1>1, <1>2, DataTypes, DataPart, PTL
        DEF Data!Spec, StorageIsAtomic, Data!StorageIsAtomic, Data!Map!Spec
-----------------------------------------------------------------------------
\* The history tells of the key what the map holds, in a revision up to top.
Follows(k, map, rows, top) ==
    \/ /\ map[k] = NoValue
       /\ \A r \in 1 .. MaxHooks : rows[<<k, r>>] = Data!NoRow
    \/ \E r \in 1 .. top :
          /\ rows[<<k, r>>] # Data!NoRow
          /\ \A q \in 1 .. MaxHooks : rows[<<k, q>>] # Data!NoRow => q <= r
          /\ map[k] = IF rows[<<k, r>>] = Deleted THEN NoValue ELSE rows[<<k, r>>]

\* It does so in the file and in the transaction, and a hook that is under way writes in
\* the newest revision.
Histories ==
    /\ revision \in {0, hooksNow}
    /\ \A k \in Keys \ blind : /\ Follows(k, kv, kv_revisions, hooks)
                               /\ Follows(k, kvNow, revisionsNow, hooksNow)

LEMMA LaterRevision ==
    ASSUME NEW k, NEW map, NEW rows, NEW top \in Nat, Follows(k, map, rows, top)
    PROVE  Follows(k, map, rows, top + 1)
<1>1. \A r \in 1 .. top : r \in 1 .. top + 1
    OBVIOUS
<1> QED BY <1>1 DEF Follows

\* The newest row for a key is the one that counts.
LEMMA NewestRow ==
    ASSUME Data!TypeOK, Histories, revision # 0,
           NEW ks \in SUBSET Keys, NEW d \in Values \cup {Deleted}, NEW map,
           \A k \in Keys : map[k] = IF k \notin ks THEN kvNow[k]
                                    ELSE IF d = Deleted THEN NoValue ELSE d
    PROVE  \A k \in Keys \ blind : Follows(k, map, Data!Recorded(ks, d), hooksNow)
<1> DEFINE new == Data!Recorded(ks, d)
<1> SUFFICES ASSUME NEW k \in Keys \ blind
             PROVE  Follows(k, map, new, hooksNow)
    OBVIOUS
<1>1. \A r \in 1 .. MaxHooks :
         new[<<k, r>>] = IF k \in ks /\ r = revision THEN d ELSE revisionsNow[<<k, r>>]
    BY DEF Data!Recorded
<1>2. /\ revision = hooksNow /\ hooksNow \in 1 .. MaxHooks /\ MaxHooks \in Nat
      /\ Follows(k, kvNow, revisionsNow, hooksNow)
    BY DataAssumption DEF Histories, Data!TypeOK
<1>3. CASE k \in ks
    <2>1. ASSUME NEW q \in 1 .. MaxHooks, revisionsNow[<<k, q>>] # Data!NoRow
          PROVE  q <= hooksNow
        <3>1. PICK r \in 1 .. hooksNow : q <= r
            BY <1>2, <2>1 DEF Follows
        <3> QED BY <1>2, <3>1
    <2>2. d # Data!NoRow
        BY DataAssumption DEF Data!NoRow
    <2> HIDE DEF new
    <2>3. new[<<k, hooksNow>>] = d
        BY <1>1, <1>2, <1>3
    <2>4. \A q \in 1 .. MaxHooks : new[<<k, q>>] # Data!NoRow => q <= hooksNow
        BY <1>1, <1>2, <2>1
    <2>5. map[k] = IF d = Deleted THEN NoValue ELSE d
        BY <1>3
    <2>6. hooksNow \in 1 .. hooksNow
        BY <1>2
    <2> QED BY <2>2, <2>3, <2>4, <2>5, <2>6 DEF Follows
<1>4. CASE k \notin ks
    <2>1. map[k] = kvNow[k] /\ \A r \in 1 .. MaxHooks : new[<<k, r>>] = revisionsNow[<<k, r>>]
        BY <1>1, <1>4
    <2>2. \A r \in 1 .. hooksNow : r \in 1 .. MaxHooks
        BY <1>2, DataAssumption
    <2> HIDE DEF new
    <2>3. Follows(k, kvNow, revisionsNow, hooksNow)
        BY <1>2
    <2> QED BY <2>1, <2>2, <2>3 DEF Follows
<1> QED BY <1>3, <1>4

LEMMA HistoriesNext == Data!TypeOK /\ Histories /\ [Data!Next]_Data!vars => Histories'
<1> SUFFICES ASSUME Data!TypeOK, Histories, [Data!Next]_Data!vars PROVE Histories'
    OBVIOUS
<1> USE DEF Histories, Data!store, Data!work
<1>1. ASSUME NEW k \in Keys, NEW v \in Values, Data!set(k, v) PROVE Histories'
    <2>1. \A q \in Keys : kvNow'[q] = IF q \notin {k} THEN kvNow[q]
                                      ELSE IF v = Deleted THEN NoValue ELSE v
        BY <1>1, DataAssumption DEF Data!set, Data!TypeOK
    <2>2. CASE revision # 0
        BY <1>1, <2>1, <2>2, NewestRow DEF Data!set
    <2>3. CASE revision = 0
        BY <1>1, <2>1, <2>3 DEF Data!set, Follows
    <2> QED BY <2>2, <2>3
<1>2. ASSUME NEW ks \in SUBSET Keys, Data!Unset(ks) PROVE Histories'
    <2>1. \A q \in Keys : kvNow'[q] = IF q \notin ks THEN kvNow[q]
                                      ELSE IF Deleted = Deleted THEN NoValue ELSE Deleted
        BY <1>2 DEF Data!Unset
    <2>2. CASE revision # 0
        BY <1>2, <2>1, <2>2, NewestRow DEF Data!Unset
    <2>3. CASE revision = 0
        BY <1>2, <2>1, <2>3 DEF Data!Unset, Follows
    <2> QED BY <2>2, <2>3
<1>3. ASSUME Data!Abort, blind' = blind PROVE Histories'
    BY <1>3 DEF Data!Abort, Data!Rollback, Follows
<1>4. ASSUME NEW prefix \in Prefixes, Data!UnsetPrefix(prefix) PROVE Histories'
    <2>1. UNCHANGED <<kv, kv_revisions, hooks, revisionsNow, hooksNow, revision>>
        BY <1>4 DEF Data!UnsetPrefix
    <2>2. ASSUME NEW k \in Keys \ blind'
          PROVE  Follows(k, kv, kv_revisions, hooks) /\ Follows(k, kvNow', revisionsNow, hooksNow)
        <3>1. k \in Keys \ blind /\ kvNow'[k] = kvNow[k]
            BY <1>4, <2>2 DEF Data!UnsetPrefix
        <3> QED BY <3>1 DEF Follows
    <2> QED BY <2>1, <2>2
<1>5. CASE Data!Flush \/ Data!LeaveScope
    BY <1>5 DEF Data!Flush, Data!LeaveScope
<1>6. CASE Data!EnterScope
    BY <1>6, LaterRevision DEF Data!EnterScope, Data!TypeOK
<1>7. CASE UNCHANGED Data!vars
    BY <1>7 DEF Data!vars, Follows
<1> QED BY <1>1, <1>2, <1>3, <1>4, <1>5, <1>6, <1>7
        DEF Data!Next, Data!UnsetRaises, Data!RaiseInScope, Data!Close

\* gethistory tells the truth about every key that hooks have set or deleted by its name.
THEOREM HistoryTellsStore == Spec => []HistoryFollowsStore
<1>1. Data!Init => Histories
    BY DEF Data!Init, Histories, Follows, Data!NoRow
<1>2. ASSUME Data!TypeOK, Histories, NEW k \in Keys \ blind
      PROVE  IF Data!Told(k) = {} THEN kv[k] = NoValue
             ELSE kv[k] = (IF Data!LastTold(k) = Deleted THEN NoValue ELSE Data!LastTold(k))
    <2>1. Follows(k, kv, kv_revisions, hooks)
        BY <1>2 DEF Histories
    <2>2. CASE \A r \in 1 .. MaxHooks : kv_revisions[<<k, r>>] = Data!NoRow
        <3>1. \A r \in 1 .. hooks : r \in 1 .. MaxHooks
            BY <1>2, DataAssumption DEF Data!TypeOK
        <3>2. kv[k] = NoValue
            BY <2>1, <2>2, <3>1 DEF Follows
        <3>3. Data!Told(k) = {}
            BY <2>2 DEF Data!Told
        <3> QED BY <3>2, <3>3
    <2>3. CASE ~\A r \in 1 .. MaxHooks : kv_revisions[<<k, r>>] = Data!NoRow
        <3>1. PICK r \in 1 .. hooks :
                 /\ kv_revisions[<<k, r>>] # Data!NoRow
                 /\ \A q \in 1 .. MaxHooks : kv_revisions[<<k, q>>] # Data!NoRow => q <= r
                 /\ kv[k] = IF kv_revisions[<<k, r>>] = Deleted THEN NoValue
                            ELSE kv_revisions[<<k, r>>]
            BY <2>1, <2>3 DEF Follows
        <3>2. r \in Data!Told(k) /\ \A q \in Data!Told(k) : q <= r
            BY <1>2, <3>1, DataAssumption DEF Data!Told, Data!TypeOK
        <3>3. \A s \in Data!Told(k) : (\A q \in Data!Told(k) : q <= s) => s = r
            BY <3>2 DEF Data!Told
        <3>4. Data!LastTold(k) = kv_revisions[<<k, r>>]
            BY <3>2, <3>3 DEF Data!LastTold
        <3> QED BY <3>1, <3>2, <3>4
    <2> QED BY <2>2, <2>3
<1>3. Data!TypeOK /\ Histories => HistoryFollowsStore
    BY <1>2 DEF HistoryFollowsStore, Data!HistoryFollowsStore
<1> QED BY <1>1, <1>3, DataTypeInit, DataTypeNext, HistoriesNext, DataPart, PTL DEF Data!Spec

-----------------------------------------------------------------------------
(***************************************************************************)
(* Relation data within a hook.                                            *)
(***************************************************************************)
LEMMA CacheTypeInit == Cache!Init => Cache!TypeOK
<1> USE CacheAssumption
<1>1. Cache!Init => /\ juju \in [Units -> Settings] /\ getCache \in [Units -> Cache!Objects \cup {Nothing}]
                    /\ unitCache \subseteq Units \X Cache!Spellings /\ allCache = Nothing
                    /\ sets \in 0 .. MaxSets
    BY DEF Cache!Init
<1>2. Cache!Init => cleared \in BOOLEAN /\ setSince \in BOOLEAN
    BY DEF Cache!Init
<1> QED BY <1>1, <1>2 DEF Cache!TypeOK

\* An object that relations() shares with relation_get is in the cache of both.
SharedIsCached ==
    allCache # Nothing => \A u \in Units : allCache[u] = Shared => getCache[u] # Nothing

LEMMA FetchedIsObject ==
    ASSUME Cache!TypeOK, NEW u \in Units
    PROVE  /\ Cache!relation_get(u) \in Cache!Objects
           /\ getCache[u] # Nothing => Cache!relation_get(u) = getCache[u]
           /\ getCache[u] = Nothing => Cache!relation_get(u) = Cache!Fetched(u)
           /\ ~Cache!Fetched(u).marked /\ Cache!Fetched(u).settings = juju[u]
BY DEF Cache!TypeOK, Cache!relation_get, Cache!Fetched, Cache!Objects

\* Writing into an object makes another one.
LEMMA PreparedIsObject ==
    ASSUME NEW o \in Cache!Objects
    PROVE  /\ Cache!Prepared(o) \in Cache!Objects /\ Cache!Prepared(o).marked
           /\ Cache!Prepared(o).settings = o.settings /\ Cache!Prepared(o).lists # "texts"
           /\ Cache!Prepared(o).lists = "none" <=> o.lists = "none"
BY DEF Cache!Objects, Cache!Prepared

\* What relations() holds of the local unit may be older than the last relation_set.
Served ==
    ~cleared =>
        /\ \A u \in Units : getCache[u] # Nothing => Cache!AsPrinted(u, getCache[u])
        /\ allCache # Nothing =>
             \A u \in Units : Cache!AsPrinted(u, Cache!Seen(u)) \/ (u = local_unit /\ setSince)

\* The calls in the cache are those whose objects have been written into, and of two calls
\* for one unit the second has found no lists.
SplitOnce ==
    \A u \in Units :
        /\ Cache!Asked(u) # {} <=> getCache[u] # Nothing /\ getCache[u].marked
        /\ \A s, t \in Cache!Asked(u) : s = t \/ getCache[u].lists = "none"
        /\ Cache!Asked(u) # {} => getCache[u].lists # "texts"

LEMMA EmptiedIsObject ==
    ASSUME NEW o \in Cache!Objects
    PROVE  /\ Cache!Emptied(o) \in Cache!Objects
           /\ Cache!Emptied(o).marked = o.marked /\ Cache!Emptied(o).lists # "texts"
           /\ Cache!Emptied(o).lists = "none" <=> o.lists = "none"
BY CacheAssumption DEF Cache!Objects, Cache!Emptied

\* The entries of the caches are objects or marks.
Entries == /\ getCache \in [Units -> Cache!Objects \cup {Nothing}]
           /\ unitCache \subseteq Units \X Cache!Spellings
           /\ allCache = Nothing \/ allCache \in [Units -> Cache!Objects \cup {Shared}]

LEMMA FlushKeepsEntries ==
    ASSUME Entries, NEW g \in [Units -> Cache!Objects \cup {Nothing}],
           allCache # Nothing /\ allCache[local_unit] = Shared => g[local_unit] \in Cache!Objects,
           Cache!flush(local_unit, g)
    PROVE  Entries'
<1>1. getCache' \in [Units -> Cache!Objects \cup {Nothing}]
    BY DEF Cache!flush
<1>2. unitCache' \subseteq Units \X Cache!Spellings
    BY DEF Cache!flush, Entries
<1>3. CASE allCache # Nothing /\ allCache[local_unit] = Shared
    <2>1. allCache' = [allCache EXCEPT ![local_unit] = g[local_unit]]
        BY <1>3 DEF Cache!flush
    <2>2. allCache' \in [Units -> Cache!Objects \cup {Shared}]
        BY <1>3, <2>1 DEF Entries
    <2> QED BY <1>1, <1>2, <2>2 DEF Entries
<1>4. CASE ~(allCache # Nothing /\ allCache[local_unit] = Shared)
    <2>1. allCache' = allCache
        BY <1>4 DEF Cache!flush
    <2> QED BY <1>1, <1>2, <2>1 DEF Entries
<1> QED BY <1>3, <1>4

LEMMA EntriesNext ==
    ASSUME Cache!TypeOK, SharedIsCached, [Cache!Next]_Cache!vars
    PROVE  juju' \in [Units -> Settings] /\ Entries'
<1> USE CacheAssumption DEF Cache!cacheVars
<1>0. Entries /\ juju \in [Units -> Settings]
    BY DEF Cache!TypeOK, Entries
<1>1. ASSUME NEW u \in Units, Cache!RelationGet(u) PROVE juju' \in [Units -> Settings] /\ Entries'
    BY <1>1, <1>0, FetchedIsObject DEF Cache!RelationGet, Entries
<1>2. ASSUME NEW u \in Units, NEW s \in Cache!Spellings, Cache!relation_for_unit(u, s)
      PROVE  juju' \in [Units -> Settings] /\ Entries'
    <2>1. Cache!Prepared(Cache!relation_get(u)) \in Cache!Objects /\ Cache!relation_get(u) \in Cache!Objects
        BY FetchedIsObject, PreparedIsObject
    <2>2. /\ getCache' = [getCache EXCEPT ![u] = Cache!relation_get(u)]
             \/ getCache' = [getCache EXCEPT ![u] = Cache!Prepared(Cache!relation_get(u))]
          /\ unitCache' = unitCache \/ unitCache' = unitCache \cup {<<u, s>>}
          /\ UNCHANGED <<juju, allCache>>
        BY <1>2 DEF Cache!relation_for_unit
    <2>3. getCache' \in [Units -> Cache!Objects \cup {Nothing}]
        BY <1>0, <2>1, <2>2 DEF Entries
    <2>4. unitCache' \subseteq Units \X Cache!Spellings
        BY <1>0, <2>2 DEF Entries
    <2> QED BY <1>0, <2>2, <2>3, <2>4 DEF Entries
<1>3. CASE Cache!relations
    BY <1>3, <1>0, FetchedIsObject DEF Cache!relations, Entries
<1>4. ASSUME NEW x \in Settings, Cache!relation_set(x) PROVE juju' \in [Units -> Settings] /\ Entries'
    <2>1. allCache # Nothing /\ allCache[local_unit] = Shared => getCache[local_unit] \in Cache!Objects
        BY <1>0 DEF SharedIsCached, Entries
    <2>2. Cache!flush(local_unit, getCache) /\ juju' = [juju EXCEPT ![local_unit] = x]
        BY <1>4 DEF Cache!relation_set
    <2>3. Entries'
        BY <1>0, <2>1, <2>2, FlushKeepsEntries DEF Entries
    <2> QED BY <1>0, <2>2, <2>3
<1>5. CASE Cache!RelationSetRaises \/ UNCHANGED Cache!vars
    BY <1>5, <1>0 DEF Cache!RelationSetRaises, Cache!vars, Entries
<1>6. CASE Cache!relation_clear
    <2> DEFINE emptied == Cache!Emptied(Cache!relation_get(local_unit))
               g == [getCache EXCEPT ![local_unit] = emptied]
    <2>1. emptied \in Cache!Objects
        BY FetchedIsObject, EmptiedIsObject
    <2> HIDE DEF emptied
    <2>2. g \in [Units -> Cache!Objects \cup {Nothing}] /\ g[local_unit] \in Cache!Objects
        BY <1>0, <2>1 DEF Entries
    <2>3. \/ Cache!flush(local_unit, g) /\ juju' = [juju EXCEPT ![local_unit] = NoSettings]
          \/ getCache' = g /\ UNCHANGED <<juju, unitCache, allCache>>
        BY <1>6 DEF Cache!relation_clear, emptied
    <2> HIDE DEF g
    <2>4. Entries'
        BY <1>0, <2>2, <2>3, FlushKeepsEntries DEF Entries
    <2> QED BY <1>0, <2>3, <2>4
<1> QED BY <1>1, <1>2, <1>3, <1>4, <1>5, <1>6 DEF Cache!Next, Cache!relations_for_id, Cache!Spellings

LEMMA CacheTypeNext == Cache!TypeOK /\ SharedIsCached /\ [Cache!Next]_Cache!vars => Cache!TypeOK'
<1> SUFFICES ASSUME Cache!TypeOK, SharedIsCached, [Cache!Next]_Cache!vars PROVE Cache!TypeOK'
    OBVIOUS
<1> USE CacheAssumption DEF Cache!cacheVars
<1>1. sets \in 0 .. MaxSets
    BY DEF Cache!TypeOK
<1>2. sets' = sets \/ (sets < MaxSets /\ sets' = sets + 1)
    BY Zenon DEF Cache!Next, Cache!RelationGet, Cache!relation_for_unit, Cache!relations_for_id, Cache!relations,
                 Cache!relation_set, Cache!RelationSetRaises, Cache!relation_clear, Cache!vars
<1>3. cleared \in BOOLEAN /\ setSince \in BOOLEAN
    BY DEF Cache!TypeOK
<1>4. cleared' \in BOOLEAN /\ setSince' \in BOOLEAN
    BY <1>3 DEF Cache!Next, Cache!RelationGet, Cache!relation_for_unit, Cache!relations_for_id, Cache!relations, Cache!relation_set,
                Cache!RelationSetRaises, Cache!relation_clear, Cache!vars
<1>5. sets' \in 0 .. MaxSets
    BY <1>1, <1>2
<1> QED BY <1>4, <1>5, EntriesNext DEF Cache!TypeOK, Entries


CacheInv == Cache!TypeOK /\ SharedIsCached /\ SplitOnce /\ Served

LEMMA AnswersNext ==
    ASSUME CacheInv, [Cache!Next]_Cache!vars
    PROVE  SharedIsCached' /\ SplitOnce' /\ Served'
<1> USE CacheAssumption DEF CacheInv, Cache!cacheVars
<1>0. Entries /\ juju \in [Units -> Settings] /\ Nothing \notin Cache!Objects /\ Shared \notin Cache!Objects
    BY DEF Cache!TypeOK, Entries, Cache!Objects
<1>1. ASSUME NEW u \in Units, Cache!RelationGet(u) PROVE SharedIsCached' /\ SplitOnce' /\ Served'
    <2>1. /\ getCache' = [getCache EXCEPT ![u] = Cache!relation_get(u)]
          /\ UNCHANGED <<juju, unitCache, allCache, cleared, setSince>>
        BY <1>1 DEF Cache!RelationGet
    <2>2. \A v \in Units : getCache'[v] = IF v = u THEN Cache!relation_get(u) ELSE getCache[v]
        BY <1>0, <2>1 DEF Entries
    <2>3. Cache!relation_get(u) \in Cache!Objects
        BY FetchedIsObject
    <2>4. SharedIsCached'
        BY <1>0, <2>1, <2>2, <2>3 DEF SharedIsCached
    <2>5. SplitOnce'
        <3>1. \A v \in Units : Cache!Asked(v)' = Cache!Asked(v)
            BY <2>1 DEF Cache!Asked
        <3>2. CASE getCache[u] # Nothing
            <4>1. \A v \in Units : getCache'[v] = getCache[v]
                BY <2>2, <3>2, FetchedIsObject
            <4> QED BY <3>1, <4>1 DEF SplitOnce
        <3>3. CASE getCache[u] = Nothing
            <4>1. Cache!Asked(u) = {}
                BY <3>3 DEF SplitOnce
            <4>2. getCache'[u] # Nothing /\ ~getCache'[u].marked
                BY <1>0, <2>2, <2>3, <3>3, FetchedIsObject
            <4>3. \A v \in Units \ {u} : getCache'[v] = getCache[v]
                BY <2>2
            <4> QED BY <3>1, <4>1, <4>2, <4>3 DEF SplitOnce
        <3> QED BY <3>2, <3>3
    <2>6. \A v \in Units : \A o : Cache!AsPrinted(v, o)' <=> Cache!AsPrinted(v, o)
        BY <2>1 DEF Cache!AsPrinted, Cache!Fetched
    <2>7. ~cleared => Cache!AsPrinted(u, Cache!relation_get(u))
        BY FetchedIsObject DEF Served, Cache!AsPrinted
    <2>8. Served'
        BY <1>0, <2>1, <2>2, <2>3, <2>6, <2>7, FetchedIsObject DEF Served, Cache!Seen, SharedIsCached
    <2> QED BY <2>4, <2>5, <2>8
<1>2. ASSUME NEW u \in Units, NEW s \in Cache!Spellings, Cache!relation_for_unit(u, s)
      PROVE  SharedIsCached' /\ SplitOnce' /\ Served'
    <2> DEFINE split == Cache!Prepared(Cache!relation_get(u))
    <2>1. /\ split \in Cache!Objects /\ Cache!relation_get(u) \in Cache!Objects
          /\ split.marked /\ split.settings = Cache!relation_get(u).settings
          /\ split.lists # "texts" /\ (split.lists = "none" <=> Cache!relation_get(u).lists = "none")
        BY FetchedIsObject, PreparedIsObject
    <2>2. /\ <<u, s>> \notin unitCache
          /\ \/ /\ getCache' = [getCache EXCEPT ![u] = Cache!relation_get(u)]
                /\ unitCache' = unitCache /\ Cache!relation_get(u).lists = "other"
             \/ /\ getCache' = [getCache EXCEPT ![u] = split]
                /\ unitCache' = unitCache \cup {<<u, s>>} /\ Cache!relation_get(u).lists # "other"
          /\ UNCHANGED <<juju, allCache, cleared, setSince>>
        BY <1>2 DEF Cache!relation_for_unit
    <2> HIDE DEF split
    <2>3. /\ \A v \in Units \ {u} : getCache'[v] = getCache[v]
          /\ getCache'[u] = Cache!relation_get(u) \/ getCache'[u] = split
          /\ unitCache' = unitCache => getCache'[u] = Cache!relation_get(u) /\ getCache'[u].lists = "other"
          /\ unitCache' # unitCache => getCache'[u] = split /\ Cache!relation_get(u).lists # "other"
        BY <1>0, <2>2 DEF Entries
    <2>4. SharedIsCached'
        BY <1>0, <2>1, <2>2, <2>3 DEF SharedIsCached
    <2>5. /\ \A v \in Units \ {u} : Cache!Asked(v)' = Cache!Asked(v)
          /\ unitCache' # unitCache => Cache!Asked(u)' = Cache!Asked(u) \cup {s}
        BY <2>2 DEF Cache!Asked
    <2>6. SplitOnce'
        <3> SUFFICES ASSUME NEW v \in Units
                     PROVE  /\ Cache!Asked(v)' # {} <=> getCache'[v] # Nothing /\ getCache'[v].marked
                            /\ \A p, q \in Cache!Asked(v)' : p = q \/ getCache'[v].lists = "none"
                            /\ Cache!Asked(v)' # {} => getCache'[v].lists # "texts"
            BY DEF SplitOnce
        <3>1. CASE v # u
            BY <2>3, <2>5, <3>1 DEF SplitOnce
        <3>2. CASE v = u /\ unitCache' # unitCache
            <4>1. Cache!Asked(u) # {} => Cache!relation_get(u).lists = "none"
                <5>1. ASSUME Cache!Asked(u) # {} PROVE Cache!relation_get(u).lists \notin {"texts", "other"}
                    BY <2>3, <3>2, <5>1, FetchedIsObject DEF SplitOnce
                <5> QED BY <2>1, <5>1 DEF Cache!Objects
            <4> QED BY <1>0, <2>1, <2>3, <2>5, <3>2, <4>1
        <3>3. CASE v = u /\ unitCache' = unitCache
            <4>1. getCache[u] # Nothing
                BY <2>3, <3>3, FetchedIsObject DEF Cache!Fetched
            <4>2. getCache'[u] = getCache[u] /\ Cache!Asked(u)' = Cache!Asked(u)
                BY <2>3, <3>3, <4>1, FetchedIsObject DEF Cache!Asked
            <4> QED BY <3>3, <4>2 DEF SplitOnce
        <3> QED BY <3>1, <3>2, <3>3
    <2>7. \A v \in Units : \A o : Cache!AsPrinted(v, o)' <=> Cache!AsPrinted(v, o)
        BY <2>2 DEF Cache!AsPrinted, Cache!Fetched
    <2>8. Served'
        <3>1. ~cleared => Cache!AsPrinted(u, Cache!relation_get(u))
            BY FetchedIsObject DEF Served, Cache!AsPrinted
        <3>2. ~cleared => Cache!AsPrinted(u, split)
            BY <2>1, <3>1 DEF Cache!AsPrinted
        <3> QED BY <1>0, <2>1, <2>2, <2>3, <2>7, <3>1, <3>2 DEF Served, Cache!Seen, SharedIsCached
    <2> QED BY <2>4, <2>6, <2>8
<1>3. CASE Cache!relations
    <2>1. /\ getCache' = [u \in Units |-> Cache!relation_get(u)]
          /\ allCache' = [u \in Units |-> Shared]
          /\ setSince' = FALSE
          /\ UNCHANGED <<juju, unitCache, cleared>>
        BY <1>3 DEF Cache!relations
    <2>2. \A u \in Units : /\ getCache'[u] = Cache!relation_get(u) /\ getCache'[u] # Nothing
                           /\ allCache'[u] = Shared
        BY <1>0, <2>1, FetchedIsObject
    <2>3. SharedIsCached'
        BY <2>2 DEF SharedIsCached
    <2>4. SplitOnce'
        BY <2>1, <2>2, FetchedIsObject DEF SplitOnce, Cache!Asked
    <2>5. \A u \in Units : \A o : Cache!AsPrinted(u, o)' <=> Cache!AsPrinted(u, o)
        BY <2>1 DEF Cache!AsPrinted, Cache!Fetched
    <2>6. ~cleared => \A u \in Units : Cache!AsPrinted(u, Cache!relation_get(u))
        BY FetchedIsObject DEF Served, Cache!AsPrinted
    <2>7. Served'
        BY <2>1, <2>2, <2>5, <2>6 DEF Served, Cache!Seen
    <2> QED BY <2>3, <2>4, <2>7
<1>4. ASSUME NEW g \in [Units -> Cache!Objects \cup {Nothing}],
             \A u \in Units \ {local_unit} : g[u] = getCache[u],
             allCache # Nothing /\ allCache[local_unit] = Shared => g[local_unit] # Nothing,
             juju' = [juju EXCEPT ![local_unit] = juju'[local_unit]],
             Cache!flush(local_unit, g), setSince' = (allCache # Nothing), cleared' = cleared
      PROVE  SharedIsCached' /\ SplitOnce' /\ Served'
    <2>1. /\ getCache' = [g EXCEPT ![local_unit] = Nothing]
          /\ unitCache' = {c \in unitCache : c[1] # local_unit}
          /\ \/ /\ allCache # Nothing /\ allCache[local_unit] = Shared
                /\ allCache' = [allCache EXCEPT ![local_unit] = g[local_unit]]
             \/ /\ ~(allCache # Nothing /\ allCache[local_unit] = Shared)
                /\ allCache' = allCache
        BY <1>4 DEF Cache!flush
    <2>2. /\ getCache'[local_unit] = Nothing
          /\ \A u \in Units \ {local_unit} : getCache'[u] = getCache[u] /\ juju'[u] = juju[u]
        BY <1>0, <1>4, <2>1 DEF Entries
    <2>3. allCache' # Nothing => allCache # Nothing
        BY <2>1
    <2>4. allCache # Nothing =>
             /\ \A u \in Units \ {local_unit} : allCache'[u] = allCache[u]
             /\ allCache'[local_unit] # Shared
        BY <1>0, <1>4, <2>1 DEF Entries
    <2>5. SharedIsCached'
        BY <2>2, <2>3, <2>4 DEF SharedIsCached
    <2>6. \A u \in Units, t \in Cache!Spellings :
             <<u, t>> \in unitCache' <=> <<u, t>> \in unitCache /\ u # local_unit
        BY <2>1
    <2>7. SplitOnce'
        <3>1. Cache!Asked(local_unit)' = {}
            BY <2>6 DEF Cache!Asked
        <3>2. \A u \in Units \ {local_unit} : Cache!Asked(u)' = Cache!Asked(u)
            BY <2>6 DEF Cache!Asked
        <3> QED BY <2>2, <3>1, <3>2 DEF SplitOnce
    <2>8. Served'
        <3> SUFFICES ASSUME ~cleared
                     PROVE  /\ \A u \in Units : getCache'[u] # Nothing => Cache!AsPrinted(u, getCache[u])'
                            /\ allCache' # Nothing =>
                                 \A u \in Units : \/ Cache!AsPrinted(u, Cache!Seen(u))'
                                                  \/ (u = local_unit /\ setSince')
            BY <1>4 DEF Served
        <3>1. \A u \in Units \ {local_unit} : \A o : Cache!AsPrinted(u, o)' <=> Cache!AsPrinted(u, o)
            BY <2>2 DEF Cache!AsPrinted, Cache!Fetched
        <3>2. \A u \in Units : getCache'[u] # Nothing => Cache!AsPrinted(u, getCache[u])'
            BY <2>2, <3>1 DEF Served, Cache!AsPrinted, Cache!Fetched
        <3>3. allCache # Nothing => setSince' = TRUE
            BY <1>4
        <3>4. ASSUME allCache # Nothing, NEW u \in Units \ {local_unit}
              PROVE  Cache!AsPrinted(u, Cache!Seen(u))'
            <4>1. Cache!AsPrinted(u, Cache!Seen(u))
                BY <3>4 DEF Served
            <4>2. Cache!Seen(u)' = Cache!Seen(u) /\ juju'[u] = juju[u]
                BY <2>2, <2>4, <3>4 DEF Cache!Seen
            <4> QED BY <4>1, <4>2 DEF Cache!AsPrinted, Cache!Fetched
        <3> QED BY <2>3, <3>2, <3>3, <3>4
    <2> QED BY <2>5, <2>7, <2>8
<1>5. ASSUME NEW x \in Settings, Cache!relation_set(x) PROVE SharedIsCached' /\ SplitOnce' /\ Served'
    <2>1. getCache \in [Units -> Cache!Objects \cup {Nothing}]
        BY <1>0 DEF Entries
    <2>2. juju' = [juju EXCEPT ![local_unit] = juju'[local_unit]]
        BY <1>0, <1>5 DEF Cache!relation_set
    <2>3. Cache!flush(local_unit, getCache) /\ setSince' = (allCache # Nothing) /\ cleared' = cleared
        BY <1>5, Zenon DEF Cache!relation_set
    <2>4. allCache # Nothing /\ allCache[local_unit] = Shared => getCache[local_unit] # Nothing
        BY DEF SharedIsCached
    <2> QED BY <1>4, <2>1, <2>2, <2>3, <2>4
<1>6. CASE Cache!RelationSetRaises \/ UNCHANGED Cache!vars
    <2>1. UNCHANGED <<juju, getCache, unitCache, allCache, cleared, setSince>>
        BY <1>6 DEF Cache!RelationSetRaises, Cache!vars
    <2>2. SharedIsCached'
        BY <2>1 DEF SharedIsCached
    <2>3. SplitOnce'
        BY <2>1 DEF SplitOnce, Cache!Asked
    <2>4. Served'
        BY <2>1 DEF Served, Cache!Seen, Cache!AsPrinted, Cache!Fetched
    <2> QED BY <2>2, <2>3, <2>4
<1>7. CASE Cache!relation_clear
    <2> DEFINE emptied == Cache!Emptied(Cache!relation_get(local_unit))
               g == [getCache EXCEPT ![local_unit] = emptied]
    <2>1. /\ emptied \in Cache!Objects /\ emptied.marked = Cache!relation_get(local_unit).marked
          /\ emptied.lists # "texts"
          /\ emptied.lists = "none" <=> Cache!relation_get(local_unit).lists = "none"
        BY FetchedIsObject, EmptiedIsObject
    <2> HIDE DEF emptied
    <2>2. /\ g \in [Units -> Cache!Objects \cup {Nothing}]
          /\ \A u \in Units \ {local_unit} : g[u] = getCache[u]
          /\ g[local_unit] = emptied /\ emptied # Nothing
        BY <1>0, <2>1 DEF Entries
    <2>3. \/ /\ juju' = [juju EXCEPT ![local_unit] = NoSettings] /\ Cache!flush(local_unit, g)
             /\ setSince' = (allCache # Nothing) /\ cleared' = cleared
          \/ getCache' = g /\ cleared' = TRUE /\ UNCHANGED <<juju, unitCache, allCache, setSince>>
        BY <1>7 DEF Cache!relation_clear, emptied
    <2> HIDE DEF g
    <2>4. CASE /\ juju' = [juju EXCEPT ![local_unit] = NoSettings] /\ Cache!flush(local_unit, g)
               /\ setSince' = (allCache # Nothing) /\ cleared' = cleared
        <3>1. juju' = [juju EXCEPT ![local_unit] = juju'[local_unit]]
            BY <1>0, <2>4
        <3> QED BY <1>4, <2>2, <2>4, <3>1
    <2>5. CASE /\ getCache' = g /\ cleared' = TRUE
               /\ UNCHANGED <<juju, unitCache, allCache, setSince>>
        <3>1. SharedIsCached' /\ Served'
            BY <2>2, <2>5 DEF SharedIsCached, Served
        <3>2. SplitOnce'
            <4>1. getCache[local_unit] = Nothing => ~emptied.marked
                BY <2>1, FetchedIsObject
            <4>2. getCache[local_unit] # Nothing =>
                     /\ emptied.marked = getCache[local_unit].marked
                     /\ emptied.lists = "none" <=> getCache[local_unit].lists = "none"
                BY <2>1, FetchedIsObject
            <4>3. \A u \in Units : Cache!Asked(u)' = Cache!Asked(u)
                BY <2>5 DEF Cache!Asked
            <4> QED BY <2>1, <2>2, <2>5, <4>1, <4>2, <4>3 DEF SplitOnce
        <3> QED BY <3>1, <3>2
    <2> QED BY <2>3, <2>4, <2>5
<1> QED BY <1>1, <1>2, <1>3, <1>5, <1>6, <1>7 DEF Cache!Next, Cache!relations_for_id, Cache!Spellings

LEMMA CachePart == Spec => Cache!Spec
<1>1. Init => Cache!Init
    BY DEF Init
<1>2. [Next]_vars => [Cache!Next]_Cache!vars
    BY DEF Next, vars, cacheVars, Cache!vars, Cache!cacheVars
<1> QED BY <1>1, <1>2, PTL DEF Spec, Cache!Spec

LEMMA CacheInvHolds == Spec => []CacheInv
<1>1. Cache!Init => CacheInv
    <2>1. Cache!Init => SharedIsCached /\ SplitOnce /\ Served
        BY DEF Cache!Init, SharedIsCached, SplitOnce, Served, Cache!Asked
    <2> QED BY <2>1, CacheTypeInit DEF CacheInv
<1>2. CacheInv /\ [Cache!Next]_Cache!vars => CacheInv'
    BY CacheTypeNext, AnswersNext DEF CacheInv
<1> QED BY <1>1, <1>2, CachePart, PTL DEF Cache!Spec

\* Whichever way relation data is asked for, the settings are Juju's, as Juju prints them
\* unless relation_for_unit was asked for the unit.
THEOREM CacheAnswers == Spec => []AnswersAreJujus
<1>1. CacheInv => AnswersAreJujus
    BY DEF CacheInv, SplitOnce, Served, Cache!AnswersAreJujus, AnswersAreJujus
<1> QED BY <1>1, CacheInvHolds, PTL

-----------------------------------------------------------------------------
(***************************************************************************)
(* The copy of the options.                                                *)
(***************************************************************************)
\* What a hook holds of the copy, and what the charm has acted on so far.
OptionInv ==
    /\ option \in Values /\ Option!TypeOK
    /\ saved \in Option!Copies => lost \/ saved.own = own
    /\ hook \in {"body", "late"} =>
        /\ current \in Option!Copies
        /\ _prev_dict = IF saved \in Option!Copies THEN saved ELSE NoValue
    /\ hook # "late" /\ saved \in Option!Copies => applied = saved.option \/ reverted
    /\ hook = "late" => applied = current.option \/ reverted

LEMMA OptionNext == OptionInv /\ [Option!Next]_Option!vars => OptionInv'
<1> SUFFICES ASSUME OptionInv, [Option!Next]_Option!vars PROVE OptionInv'
    OBVIOUS
<1> USE OptionAssumption DEF OptionInv, Option!TypeOK, Option!copyVars
<1>0. {NoCopy, Empty, Torn, NoValue} \cap Option!Copies = {}
    BY DEF Option!Copies
<1>1. CASE Option!Change
    <2>1. /\ option' \in Values
          /\ UNCHANGED <<saved, lost, hook, current, _prev_dict, applied, own, reverted>>
        BY <1>1 DEF Option!Change
    <2> QED BY <2>1
<1>2. CASE Option!Begin
    <2>1. /\ UNCHANGED <<option, saved, lost, applied, own, reverted>>
          /\ hook = "idle" /\ hook' = "body" /\ saved # Torn
        BY <1>2 DEF Option!Begin
    <2>2. CASE saved \in {NoCopy, Empty}
        <3>1. _prev_dict' = NoValue /\ current' = [option |-> option, own |-> NoValue]
            BY <1>2, <2>2 DEF Option!Begin
        <3>2. current' \in Option!Copies /\ saved \notin Option!Copies
            BY <1>0, <2>2, <3>1 DEF Option!Copies
        <3> QED BY <2>1, <3>1, <3>2
    <2>3. CASE saved \notin {NoCopy, Empty}
        <3>1. _prev_dict' = saved /\ current' = [option |-> option, own |-> saved.own]
            BY <1>2, <2>3 DEF Option!Begin, Option!load_previous
        <3>2. saved \in Option!Copies
            BY <2>1, <2>3
        <3>3. current' \in Option!Copies
            BY <3>1, <3>2 DEF Option!Copies
        <3> QED BY <2>1, <3>1, <3>2, <3>3
    <2> QED BY <2>2, <2>3
<1>3. CASE Option!BeginRaises
    <2>1. /\ UNCHANGED <<option, saved, lost, current, _prev_dict, applied, own, reverted>>
          /\ hook = "idle" /\ hook' = "broken"
        BY <1>3 DEF Option!BeginRaises
    <2> QED BY <2>1
<1>4. CASE Option!Body
    <2>1. /\ UNCHANGED <<option, saved, lost, _prev_dict, own, reverted>>
          /\ hook = "body" /\ hook' = "late"
          /\ applied' = IF Option!changed THEN current.option ELSE applied
        BY <1>4 DEF Option!Body
    <2>2. PICK v \in Values \cup {current.own} : current' = [current EXCEPT !.own = v]
        BY <1>4 DEF Option!Body
    <2>3. current \in Option!Copies
        BY <2>1
    <2>4. current' \in Option!Copies /\ current'.option = current.option
        BY <2>2, <2>3 DEF Option!Copies
    <2>5. applied' \in Values \cup {NoValue}
        BY <2>1, <2>3 DEF Option!Copies
    <2>6. applied' = current'.option \/ reverted'
        <3>1. CASE Option!changed
            BY <2>1, <2>4, <3>1
        <3>2. CASE ~Option!changed
            <4>1. saved \in Option!Copies /\ saved.option = current.option
                BY <2>1, <3>2 DEF Option!changed
            <4> QED BY <2>1, <2>4, <3>2, <4>1
        <3> QED BY <3>1, <3>2
    <2> QED BY <2>1, <2>4, <2>5, <2>6
<1>5. CASE Option!Fail
    <2>1. /\ UNCHANGED <<option, saved, lost, current, _prev_dict, applied, own>>
          /\ hook \in {"body", "late"} /\ hook' = "idle"
          /\ reverted' = (reverted \/ (hook = "late" /\ _prev_dict # NoValue
                                          /\ applied # _prev_dict.option))
        BY <1>5 DEF Option!Fail
    <2>2. saved \in Option!Copies => applied = saved.option \/ reverted'
        BY <1>0, <2>1
    <2> QED BY <2>1, <2>2
<1>6. CASE Option!Save
    <2>1. /\ hook = "late" /\ saved' = current /\ own' = current.own /\ hook' = "idle"
          /\ UNCHANGED <<option, lost, current, _prev_dict, applied>>
        BY <1>6 DEF Option!Save
    <2>2. reverted' = (reverted /\ applied # current.option)
        BY <1>6 DEF Option!Save
    <2>3. own' \in Values \cup {NoValue}
        BY <2>1 DEF Option!Copies
    <2>4. applied = current.option \/ reverted'
        BY <2>1, <2>2
    <2> QED BY <2>1, <2>3, <2>4
<1>7. CASE Option!SaveCutOff
    <2>1. /\ hook = "late" /\ saved' \in {Empty, Torn} /\ lost' = TRUE /\ hook' = "idle"
          /\ UNCHANGED <<option, current, _prev_dict, applied, own, reverted>>
        BY <1>7 DEF Option!SaveCutOff
    <2> QED BY <1>0, <2>1
<1>8. CASE UNCHANGED Option!vars
    BY <1>8 DEF Option!vars
<1> QED BY <1>1, <1>2, <1>3, <1>4, <1>5, <1>6, <1>7, <1>8 DEF Option!Next

LEMMA OptionPart == Spec => Option!Spec
<1>1. Init => Option!Init
    BY DEF Init
<1>2. [Next]_vars => [Option!Next]_Option!vars
    BY DEF Next, vars, optionVars, Option!vars, Option!copyVars
<1> QED BY <1>1, <1>2, PTL DEF Spec, Option!Spec

LEMMA OptionInvHolds == Spec => []OptionInv
<1>1. Option!Init => OptionInv
    BY OptionAssumption DEF Option!Init, OptionInv, Option!TypeOK, Option!Copies
<1> QED BY <1>1, OptionNext, OptionPart, PTL DEF Option!Spec

\* A charm that acts on changes only has acted on the value that the copy tells, and finds
\* its own keys again.
THEOREM ChangesAreHandled == Spec => []ChangesHandled
<1>1. OptionInv => ChangesHandled
    BY DEF OptionInv, Option!ChangesHandled, ChangesHandled
<1> QED BY <1>1, OptionInvHolds, PTL
=============================================================================
