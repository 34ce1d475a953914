------------------------------ MODULE UnitData ------------------------------
(***************************************************************************)
(* unitdata.Storage (src/hooks/charmhelpers/core/unitdata.py): a key value *)
(* store in sqlite with a history of what each hook has changed.  A        *)
(* connection works on a transaction; closing it, an exception in a hook   *)
(* or the end of the process rolls it back.                                *)
(***************************************************************************)
EXTENDS Naturals

CONSTANTS
    Keys, Values, NoValue,
    Deleted,    \* json.dumps('DELETED') in the history
    Prefixes,   \* sets of keys that have a prefix in common
    MaxHooks    \* bound on the hooks

VARIABLES
    kv, kv_revisions, hooks,           \* the tables as committed
    kvNow, revisionsNow, hooksNow,     \* the tables in the transaction
    revision,                          \* that of the hook under way, or 0
    blind                              \* keys changed where no history is written

store == <<kv, kv_revisions, hooks>>
work == <<kvNow, revisionsNow, hooksNow>>
vars == <<store, work, revision, blind>>

Present(k) == kvNow[k] # NoValue
NoRow == NoValue
Rows == [Keys \X (1 .. MaxHooks) -> Values \cup {Deleted, NoRow}]

\* Broken variant of Recorded: insert or ignore, so that the first change of a key stays.
Bug_Recorded(keys, data) ==
    [row \in Keys \X (1 .. MaxHooks) |->
        IF row[1] \in keys /\ row[2] = revision /\ revisionsNow[row] = NoRow
        THEN data ELSE revisionsNow[row]]

\* The rows of the history with data for keys in this revision.
Recorded(keys, data) ==
    [row \in Keys \X (1 .. MaxHooks) |->
        IF row[1] \in keys /\ row[2] = revision THEN data ELSE revisionsNow[row]]

\* Broken variant of Rollback: the transaction goes on.
Bug_NoRollback == UNCHANGED work

Rollback == kvNow' = kv /\ revisionsNow' = kv_revisions /\ hooksNow' = hooks

\* An exception in the body of a hook_scope.
Abort == Rollback /\ revision' = 0 /\ UNCHANGED store
-----------------------------------------------------------------------------
set(k, v) ==
    /\ kvNow[k] # v
    /\ kvNow' = [kvNow EXCEPT ![k] = v]
    /\ revisionsNow' = IF revision = 0 THEN revisionsNow ELSE Recorded({k}, v)
    /\ blind' = IF revision = 0 THEN blind \cup {k} ELSE blind
    /\ UNCHANGED <<store, hooksNow, revision>>

\* insert is refused when the primary key is there.
Collides(keys) == revision # 0 /\ \E k \in keys : revisionsNow[<<k, revision>>] # NoRow

\* unset of one key, unsetrange of a list of keys: there is a row for every key of the
\* list when one of them was there at all.
Unset(keys) ==
    /\ \E k \in keys : Present(k)
    /\ ~Collides(keys)
    /\ kvNow' = [k \in Keys |-> IF k \in keys THEN NoValue ELSE kvNow[k]]
    /\ revisionsNow' = IF revision = 0 THEN revisionsNow ELSE Recorded(keys, Deleted)
    /\ blind' = IF revision = 0 THEN blind \cup keys ELSE blind
    /\ UNCHANGED <<store, hooksNow, revision>>

\* IntegrityError ends the hook: what it has set before is in the history already.
UnsetRaises(keys) ==
    /\ \E k \in keys : Present(k)
    /\ Collides(keys)
    /\ Abort
    /\ UNCHANGED blind

\* unsetrange of a prefix: the only row is for the pattern, none for the keys.
UnsetPrefix(prefix) ==
    /\ \E k \in prefix : Present(k)
    /\ kvNow' = [k \in Keys |-> IF k \in prefix THEN NoValue ELSE kvNow[k]]
    /\ blind' = blind \cup prefix
    /\ UNCHANGED <<store, revisionsNow, hooksNow, revision>>

\* flush(), which close() and the end of the process do not call.
Flush ==
    /\ kv' = kvNow /\ kv_revisions' = revisionsNow /\ hooks' = hooksNow
    /\ UNCHANGED <<work, revision, blind>>

EnterScope ==
    /\ revision = 0
    /\ hooksNow < MaxHooks
    /\ hooksNow' = hooksNow + 1
    /\ revision' = hooksNow'
    /\ UNCHANGED <<store, kvNow, revisionsNow, blind>>

LeaveScope ==
    /\ revision # 0
    /\ revision' = 0
    /\ kv' = kvNow /\ kv_revisions' = revisionsNow /\ hooks' = hooksNow
    /\ UNCHANGED <<work, blind>>

RaiseInScope == revision # 0 /\ Abort /\ UNCHANGED blind

\* close(), or the process ends: the next one opens the file anew.
Close == Abort /\ UNCHANGED blind
-----------------------------------------------------------------------------
Init ==
    /\ kv = [k \in Keys |-> NoValue] /\ kvNow = kv
    /\ kv_revisions = [row \in Keys \X (1 .. MaxHooks) |-> NoRow]
    /\ revisionsNow = kv_revisions
    /\ hooks = 0 /\ hooksNow = 0 /\ revision = 0
    /\ blind = {}

Next ==
    \/ \E k \in Keys, v \in Values : set(k, v)
    \/ \E keys \in SUBSET Keys : Unset(keys) \/ UnsetRaises(keys)
    \/ \E prefix \in Prefixes : UnsetPrefix(prefix)
    \/ Flush \/ EnterScope \/ LeaveScope \/ RaiseInScope \/ Close

Spec == Init /\ [][Next]_vars
-----------------------------------------------------------------------------
TypeOK ==
    /\ kv \in [Keys -> Values \cup {NoValue}] /\ kvNow \in [Keys -> Values \cup {NoValue}]
    /\ kv_revisions \in Rows /\ revisionsNow \in Rows
    /\ hooks \in 0 .. MaxHooks /\ hooksNow \in 0 .. MaxHooks
    /\ revision \in 0 .. hooksNow
    /\ blind \subseteq Keys

\* A hook's changes are stored together or not at all, and nothing of a hook that failed
\* is stored by a later one.
Map == INSTANCE KeyValue WITH stored <- kv, draft <- kvNow, scope <- revision # 0

StorageIsAtomic == Map!Spec

\* The revisions that tell of a key, and what the last of them says.
Told(k) == {r \in 1 .. MaxHooks : kv_revisions[<<k, r>>] # NoRow}
LastTold(k) == kv_revisions[<<k, CHOOSE r \in Told(k) : \A q \in Told(k) : q <= r>>]

\* gethistory: what the history says last of a key is what the store holds, for keys that
\* were changed within hooks and not by prefix.
HistoryFollowsStore ==
    \A k \in Keys \ blind :
        IF Told(k) = {} THEN kv[k] = NoValue
        ELSE kv[k] = (IF LastTold(k) = Deleted THEN NoValue ELSE LastTold(k))
=============================================================================
