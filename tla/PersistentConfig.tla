-------------------------- MODULE PersistentConfig --------------------------
(***************************************************************************)
(* hookenv.Config (src/hooks/charmhelpers/core/hookenv.py): a charm acts   *)
(* on options that have changed since the copy in .juju-persistent-config, *)
(* which the framework writes after a hook that went well, and keeps       *)
(* settings of its own in the copy.  Hooks fail anywhere, are cut off      *)
(* while they write the copy, and are run again.                           *)
(***************************************************************************)
EXTENDS Naturals

CONSTANTS
    Values,        \* of the option, and of the charm's own key
    NoValue,
    None, Empty, Torn,   \* there is no copy, an empty one, one that does not parse
    MaxOptions,    \* bound on the changes of the option
    MaxFailures    \* bound on the hooks that fail

VARIABLES
    option,    \* what config-get prints
    file,      \* the copy: a record, None, Empty or Torn
    hook,      \* "idle", "body", "late" (the body is through) or "broken"
    current, _prev_dict,
    applied,   \* the value that the charm has acted on last
    own,       \* the value that the charm last kept under its own key, in good hooks
    lost,      \* a hook was cut off while it wrote the copy
    reverted,  \* a hook that has acted failed, and the copy is of an earlier value
    changes, failures

copyVars == <<file, lost>>
vars == <<option, copyVars, hook, current, _prev_dict, applied, own, reverted,
          changes, failures>>

Copies == [option : Values, own : Values \cup {NoValue}]
-----------------------------------------------------------------------------
Change ==
    /\ changes < MaxOptions
    /\ changes' = changes + 1
    /\ option' \in Values
    /\ UNCHANGED <<copyVars, hook, current, _prev_dict, applied, own, reverted, failures>>

\* Keys of the copy that are no options are taken over.
load_previous == _prev_dict' = file /\ current' = [option |-> option, own |-> file.own]

\* config(): a missing or an empty copy is no copy.
Begin ==
    /\ hook = "idle"
    /\ file # Torn
    /\ hook' = "body"
    /\ IF file \in {None, Empty}
       THEN _prev_dict' = NoValue /\ current' = [option |-> option, own |-> NoValue]
       ELSE load_previous
    /\ UNCHANGED <<option, copyVars, applied, own, reverted, changes, failures>>

\* A copy that does not parse leaves None behind, whose items() raises: in every hook.
BeginRaises ==
    /\ hook = "idle"
    /\ file = Torn
    /\ hook' = "broken"
    /\ UNCHANGED <<option, copyVars, current, _prev_dict, applied, own, reverted,
                   changes, failures>>

\* Broken variant of changed: no copy, no change.
Bug_changed == _prev_dict # NoValue /\ _prev_dict.option # current.option

changed == _prev_dict = NoValue \/ _prev_dict.option # current.option

\* The charm: acts if the option has changed, and sets its own key or leaves it.
Body ==
    /\ hook = "body"
    /\ hook' = "late"
    /\ applied' = IF changed THEN current.option ELSE applied
    /\ \E v \in Values \cup {current.own} : current' = [current EXCEPT !.own = v]
    /\ UNCHANGED <<option, copyVars, _prev_dict, own, reverted, changes, failures>>

\* An exception, or an exit status other than 0: nothing is saved.
Fail ==
    /\ hook \in {"body", "late"}
    /\ failures < MaxFailures
    /\ failures' = failures + 1
    /\ hook' = "idle"
    /\ reverted' = (reverted \/ (hook = "late" /\ _prev_dict # NoValue
                                   /\ applied # _prev_dict.option))
    /\ UNCHANGED <<option, copyVars, current, _prev_dict, applied, own, changes>>

\* _run_atexit calls _implicit_save.
Save ==
    /\ hook = "late"
    /\ file' = current
    /\ own' = current.own
    /\ hook' = "idle"
    /\ reverted' = (reverted /\ applied # current.option)
    /\ UNCHANGED <<option, lost, current, _prev_dict, applied, changes, failures>>

\* The file is truncated first.
SaveCutOff ==
    /\ hook = "late"
    /\ failures < MaxFailures
    /\ failures' = failures + 1
    /\ file' \in {Empty, Torn}
    /\ lost' = TRUE
    /\ hook' = "idle"
    /\ UNCHANGED <<option, current, _prev_dict, applied, own, reverted, changes>>
-----------------------------------------------------------------------------
Init ==
    /\ option \in Values /\ file = None /\ hook = "idle"
    /\ current = NoValue /\ _prev_dict = NoValue
    /\ applied = NoValue /\ own = NoValue
    /\ lost = FALSE /\ reverted = FALSE /\ changes = 0 /\ failures = 0

Next == Change \/ Begin \/ BeginRaises \/ Body \/ Fail \/ Save \/ SaveCutOff

Spec == Init /\ [][Next]_vars
-----------------------------------------------------------------------------
TypeOK ==
    /\ file \in Copies \cup {None, Empty, Torn}
    /\ hook \in {"idle", "body", "late", "broken"}
    /\ current \in Copies \cup {NoValue} /\ _prev_dict \in Copies \cup {NoValue}
    /\ applied \in Values \cup {NoValue} /\ own \in Values \cup {NoValue}

\* "See which values in the dictionary have changed since the previous hook": a charm that
\* acts on changes only has acted on the value that the copy tells, however many hooks
\* have failed, unless a hook failed after it had acted and the value is back at what it
\* was before; and "keys/values that we add are preserved across hooks", those of good
\* hooks through failed ones, as long as no write was cut off.
ChangesHandled ==
    file \in Copies /\ hook = "idle" =>
        /\ applied = file.option \/ reverted
        /\ lost \/ file.own = own
=============================================================================
