--------------------------- MODULE MCMonitorsHook ---------------------------
(***************************************************************************)
(* Instances of MonitorsHook for TLC.                                      *)
(* Digests have three characters instead of 64, prefixes at least one      *)
(* instead of seven; the digests of the first two models differ in their   *)
(* second character, so prefixes have to grow when both are related.       *)
(***************************************************************************)
EXTENDS MonitorsHook, TLC

CONSTANTS ma, mb, mc,       \* models
          h0, h1,           \* targets "h-0" and "h-1" of application "h"
          h2,               \* a target without an application
          app,
          u1, u2, u3, u4,   \* units
          a1, a2,           \* addresses
          m1,               \* well-formed monitors
          host0, cont0      \* machine "0" and container "0/lxd/0"

Digests == (ma :> <<0, 0, 0>>) @@ (mb :> <<0, 1, 0>>) @@ (mc :> <<1, 0, 0>>)

AllInApp == [t \in Targets |-> app]
NotGrouped == [t \in Targets |-> NoApp]
SomeInApp == [t \in Targets |-> IF t = h2 THEN NoApp ELSE app]

\* Positions and offers are given for all the units and cut to those of the run.
OfUnits(f) == Restrict(f, Units)

Listing == OfUnits((u1 :> 1) @@ (u2 :> 2) @@ (u3 :> 3) @@ (u4 :> 4))
FakedTargets == [u \in Units |-> h1]
Containers == (host0 :> NoMachine) @@ (cont0 :> host0)

\* A set of settings of a unit that keeps its target, model and machine.
Fixed(t, m, machine, addresses, monitors) ==
    [target : {t}, model : {m}, address : addresses, ingress : {a1},
     monitors : monitors, machine : {machine}]

\* Two models of units.  One model, two targets in one group, the second of them
\* shared by two units; or three models that announce one target, one of them twice:
\* the digests of ma and mb start alike, so that prefixes get longer when both are there.
OneModel ==
       (u1 :> Fixed(h0, ma, NoMachine, {a1, a2}, {m1, NoMonitors}))
    @@ (u2 :> Fixed(h1, ma, NoMachine, {a1}, {m1, NoMonitors}))
    @@ (u3 :> Fixed(h1, ma, NoMachine, {NoAddress, a2}, {m1}))
ManyModels ==
       (u1 :> Fixed(h2, ma, NoMachine, {a1}, {m1}))
    @@ (u2 :> Fixed(h2, mb, NoMachine, {a1, a2}, {m1, NoMonitors}))
    @@ (u3 :> Fixed(h2, mb, NoMachine, {a1}, {m1}))
    @@ (u4 :> Fixed(h2, mc, NoMachine, {a1}, {m1}))

OffersEither ==
    [u \in Units |-> ManyModels[u] \cup (IF u = u4 THEN {} ELSE OneModel[u])]

\* Units of one model and of many are not there at one time.
OneScenario ==
    (\E u \in members : remote[u].target \in {h0, h1})
        => u4 \notin members /\ \A u \in members : remote[u].target # h2

SpecOneScenario == Init /\ [][Next /\ OneScenario' /\ KeepsIdentity]_vars

\* Monitors that do not parse, next to a unit that is related through "nagios" and
\* through "monitors", where only the second relation gives its model.
OffersMalformed == OfUnits(
       (u1 :> Fixed(NoTarget, NoModel, NoMachine, {NoAddress}, {NoMonitors}))
    @@ (u2 :> Fixed(h0, ma, NoMachine, {a1}, {m1, Malformed}))
    @@ (u3 :> Fixed(h1, ma, NoMachine, {a1}, {m1})))

\* Two hosts of one group, both announced by two models.
OffersGroups == OfUnits(
       (u1 :> Fixed(h0, ma, NoMachine, {a1}, {m1}))
    @@ (u2 :> Fixed(h1, ma, NoMachine, {a1}, {m1}))
    @@ (u3 :> Fixed(h0, mc, NoMachine, {a1}, {m1}))
    @@ (u4 :> Fixed(h1, mc, NoMachine, {a1}, {m1})))
=============================================================================
