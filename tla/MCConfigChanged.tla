--------------------------- MODULE MCConfigChanged ---------------------------
(***************************************************************************)
(* An instance of ConfigChanged for TLC: the operator switches between     *)
(* configurations that differ in many options at a time.                   *)
(***************************************************************************)
EXTENDS ConfigChanged, TLC

Base ==
    [extraconfig |-> NoText, admins |-> {"a@x"}, members |-> {"root"}, extra |-> {},
     pagerduty |-> FALSE, traps |-> FALSE, maxmail |-> -1, livestatus |-> FALSE,
     xinetd |-> FALSE, interval |-> -1, notify |-> NoText, ssl |-> "off",
     cert |-> NoText, key |-> NoText, chain |-> NoText, nagiosadmin |-> "nagiosadmin",
     password |-> NoText, ropassword |-> NoText]

\* Everything on, with a certificate of the operator's.
Full ==
    [Base EXCEPT !.extraconfig = "text", !.pagerduty = TRUE, !.traps = TRUE,
                 !.maxmail = 2, !.interval = 1, !.notify = "w", !.ssl = "on",
                 !.cert = "cert", !.key = "key", !.chain = "chain",
                 !.password = "p1", !.ropassword = "p1"]

\* Two administrators, https only with a certificate of its own, another account.
Only ==
    [Base EXCEPT !.admins = {"a@x", "b@x"}, !.pagerduty = TRUE, !.ssl = "only",
                 !.nagiosadmin = "alice", !.password = "p2", !.ropassword = "p2"]

\* An extra contact that is a member by name, and livestatus.
Extra ==
    [Base EXCEPT !.members = {"root", "pagerduty-team"}, !.extra = {"pagerduty-team"},
                 !.traps = TRUE, !.ssl = "true", !.livestatus = TRUE, !.xinetd = TRUE]

NoAdmin == [Full EXCEPT !.admins = {}, !.traps = FALSE]
BadExtra == [Only EXCEPT !.extra = Bad, !.pagerduty = FALSE, !.ssl = "off"]

\* A certificate that is not base64, and others in place of PagerDuty and traps.
BadCert == [Full EXCEPT !.cert = "no base64", !.pagerduty = FALSE, !.traps = FALSE]

AllOptions == {Base, Full, Only, Extra, NoAdmin, BadExtra, BadCert}

\* The password of the administrator is changed.
TwoPasswords == {[Base EXCEPT !.password = p] : p \in {"p1", "p2"}}

Names == [e \in {"a@x", "b@x"} |-> IF e = "a@x" THEN "ax" ELSE "bx"]
Texts == [n \in {"root", "pagerduty", "pagerduty-team"} |->
             IF n = "pagerduty-team" THEN {n, "pagerduty"} ELSE {n}]
=============================================================================
