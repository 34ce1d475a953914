------------------------------ MODULE WebAccess ------------------------------
(***************************************************************************)
(* What the config-changed script (src/hooks/upgrade_charm.py) does for    *)
(* the web interface: certificates, apache's sites and ports, accounts,    *)
(* and what the charm tells the website and dashboard relations about it.  *)
(*                                                                         *)
(* Every operation is one step on the variables below; ConfigChanged puts  *)
(* them in the order of the script.                                        *)
(***************************************************************************)
EXTENDS Integers, Sequences

CONSTANTS
    Sites,      \* apache's sites other than default-ssl
    SslNamed,   \* those with "ssl" in their names
    NoText,     \* an empty option, a file that does not exist
    Empty,      \* what is in a file that was opened for writing and not written
    SelfSigned, \* what generate_selfsigned puts into both of its files
    Malformed   \* the options for which b64decode raises

ASSUME SiteAssumption == /\ SslNamed \subseteq Sites /\ SslNamed # Sites
                         /\ "default-ssl" \notin Sites
                         /\ SelfSigned # NoText /\ Empty # NoText

VARIABLES
    pem,        \* key, certificate and chain file; torn: since key and certificate were
                \* last written, one was written again without the other
    apache,     \* enabled sites, ports it listens to, whether it serves a chain; failed:
                \* the sites that a2ensite or a2dissite refused to change last
    ports,      \* the ports Juju has opened
    users,      \* the lines of htdigest.users: by account, its passwords in their order
    records,    \* the passwords in /var/lib/juju, by account
    website,    \* the port published on the website relation
    dashboard   \* the scheme published for the dashboard, and in which data bag

webVars == <<pem, apache, ports, users, records, website, dashboard>>

HTTP_ENABLED(o) == o.ssl # "only"
SSL_CONFIGURED(o) == o.ssl \in {"on", "only", "true"}
ssl_configured(o) == o.ssl \in {"on", "only"}

\* str(b64decode(..)): not the text that was encoded but how Python prints bytes.
Printed(text) == <<"b'", text, "'">>

Decodes(o) == ssl_configured(o) /\ o.cert # NoText

\* decode_ssl_keys writes three files in turn; the chain gets the certificate again.
Given(o, file) == CASE file = "key" -> o.key
                    [] file = "cert" -> o.cert
                    [] file = "chain" -> IF o.chain = NoText THEN NoText ELSE o.cert

\* Broken variant of decode_key: the key is forgotten.
Bug_NoKey(o) == pem' = [pem EXCEPT !.torn = @ \/ o.key # NoText]

decode_key(o) ==
    pem' = IF o.key = NoText THEN pem ELSE [pem EXCEPT !.key = Printed(o.key), !.torn = TRUE]

decode_cert(o) == pem' = [pem EXCEPT !.cert = Printed(o.cert), !.torn = FALSE]

decode_chain(o) ==
    pem' = IF o.chain = NoText THEN pem ELSE [pem EXCEPT !.chain = Printed(o.cert)]

\* open(.., "w") empties a file before its option is decoded and written.
Spoil(file) == pem' = [pem EXCEPT ![file] = Empty, !.torn = @ \/ file # "chain"]

\* Without a certificate in the options an existing file stays, whoever made it.
KeysExist(o) == ssl_configured(o) => o.cert = NoText /\ pem.cert # NoText

generate_selfsigned ==
    pem' = [pem EXCEPT !.key = SelfSigned, !.cert = SelfSigned, !.torn = FALSE]

\* openssl fails before or after it has written the key, which enable_ssl does not see.
SelfsignedFails == pem' \in {pem, [pem EXCEPT !.key = SelfSigned, !.torn = TRUE]}

\* Broken variant of PortOf: a port that Juju is not asked to open.
Bug_PortOf(site) == IF site \in SslNamed THEN 443 ELSE 8080

PortOf(site) == IF site \in SslNamed THEN 443 ELSE 80

Toggled(old, set, on) == IF on THEN old \cup set ELSE old \ set

\* Broken variant of PortsAfter: default-ssl first, the other sites after it.
Bug_PortsAfter(o) ==
    Toggled(Toggled(ports, {443}, SSL_CONFIGURED(o)),
            {PortOf(s) : s \in Sites}, HTTP_ENABLED(o))

\* Every site opens or closes its port, default-ssl last.
PortsAfter(o) ==
    Toggled(Toggled(ports, {PortOf(s) : s \in Sites}, HTTP_ENABLED(o)),
            {443}, SSL_CONFIGURED(o))

\* All sites but default-ssl go with http, also those with "ssl" in their names.
SitesAfter(o) == Toggled(Toggled(apache.sites, Sites, HTTP_ENABLED(o)),
                         {"default-ssl"}, SSL_CONFIGURED(o))

\* A call that fails is logged, and the port is opened or closed all the same.
update_apache(o, failed) ==
    /\ apache' = [sites |-> (SitesAfter(o) \ failed) \cup (apache.sites \cap failed),
                  listen |-> Toggled({443}, {80}, HTTP_ENABLED(o)),
                  chain |-> pem.chain \notin {NoText, Empty},
                  failed |-> failed]
    /\ ports' = PortsAfter(o)

\* Broken variant of DropLines: sed's pattern matches no account.
Bug_KeepLines(account) == users

\* sed -i /^account:/d
DropLines(account) == [users EXCEPT ![account] = << >>]

\* Removed passwords take their lines with them.  A changed one goes behind the lines of
\* those before it, and apache takes the first line of an account.
update_password(account, password) ==
    /\ records' = [records EXCEPT ![account] = password]
    /\ users' = IF password # NoText THEN [users EXCEPT ![account] = Append(@, password)]
                ELSE DropLines(account)

\* website-relation-joined.
WebsiteJoined(o) == website' = IF o.ssl = "only" THEN 443 ELSE 80

\* Only the leader publishes.  relation_set has no parameter "app": it becomes a
\* setting among the others, in the data bag of the unit.
application_dashboard(o, leader) ==
    dashboard' = IF leader
                 THEN [scheme |-> IF o.key # NoText THEN "https" ELSE "http", bag |-> "unit"]
                 ELSE dashboard

\* After install: apache as it comes with the distribution, and port 80.
WebInit(accounts) ==
    /\ pem = [key |-> NoText, cert |-> NoText, chain |-> NoText, torn |-> FALSE]
    /\ apache = [sites |-> Sites \ SslNamed, listen |-> {80, 443}, chain |-> FALSE,
                 failed |-> {}]
    /\ ports = {80}
    /\ users = [a \in accounts |-> << >>]
    /\ records = [a \in accounts |-> NoText]
    /\ website = NoText
    /\ dashboard = NoText
=============================================================================
