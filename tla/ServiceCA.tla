------------------------------ MODULE ServiceCA ------------------------------
(***************************************************************************)
(* ServiceCA (src/hooks/charmhelpers/contrib/ssl/service.py): a directory  *)
(* with a certificate authority that is made when the directory is not     *)
(* there, and a key and a certificate for each name that are made when the *)
(* certificate is not there.  A hook may be cut off between any two files. *)
(*                                                                         *)
(* Keys are numbered in the order they are made; 0 is a missing file.      *)
(***************************************************************************)
EXTENDS Naturals

CONSTANTS
    Names,      \* common names
    Missing, Empty,   \* certificates that are not there, or have no content
    MaxKeys     \* bound on the keys that are made

VARIABLES
    ca_dir, layout, conf,   \* the directory, what is in it at first, ca.cnf and signing.cnf
    ca_key, ca_cert,        \* the key of the authority, and that of its certificate
    key, csr, crt,          \* by name; crt says which key it is for and which has signed it
    keys_made,
    step, common_name, outcome,
    refused                 \* openssl has refused to sign in this call

caVars == <<ca_dir, layout, conf, ca_key, ca_cert>>
vars == <<caVars, key, csr, crt, keys_made, step, common_name, outcome, refused>>

At(here, next) == step = here /\ step' = next

End(result) == step' = "idle" /\ outcome' = result

\* get_service_cert, and init: nothing is made in a directory that is there.
GetServiceCert(n) ==
    /\ step = "idle"
    /\ step' = IF ca_dir THEN "find" ELSE "directory"
    /\ common_name' = n /\ outcome' = "none" /\ refused' = FALSE
    /\ UNCHANGED <<caVars, key, csr, crt, keys_made>>

MakeDirectory ==
    /\ At("directory", "layout")
    /\ ca_dir' = TRUE
    /\ UNCHANGED <<layout, conf, ca_key, ca_cert, key, csr, crt, keys_made, common_name,
                   outcome, refused>>

\* _init_ca_dir: certs, private and the other directories, serial and index.txt.
_init_ca_dir ==
    /\ At("layout", "configure")
    /\ layout' = TRUE
    /\ UNCHANGED <<ca_dir, conf, ca_key, ca_cert, key, csr, crt, keys_made, common_name,
                   outcome, refused>>

Configure ==
    /\ At("configure", "authority key")
    /\ conf' = TRUE
    /\ UNCHANGED <<ca_dir, layout, ca_key, ca_cert, key, csr, crt, keys_made, common_name,
                   outcome, refused>>

\* openssl writes the key, then the certificate.
AuthorityKey ==
    /\ At("authority key", "authority certificate")
    /\ keys_made < MaxKeys /\ keys_made' = keys_made + 1
    /\ ca_key' = keys_made'
    /\ UNCHANGED <<ca_dir, layout, conf, ca_cert, key, csr, crt, common_name, outcome,
                   refused>>

AuthorityCertificate ==
    /\ At("authority certificate", "find")
    /\ ca_cert' = ca_key
    /\ UNCHANGED <<ca_dir, layout, conf, ca_key, key, csr, crt, keys_made, common_name,
                   outcome, refused>>

\* A certificate that is there is taken with the key and the authority's certificate, and
\* whichever of the three cannot be read raises.
Find ==
    /\ step = "find"
    /\ IF crt[common_name] = Missing THEN step' = "key" /\ UNCHANGED outcome
       ELSE End(IF key[common_name] = 0 \/ ca_cert = 0 THEN "raised" ELSE "returned")
    /\ UNCHANGED <<caVars, key, csr, crt, keys_made, common_name, refused>>

\* There must be a directory to write to.
NewKey ==
    /\ step = "key"
    /\ IF layout
       THEN /\ keys_made < MaxKeys /\ keys_made' = keys_made + 1
            /\ key' = [key EXCEPT ![common_name] = keys_made']
            /\ step' = "request" /\ UNCHANGED outcome
       ELSE End("raised") /\ UNCHANGED <<key, keys_made>>
    /\ UNCHANGED <<caVars, csr, crt, common_name, refused>>

\* Broken variant of Requested: a request that is there is used.
Bug_Requested(n) == IF csr[n] = 0 THEN key[n] ELSE csr[n]

Requested(n) == key[n]

NewRequest ==
    /\ At("request", "sign")
    /\ csr' = [csr EXCEPT ![common_name] = Requested(common_name)]
    /\ UNCHANGED <<caVars, key, crt, keys_made, common_name, outcome, refused>>

Whole == layout /\ conf /\ ca_key # 0 /\ ca_cert # 0

\* signing.cnf names the authority's key and certificate.
Sign ==
    /\ At("sign", "find")
    /\ Whole
    /\ crt' = [crt EXCEPT ![common_name] = [key |-> csr[common_name], ca |-> ca_key]]
    /\ UNCHANGED <<caVars, key, csr, keys_made, common_name, outcome, refused>>

\* openssl refuses, as it must without an authority.
SignRaises ==
    /\ step = "sign"
    /\ End("raised")
    /\ refused' = Whole
    /\ UNCHANGED <<caVars, key, csr, crt, keys_made, common_name>>

\* While openssl signs, its output may be there and empty.
CutOff ==
    /\ step # "idle"
    /\ End("none")
    /\ \/ UNCHANGED crt
       \/ step = "sign" /\ crt' = [crt EXCEPT ![common_name] = Empty]
    /\ UNCHANGED <<caVars, key, csr, keys_made, common_name, refused>>

Init ==
    /\ ca_dir = FALSE /\ layout = FALSE /\ conf = FALSE /\ ca_key = 0 /\ ca_cert = 0
    /\ key = [n \in Names |-> 0] /\ csr = key /\ crt = [n \in Names |-> Missing]
    /\ keys_made = 0
    /\ step = "idle" /\ common_name \in Names /\ outcome = "none" /\ refused = FALSE

Next == \/ \E n \in Names : GetServiceCert(n)
        \/ MakeDirectory \/ _init_ca_dir \/ Configure \/ AuthorityKey \/ AuthorityCertificate
        \/ Find \/ NewKey \/ NewRequest \/ Sign \/ SignRaises \/ CutOff

Spec == Init /\ [][Next]_vars
-----------------------------------------------------------------------------
TypeOK ==
    /\ ca_key \in 0 .. MaxKeys /\ ca_cert \in {0, ca_key}
    /\ \A n \in Names : key[n] \in 0 .. keys_made /\ csr[n] \in 0 .. keys_made
    /\ outcome \in {"none", "returned", "raised"}

\* However often hooks were cut off: what get_service_cert returns fits together, the key
\* with the certificate and that with the authority's, unless a signing was cut off while
\* the certificate was written.  It raises only when openssl refuses, or when the
\* authority was cut off while it was made: then it raises for every name, for good.
CertificatesFit ==
    /\ outcome = "returned" =>
        /\ Whole
        /\ crt[common_name] \in {Empty, [key |-> key[common_name], ca |-> ca_cert]}
    /\ outcome = "raised" => refused \/ ~Whole
    /\ ca_dir /\ ~Whole /\ step = "idle" => \A n \in Names : crt[n] \in {Missing, Empty}
=============================================================================
