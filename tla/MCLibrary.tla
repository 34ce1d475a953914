------------------------------ MODULE MCLibrary ------------------------------
(***************************************************************************)
(* The instance of Library for TLC: values for the constants that the      *)
(* configurations cannot write down.                                       *)
(***************************************************************************)
EXTENDS Library

MCPrefixes == {Keys}
MCSettings == {NoSettings, "some", "some and a list"}

\* Of the versions of the charm, one gives db a port that another gives web.
Defined(web, db) == [s \in {"web", "db"} |-> IF s = "web" THEN {web} ELSE db]
MCOrder == <<"web", "db">>
MCDefinitions == {Defined(80, {5432}), Defined(8080, {5432}), Defined(80, {80, 5432})}
MCRequired == [s \in {"web", "db"} |-> IF s = "web" THEN {CHOOSE k \in Keys : TRUE} ELSE Keys]

\* "check_my_check_disk" ends in "_check_disk".
MCChecks == {"disk", "my_check_disk", "load"}
MCEndsWith == [c \in MCChecks |-> IF c = "disk" THEN {"disk", "my_check_disk"} ELSE {c}]
MCVersions == {<< <<"add", "disk">>, <<"add", "my_check_disk">>, <<"add", "load">> >>,
               << <<"add", "my_check_disk">>, <<"add", "disk">> >>,
               << <<"remove", "load">>, <<"remove", "disk">>, <<"add", "disk">> >>,
               << <<"add", "my_check_disk">>, <<"remove", "my_check_disk">>,
                  <<"remove", "disk">> >>}

MCPaths == {"a", "b", "cert"}
MCServices == {"s", "t"}
MCRestartMap == [p \in {"a", "b"} |-> IF p = "a" THEN {"s"} ELSE {"s", "t"}]

\* One source of every kind, and two that do not fit.
MCSources ==
    {[kind |-> k, release |-> TRUE, pocket |-> TRUE] :
        k \in {"distro", "proposed", "repository", "staging", "pocket", "unknown"}}
  \cup {[kind |-> "pocket", release |-> TRUE, pocket |-> FALSE],
        [kind |-> "staging", release |-> FALSE, pocket |-> TRUE]}

\* Two nrpe commands that end in the same word, and optional values of the others.
MCExtras ==
    [f \in {"http", "mysql", "pgsql", "nrpe", "tcp", "rpc"} |->
        CASE f = "http" -> {[port |-> "80", path |-> "/", status |-> s, host |-> h] :
                              s \in {NoText, "200"}, h \in {NoText, "www"}}
          [] f = "mysql" -> {[user |-> u, password |-> p] :
                              u \in {NoText, "root"}, p \in {NoText, "x"}}
          [] f = "pgsql" -> {<< >>}
          [] f = "nrpe" -> {[command |-> "check /srv/a"], [command |-> "check /var/a"]}
          [] f = "rpc" -> {[rpc_command |-> "nfs", program_version |-> NoText]}
          [] f = "tcp" -> {[port |-> "1", string |-> NoText, expect |-> NoText, warning |-> w,
                            critical |-> NoText, timeout |-> NoText] : w \in {NoText, "1"}}]
MCSpelled == [t \in {"check /srv/a", "check /var/a"} |-> <<"a">>]
MCConfigs == {[check_timeout |-> "10", nrpe_packet_version |-> v] : v \in {2, 3}}

MCKeySets == {{"name", "host", "service"}, {"name"}, {"name", "pager"},
              {"host", "service", "pager"}, {"name", "host", "service", "pager"}}
=============================================================================
