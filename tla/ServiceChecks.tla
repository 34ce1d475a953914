---------------------------- MODULE ServiceChecks ----------------------------
(***************************************************************************)
(* The commands of service checks (customize_service and what it calls in  *)
(* src/hooks/common.py).  A command is defined once, under a signature of  *)
(* its arguments without directories and punctuation, and stays; checks    *)
(* with the same signature share it and give their own values for $ARGn$.  *)
(*                                                                         *)
(* An argument is a tuple of its own: <<text>>, or <<"ARG", n>> for $ARGn$.*)
(***************************************************************************)
EXTENDS Naturals, Sequences, FiniteSets, SequencesExt

CONSTANTS
    Names,       \* of the monitors of a host
    Extras,      \* by family, what a monitor may ask for: NoText for what it does not
    Spelled,     \* what is left in a signature of texts that have "/" or punctuation
    NoText, NoService,
    Configs,     \* values of check_timeout and nrpe_packet_version
    MaxCommands  \* bound on the commands

VARIABLES
    commands,       \* command lines by signature, as a set of pairs
    services,       \* by name, the check: its signature and its values
    config

vars == <<commands, services, config>>

Plugins ==
    [http |-> "check_http", mysql |-> "check_mysql", pgsql |-> "check_pgsql",
     nrpe |-> "check_nrpe", rpc |-> "check_rpc", tcp |-> "check_tcp"]
Plugin(family) == <<Plugins[family]>>

\* The checks of nrpe whose command is not asked for, but named after them.
OwnCommands == [mem |-> "check_mem", swap |-> "check_swap"]

Places == <<"1", "2", "3", "4">>
Arg(n) == <<"ARG", Places[n]>>
HostAddress == <<"$HOSTADDRESS$">>

\* The texts of the command lines that are the charm's own.
Own ==
    {Plugins[family] : family \in DOMAIN Plugins} \cup {OwnCommands[name] : name \in DOMAIN OwnCommands}
      \cup {"$HOSTADDRESS$", "ARG", "1", "2", "3", "4"}
      \cup {"-2", "-c", "-C", "-e", "-E", "-H", "-I", "-p", "-s", "-t", "-u", "-w"}

Reduced(arg) == IF Len(arg) = 1 /\ arg[1] \in DOMAIN Spelled THEN Spelled[arg[1]] ELSE arg

\* What is left of them.
Remains == UNION {Range(Spelled[text]) : text \in DOMAIN Spelled}

\* Broken variant of signature: of the plugin and the places, without the switches.
Bug_signature(cmd_args) ==
    cmd_args[1] \o FlattenSeq(SelectSeq(Tail(cmd_args), LAMBDA a : Len(a) = 2))

\* The base names of the arguments, joined.
signature(cmd_args) == FlattenSeq([i \in 1 .. Len(cmd_args) |-> Reduced(cmd_args[i])])

Option(switch, value) == IF value = NoText THEN << >> ELSE << <<switch>>, <<value>> >>

\* _extend_args: the value goes to args, its place to the command line.
Extended(line, switch, value) ==
    IF value = NoText THEN line
    ELSE [args |-> Append(line.args, value),
          cmd_args |-> line.cmd_args \o << <<switch>>, Arg(Len(line.args) + 1)>>]

And(line, more) == [line EXCEPT !.cmd_args = @ \o more]

Plain(family) == [args |-> << >>, cmd_args |-> <<Plugin(family), <<"-H">>, HostAddress>>]

customize_http(extra) ==
    LET first == [args |-> <<extra.port, extra.path>>,
                  cmd_args |-> <<Plugin("http"), <<"-p">>, Arg(1), <<"-u">>, Arg(2)>>]
        status == Extended(first, "-e", extra.status)
    IN  IF extra.host = NoText THEN And(status, << <<"-H">>, HostAddress>>)
        ELSE And(Extended(status, "-H", extra.host), << <<"-I">>, HostAddress>>)

customize_mysql(extra) ==
    Extended(Extended(Plain("mysql"), "-u", extra.user), "-p", extra.password)

customize_pgsql == Plain("pgsql")

customize_nrpe(name, extra) ==
    And(Plain("nrpe"),
        (IF config.nrpe_packet_version = 2 THEN << <<"-2">> >> ELSE << >>)
          \o Option("-c", IF name \in DOMAIN OwnCommands THEN OwnCommands[name] ELSE extra.command))

customize_rpc(extra) ==
    And(Plain("rpc"), Option("-C", extra.rpc_command) \o Option("-c", extra.program_version))

customize_tcp(extra) ==
    And(Plain("tcp"), << <<"-E">> >> \o Option("-p", extra.port) \o Option("-s", extra.string)
                        \o Option("-e", extra.expect) \o Option("-w", extra.warning)
                        \o Option("-c", extra.critical) \o Option("-t", extra.timeout))

Customized(name, family, extra) ==
    CASE family = "http" -> customize_http(extra) [] family = "mysql" -> customize_mysql(extra)
      [] family = "pgsql" -> customize_pgsql [] family = "nrpe" -> customize_nrpe(name, extra)
      [] family = "rpc" -> customize_rpc(extra) [] family = "tcp" -> customize_tcp(extra)

\* check_rpc has no timeout.
Line(name, family, extra) ==
    And(Customized(name, family, extra),
        IF family = "rpc" THEN << >> ELSE Option("-t", config.check_timeout))

Signed == {pair[1] : pair \in commands}

\* The line with the check's values in it.
Expanded(cmd_args, args) ==
    [i \in 1 .. Len(cmd_args) |->
        IF Len(cmd_args[i]) = 1 THEN cmd_args[i]
        ELSE <<args[CHOOSE n \in 1 .. Len(Places) : Arg(n) = cmd_args[i]]>>]
-----------------------------------------------------------------------------
\* _make_check_command takes the command that is there.  Families without a function of
\* their own are ignored.
customize_service(name, family, extra) ==
    LET line == Line(name, family, extra)
        sig == signature(line.cmd_args)
    IN  /\ commands' = IF sig \in Signed THEN commands
                       ELSE commands \cup {<<sig, line.cmd_args>>}
        /\ Cardinality(commands') <= MaxCommands
        /\ services' = [services EXCEPT ![name] =
                [family |-> family, sig |-> sig, args |-> line.args,
                 meant |-> Expanded(line.cmd_args, line.args)]]
        /\ UNCHANGED config

\* Files of hosts are removed and written anew, those of commands are not.
Removed(name) ==
    /\ services' = [services EXCEPT ![name] = NoService]
    /\ UNCHANGED <<commands, config>>

ChangeConfig == config' \in Configs /\ UNCHANGED <<commands, services>>

Init ==
    /\ commands = {} /\ services = [n \in Names |-> NoService]
    /\ config \in Configs

Next ==
    \/ \E n \in Names, f \in DOMAIN Extras : \E extra \in Extras[f] : customize_service(n, f, extra)
    \/ ChangeConfig \/ \E n \in Names : Removed(n)

Spec == Init /\ [][Next]_vars
-----------------------------------------------------------------------------
TypeOK ==
    /\ \A pair \in commands : signature(pair[2]) = pair[1]
    /\ config \in Configs

\* What nagios runs for a check.
Runs(check) ==
    Expanded((CHOOSE pair \in commands : pair[1] = check.sig)[2], check.args)

\* "There is some worry of collision, but the uniqueness of the initial command should be
\* enough": it is for the families that give their values as $ARGn$, which run what they
\* are meant to run, with whatever optional values and whichever check came first, and for
\* the plugin of the others, whose values may be those of another check.
CommandsFit ==
    \A n \in Names : services[n] # NoService =>
        /\ services[n].family \in {"http", "mysql", "pgsql"} =>
              Runs(services[n]) = services[n].meant
        /\ Runs(services[n])[1] = services[n].meant[1]
=============================================================================
