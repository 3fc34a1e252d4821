------------------------------- MODULE Config -------------------------------
(***************************************************************************)
(* Start-up configuration: CMvConfig::Load (src/src/config.cpp) picks the  *)
(* mode from the executable name and the first command word, and           *)
(* CMvNetworkConfig::PostLoad (src/src/mode/network_config.cpp) derives    *)
(* the port, the inbound and outbound connection limits and the connect    *)
(* timeout from the parsed options.  Load runs once, then the mode's       *)
(* option parser (not in src/) ends with PostLoad.  CMvEntry::Initialize   *)
(* (module Entry) runs both.                                               *)
(***************************************************************************)
EXTENDS Integers

\* the executable names Load tests, and one other ("multiverse")
Execs == {"multiverse-server", "multiverse-miner", "multiverse-dnseed",
          "multiverse-cli", "multiverse"}
\* the first command word ("" when there is none), and one other
Cmds  == {"", "server", "miner", "dnseed", "console", "getinfo"}

Modes == {"SERVER", "MINER", "DNSEED", "CONSOLE"}

DEFAULT_P2PPORT         == 6811
DEFAULT_TESTNET_P2PPORT == 6813
DEFAULT_MAX_OUTBOUNDS   == 10

\* option values around every boundary PostLoad tests
Options == [portInt : {-1, 0, 6812, 65535, 65536},
            maxConnection : {0, 10, 11, 135},
            listen : BOOLEAN, testNet : BOOLEAN,
            connectTimeout : {0, 5}]

NoMode == [em |-> "NONE", ignoreCmd |-> 0]
NoNet  == [port |-> 0, maxIn |-> 0, maxOut |-> 0, timeout |-> 0, done |-> FALSE]

VARIABLES
    argv,    \* [exec, cmd]: argv[0]'s file name and the first command word
    opt,     \* the options the parser read
    mode,    \* emMode and the ignoreCmd given to the mode's config
    net      \* what PostLoad set

configVars == <<argv, opt, mode, net>>

\* Load's mode selection: the executable name first, then the command word
LoadMode(exec, cmd) ==
    CASE exec = "multiverse-server" -> [em |-> "SERVER", ignoreCmd |-> 0]
      [] exec = "multiverse-miner" \/ cmd = "miner" -> [em |-> "MINER", ignoreCmd |-> 0]
      [] exec = "multiverse-dnseed" -> [em |-> "DNSEED", ignoreCmd |-> 0]
      [] exec = "multiverse-cli" -> [em |-> "CONSOLE", ignoreCmd |-> 0]
      [] cmd \in {"server", ""} -> [em |-> "SERVER", ignoreCmd |-> IF cmd = "server" THEN 1 ELSE 0]
      [] cmd = "miner" -> [em |-> "MINER", ignoreCmd |-> 1]
      [] cmd = "dnseed" -> [em |-> "DNSEED", ignoreCmd |-> 1]
      [] OTHER -> [em |-> "CONSOLE", ignoreCmd |-> IF cmd = "console" THEN 1 ELSE 0]

\* (unsigned short) of an int
UShort(i) == i % 65536

\* Mutation of PostLoad: the inbound limit always maxconnections - 10
PostLoadNoFloor(o) ==
    [port    |-> IF o.portInt <= 0 \/ o.portInt > 65535
                 THEN (IF o.testNet THEN DEFAULT_TESTNET_P2PPORT ELSE DEFAULT_P2PPORT)
                 ELSE UShort(o.portInt),
     maxOut  |-> DEFAULT_MAX_OUTBOUNDS,
     maxIn   |-> o.maxConnection - DEFAULT_MAX_OUTBOUNDS,
     timeout |-> IF o.connectTimeout = 0 THEN 1 ELSE o.connectTimeout,
     done    |-> TRUE]

\* Mutation of PostLoad: the small-limit test written with < instead of <=
PostLoadStrict(o) ==
    [port    |-> IF o.portInt <= 0 \/ o.portInt > 65535
                 THEN (IF o.testNet THEN DEFAULT_TESTNET_P2PPORT ELSE DEFAULT_P2PPORT)
                 ELSE UShort(o.portInt),
     maxOut  |-> DEFAULT_MAX_OUTBOUNDS,
     maxIn   |-> IF o.maxConnection < DEFAULT_MAX_OUTBOUNDS
                 THEN (IF o.listen THEN 1 ELSE 0)
                 ELSE o.maxConnection - DEFAULT_MAX_OUTBOUNDS,
     timeout |-> IF o.connectTimeout = 0 THEN 1 ELSE o.connectTimeout,
     done    |-> TRUE]

\* PostLoad: a port outside 1..65535 falls back to the default of the
\* network; 10 outbound; inbound the rest of maxconnections, or 1 for a
\* listening node when maxconnections leaves none; a zero timeout becomes 1
PostLoadOf(o) ==
    [port    |-> IF o.portInt <= 0 \/ o.portInt > 65535
                 THEN (IF o.testNet THEN DEFAULT_TESTNET_P2PPORT ELSE DEFAULT_P2PPORT)
                 ELSE UShort(o.portInt),
     maxOut  |-> DEFAULT_MAX_OUTBOUNDS,
     maxIn   |-> IF o.maxConnection <= DEFAULT_MAX_OUTBOUNDS
                 THEN (IF o.listen THEN 1 ELSE 0)
                 ELSE o.maxConnection - DEFAULT_MAX_OUTBOUNDS,
     timeout |-> IF o.connectTimeout = 0 THEN 1 ELSE o.connectTimeout,
     done    |-> TRUE]

ConfigInit ==
    /\ argv \in [exec : Execs, cmd : Cmds]
    /\ opt \in Options
    /\ mode = NoMode
    /\ net = NoNet

\* CMvConfig::Load (argc > 0): the mode, then the mode's config is created
\* and given ignoreCmd
Load ==
    /\ mode = NoMode
    /\ mode' = LoadMode(argv.exec, argv.cmd)
    /\ UNCHANGED <<argv, opt, net>>

\* the mode's option parser ends with PostLoad
PostLoad ==
    /\ mode # NoMode /\ ~net.done
    /\ net' = PostLoadOf(opt)
    /\ UNCHANGED <<argv, opt, mode>>

ConfigTypeOK ==
    /\ argv \in [exec : Execs, cmd : Cmds]
    /\ opt \in Options
    /\ mode \in [em : Modes, ignoreCmd : {0, 1}] \cup {NoMode}
    /\ net \in [port : 0..65535, maxIn : Nat, maxOut : Nat, timeout : Nat, done : BOOLEAN]

(***************************************************************************)
(* PROPERTIES                                                              *)
(***************************************************************************)

\* After PostLoad the node has a usable network set-up: the port is a real
\* TCP port (the configured one when it is one), the connect timeout is
\* positive, and a listening node has room for at least one inbound peer.
NetworkLimits ==
    net.done =>
        /\ net.port \in 1..65535
        /\ (opt.portInt \in 1..65535 => net.port = opt.portInt)
        /\ net.timeout >= 1
        /\ (opt.listen => net.maxIn >= 1)

=============================================================================
