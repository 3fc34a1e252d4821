------------------------------- MODULE MCEntry -------------------------------
(* Model-checking instance of Entry.  CMode::GetModules is not in src/;    *)
(* the lists keep the types InitializeModules treats specially, in the     *)
(* order the node modes need them (the lock first, the HTTP server before  *)
(* the RPC module), with one ordinary module type for each mode.           *)
EXTENDS Entry

MCModeModules ==
    [m \in Modes |->
        CASE m = "SERVER"  -> <<"LOCK", "WORLDLINE", "HTTPSERVER", "RPCMODE">>
          [] m = "MINER"   -> <<"HTTPGET">>
          [] m = "DNSEED"  -> <<"LOCK", "WORLDLINE">>
          [] m = "CONSOLE" -> <<"HTTPGET">>]
=============================================================================
