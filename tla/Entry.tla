------------------------------- MODULE Entry -------------------------------
(***************************************************************************)
(* Start-up and shutdown of a node, CMvEntry (src/src/entry.cpp), over the *)
(* configuration of module Config and the files of the data directory      *)
(* that processes share: the pid file multiverse.pid and the lock file     *)
(* .lock.                                                                  *)
(*                                                                         *)
(* Processes: "main", the invocation; "daemon", the child RunInBackground  *)
(* forks (it starts where fork() returned, with a copy of main's state);   *)
(* "other", a node started earlier on the same data directory, which may   *)
(* hold the lock and own the pid file.  Each process is one thread of      *)
(* control; only the shared files make their order matter.                 *)
(*                                                                         *)
(* CMvEntry is a function-local static (GetInstance), so its destructor,   *)
(* which calls Exit(), runs once when the process ends: when main returns  *)
(* and also at the exit(0) of the parent after fork.  The lock of          *)
(* TryLockFile (not in src/) is held until the process ends.               *)
(* CMode::GetModules (not in src/) is the constant ModeModules.            *)
(***************************************************************************)
EXTENDS Config, Sequences, FiniteSets, Functions

CONSTANTS
    ModeModules,  \* mode -> the EModuleType list InitializeModules walks
    OtherKinds    \* module types attached through AttachModule alone

\* the module types with their own branch in InitializeModules
Kinds == {"LOCK", "HTTPSERVER", "RPCMODE"} \cup OtherKinds

ASSUME ModeModules \in [Modes -> Seq(Kinds)]

Procs == {"main", "daemon"}
PCs == {"none", "load", "postload", "init", "fork", "pidfile", "setup",
        "modules", "run", "running", "exit", "done"}
NoPid == "none"

VARIABLES
    flags,       \* the parsed fHelp and fDaemon
    pc,          \* where each process is
    idx,         \* the position of InitializeModules in its list
    attached,    \* the module types attached to each process's docker
    lockHolder,  \* the processes holding the data-directory lock
    pidFile,     \* the process multiverse.pid names, or NoPid
    pidWritten,  \* history: the parent wrote multiverse.pid
    otherAlive   \* the earlier node still runs

entryVars == <<flags, pc, idx, attached, lockHolder, pidFile, pidWritten, otherAlive>>
vars == <<configVars, entryVars>>

\* the mode's config skips ignoreCmd command words; one word is modelled
VecCommandEmpty == argv.cmd = "" \/ mode.ignoreCmd = 1

IsNode == mode.em \in {"SERVER", "MINER"}

Init ==
    /\ ConfigInit
    /\ flags \in [help : BOOLEAN, daemon : BOOLEAN]
    /\ pc = [p \in Procs |-> IF p = "main" THEN "load" ELSE "none"]
    /\ idx = [p \in Procs |-> 1]
    /\ attached = [p \in Procs |-> {}]
    /\ otherAlive \in BOOLEAN
    /\ lockHolder = IF otherAlive THEN {"other"} ELSE {}
    /\ pidFile \in IF otherAlive THEN {"other", NoPid} ELSE {NoPid}
    /\ pidWritten = FALSE

Goto(p, l) == pc' = [pc EXCEPT ![p] = l]

\* Initialize: mvConfig.Load, which fails when the options do not parse
LoadStep ==
    /\ pc["main"] = "load"
    /\ Load
    /\ \E parsed \in BOOLEAN : Goto("main", IF parsed THEN "postload" ELSE "exit")
    /\ UNCHANGED <<flags, idx, attached, lockHolder, pidFile, pidWritten, otherAlive>>

\* Initialize: GetConfig()->PostLoad(), which returns true
PostLoadStep ==
    /\ pc["main"] = "postload"
    /\ PostLoad
    /\ Goto("main", "init")
    /\ UNCHANGED <<flags, idx, attached, lockHolder, pidFile, pidWritten, otherAlive>>

\* Initialize after the configuration: help, the data directory, then the
\* daemon for the server and miner modes
InitializeStep ==
    /\ pc["main"] = "init"
    /\ \E dirOk \in BOOLEAN :
          Goto("main", IF flags.help \/ ~dirOk THEN "exit"
                       ELSE IF flags.daemon /\ IsNode THEN "fork"
                       ELSE "setup")
    /\ UNCHANGED <<configVars, flags, idx, attached, lockHolder, pidFile, pidWritten, otherAlive>>

\* RunInBackground: fork() fails (return false), or the child goes on with
\* Initialize and the parent goes to write the pid file
Fork ==
    /\ pc["main"] = "fork"
    /\ \/ Goto("main", "exit")
       \/ pc' = [main |-> "pidfile", daemon |-> "setup"]
    /\ UNCHANGED <<configVars, flags, idx, attached, lockHolder, pidFile, pidWritten, otherAlive>>

\* the parent writes the child's pid when fopen succeeds, then exit(0)
WritePidFile ==
    /\ pc["main"] = "pidfile"
    /\ \E opened \in BOOLEAN :
          /\ pidFile' = IF opened THEN "daemon" ELSE pidFile
          /\ pidWritten' = opened
    /\ Goto("main", "exit")
    /\ UNCHANGED <<configVars, flags, idx, attached, lockHolder, otherAlive>>

\* SetLogFilePath (server and miner) and walleveDocker.Initialize
Setup(p) ==
    /\ pc[p] = "setup"
    /\ \E ok \in BOOLEAN : Goto(p, IF ok THEN "modules" ELSE "exit")
    /\ UNCHANGED <<configVars, flags, idx, attached, lockHolder, pidFile, pidWritten, otherAlive>>

\* Mutation of ModuleStep: the result of TryLockFile not checked
ModuleStepIgnoresLock(p) ==
    LET list == ModeModules[mode.em]  m == list[idx[p]] IN
    /\ pc[p] = "modules"
    /\ idx[p] <= Len(list)
    /\ IF m = "LOCK"
       THEN /\ lockHolder' = lockHolder \cup {p}
            /\ idx' = [idx EXCEPT ![p] = @ + 1]
            /\ UNCHANGED <<pc, attached>>
       ELSE IF m = "RPCMODE" /\ "HTTPSERVER" \notin attached[p]
       THEN Goto(p, "exit") /\ UNCHANGED <<lockHolder, idx, attached>>
       ELSE \E ok \in BOOLEAN :
              IF ok
              THEN /\ attached' = [attached EXCEPT ![p] = @ \cup {m}]
                   /\ idx' = [idx EXCEPT ![p] = @ + 1]
                   /\ UNCHANGED <<pc, lockHolder>>
              ELSE Goto(p, "exit") /\ UNCHANGED <<lockHolder, idx, attached>>
    /\ UNCHANGED <<configVars, flags, pidFile, pidWritten, otherAlive>>

(***************************************************************************)
(* One iteration of InitializeModules: LOCK takes the data-directory lock  *)
(* or fails; RPCMODE needs the "httpserver" object and attaches CRPCMod;   *)
(* any other type is constructed and attached.  AttachModule deletes a    *)
(* module the docker refuses and the iteration returns false.              *)
(***************************************************************************)
ModuleStep(p) ==
    LET list == ModeModules[mode.em]  m == list[idx[p]] IN
    /\ pc[p] = "modules"
    /\ idx[p] <= Len(list)
    /\ IF m = "LOCK"
       THEN IF lockHolder = {}
            THEN /\ lockHolder' = {p}
                 /\ idx' = [idx EXCEPT ![p] = @ + 1]
                 /\ UNCHANGED <<pc, attached>>
            ELSE Goto(p, "exit") /\ UNCHANGED <<lockHolder, idx, attached>>
       ELSE IF m = "RPCMODE" /\ "HTTPSERVER" \notin attached[p]
       THEN Goto(p, "exit") /\ UNCHANGED <<lockHolder, idx, attached>>
       ELSE \E ok \in BOOLEAN :
              IF ok
              THEN /\ attached' = [attached EXCEPT ![p] = @ \cup {m}]
                   /\ idx' = [idx EXCEPT ![p] = @ + 1]
                   /\ UNCHANGED <<pc, lockHolder>>
              ELSE Goto(p, "exit") /\ UNCHANGED <<lockHolder, idx, attached>>
    /\ UNCHANGED <<configVars, flags, pidFile, pidWritten, otherAlive>>

\* the end of the list: InitializeModules and Initialize return true
ModulesDone(p) ==
    /\ pc[p] = "modules"
    /\ idx[p] > Len(ModeModules[mode.em])
    /\ Goto(p, "run")
    /\ UNCHANGED <<configVars, flags, idx, attached, lockHolder, pidFile, pidWritten, otherAlive>>

\* Run: walleveDocker.Run(), then CWalleveEntry::Run until a stop signal
Run(p) ==
    /\ pc[p] = "run"
    /\ \E ok \in BOOLEAN : Goto(p, IF ok THEN "running" ELSE "exit")
    /\ UNCHANGED <<configVars, flags, idx, attached, lockHolder, pidFile, pidWritten, otherAlive>>

Stop(p) ==
    /\ pc[p] = "running"
    /\ Goto(p, "exit")
    /\ UNCHANGED <<configVars, flags, idx, attached, lockHolder, pidFile, pidWritten, otherAlive>>

(***************************************************************************)
(* Exit, from the destructor as the process ends: walleveDocker.Exit(),    *)
(* and ExitBackground removes multiverse.pid when fDaemon is set, no       *)
(* command was given and help was not asked for.  The lock goes with the  *)
(* process.                                                                *)
(***************************************************************************)
Exit(p) ==
    /\ pc[p] = "exit"
    /\ attached' = [attached EXCEPT ![p] = {}]
    /\ pidFile' = IF flags.daemon /\ VecCommandEmpty /\ ~flags.help THEN NoPid ELSE pidFile
    /\ lockHolder' = lockHolder \ {p}
    /\ Goto(p, "done")
    /\ UNCHANGED <<configVars, flags, idx, pidWritten, otherAlive>>

\* the earlier node stops; it was started as a daemon, so its Exit removes
\* multiverse.pid whatever it names
OtherStops ==
    /\ otherAlive
    /\ otherAlive' = FALSE
    /\ lockHolder' = lockHolder \ {"other"}
    /\ pidFile' = NoPid
    /\ UNCHANGED <<configVars, flags, pc, idx, attached, pidWritten>>

\* every process of this invocation has ended
Finished ==
    /\ \A p \in Procs : pc[p] \in {"none", "done"}
    /\ UNCHANGED vars

Next ==
    \/ LoadStep \/ PostLoadStep \/ InitializeStep \/ Fork \/ WritePidFile
    \/ \E p \in Procs : Setup(p) \/ ModuleStep(p) \/ ModulesDone(p)
                        \/ Run(p) \/ Stop(p) \/ Exit(p)
    \/ OtherStops
    \/ Finished

Spec == Init /\ [][Next]_vars

TypeOK ==
    /\ ConfigTypeOK
    /\ flags \in [help : BOOLEAN, daemon : BOOLEAN]
    /\ pc \in [Procs -> PCs]
    /\ idx \in [Procs -> Nat]
    /\ attached \in [Procs -> SUBSET Kinds]
    /\ lockHolder \subseteq Procs \cup {"other"}
    /\ pidFile \in Procs \cup {"other", NoPid}
    /\ pidWritten \in BOOLEAN
    /\ otherAlive \in BOOLEAN

(***************************************************************************)
(* PROPERTIES                                                              *)
(***************************************************************************)

\* the processes running a node whose module list takes the lock
LockedNodes ==
    {p \in Procs : pc[p] \in {"run", "running"} /\ "LOCK" \in Range(ModeModules[mode.em])}
    \cup (IF otherAlive THEN {"other"} ELSE {})

\* Two nodes never run on one data directory: whatever the order of the
\* earlier node stopping, the invocation, its forked daemon and their
\* failures, TryLockFile in InitializeModules lets at most one of them
\* through to Run.
SingleNodePerDataDir == Cardinality(LockedNodes) <= 1

\* While the daemon RunInBackground forked is alive, multiverse.pid, once
\* the parent wrote it, names the daemon (so that the node can be found
\* and stopped).
DaemonKeepsPidFile ==
    (pidWritten /\ pc["daemon"] \notin {"none", "done"}) => pidFile = "daemon"

=============================================================================
