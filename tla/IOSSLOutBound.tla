---------------------------- MODULE IOSSLOutBound ----------------------------
(***************************************************************************)
(* CIOSSLOutBound (src/walleve/walleve/netio/iocontainer.cpp): outbound    *)
(* connects, optionally over SSL, with a client object created per connect *)
(* (ClientAlloc: new) and deleted when it is closed (ClientClose: delete). *)
(* The connection count is capped by nMaxConn.  As in IOOutBound every     *)
(* handler is atomic on the io_service thread.                             *)
(*                                                                         *)
(* Client objects are numbered in allocation order; the k-th ConnectTo     *)
(* allocates object k and arms the k-th timer, so a timer and the object   *)
(* it guards share their number.  From the use of CIOClient (not in src/): *)
(* Close() aborts an in-flight connect and calls ClientClose at once;     *)
(* Shutdown() starts the socket's orderly shutdown, which ends in Close(). *)
(***************************************************************************)
EXTENDS Naturals, FiniteSets

CONSTANTS
    MaxConn,      \* nMaxConn, set by Invoke
    MaxConnects   \* bound: number of ConnectTo calls

Objs    == 1..MaxConnects
Handler == [client : Objs, err : {"ok", "error", "aborted"}]

VARIABLES
    inuse,        \* setInuseClient
    freed,        \* client objects deleted
    nAlloc,       \* client objects allocated so far
    connecting,   \* clients with an in-flight connect
    handlers,     \* connect completions queued on the io_service
    pending,      \* timer ids in mapPending (mapPending[t] is object t)
    timers,       \* timer ids armed in CIOProc
    shutting,     \* clients whose Shutdown() has not yet closed them
    established,  \* clients ClientConnected accepted
    halted        \* Halt ran; the io_service has stopped

vars == <<inuse, freed, nAlloc, connecting, handlers, pending, timers,
          shutting, established, halted>>

\* pClient->Close() with ClientClose: an in-use client is deleted
Close(c) ==
    /\ handlers' = IF c \in connecting
                   THEN handlers \cup {[client |-> c, err |-> "aborted"]}
                   ELSE handlers
    /\ connecting' = connecting \ {c}
    /\ shutting' = shutting \ {c}
    /\ established' = established \ {c}
    /\ IF c \in inuse
       THEN /\ inuse' = inuse \ {c}
            /\ freed' = freed \cup {c}
       ELSE UNCHANGED <<inuse, freed>>

\* the state after Invoke(nMaxConn)
Init ==
    /\ inuse = {} /\ freed = {} /\ nAlloc = 0
    /\ connecting = {} /\ handlers = {} /\ pending = {} /\ timers = {}
    /\ shutting = {} /\ established = {} /\ halted = FALSE

\* Mutation of ConnectTo: the new object numbered before the counter moves
ConnectToPrevObject ==
    /\ ~halted /\ nAlloc < MaxConnects
    /\ Cardinality(inuse) < MaxConn
    /\ LET o == nAlloc IN
       /\ nAlloc' = o + 1
       /\ timers' = timers \cup {o}
       /\ connecting' = connecting \cup {o}
       /\ inuse' = inuse \cup {o}
       /\ pending' = pending \cup {o}
    /\ UNCHANGED <<freed, handlers, shutting, established, halted>>

\* ConnectTo: refused at nMaxConn clients in use; otherwise a new client,
\* a timer, the connect, the client in setInuseClient and in mapPending.
\* (ClientAlloc returning NULL on an SSL context error changes nothing.)
ConnectTo ==
    /\ ~halted /\ nAlloc < MaxConnects
    /\ Cardinality(inuse) < MaxConn
    /\ LET o == nAlloc + 1 IN
       /\ nAlloc' = o
       /\ timers' = timers \cup {o}
       /\ connecting' = connecting \cup {o}
       /\ inuse' = inuse \cup {o}
       /\ pending' = pending \cup {o}
    /\ UNCHANGED <<freed, handlers, shutting, established, halted>>

\* the network completes an in-flight connect; its handler is queued
ConnectDone(c) ==
    /\ ~halted /\ c \in connecting
    /\ \E res \in {"ok", "error"} : handlers' = handlers \cup {[client |-> c, err |-> res]}
    /\ connecting' = connecting \ {c}
    /\ UNCHANGED <<inuse, freed, nAlloc, pending, timers, shutting, established, halted>>

\* timer t expires: Timeout closes (deletes) the pending client and erases it
Timeout(t) ==
    /\ ~halted /\ t \in timers
    /\ timers' = timers \ {t}
    /\ IF t \in pending
       THEN Close(t) /\ pending' = pending \ {t}
       ELSE UNCHANGED <<handlers, connecting, shutting, established, inuse, freed, pending>>
    /\ UNCHANGED <<nAlloc, halted>>

\* Mutation of HandleConnect: a failed connect not shut down
HandleConnectNoShutdown(h) ==
    /\ ~halted /\ h \in handlers
    /\ handlers' = handlers \ {h}
    /\ timers' = timers \ {h.client}
    /\ pending' = pending \ {h.client}
    /\ CASE h.err = "ok" ->
              \/ established' = established \cup {h.client} /\ UNCHANGED shutting
              \/ shutting' = shutting \cup {h.client} /\ UNCHANGED established
         [] OTHER -> UNCHANGED <<shutting, established>>
    /\ UNCHANGED <<inuse, freed, nAlloc, connecting, halted>>

\* HandleConnect: CancelTimer and erase first; success offers the client to
\* ClientConnected (refused: Shutdown); a real error shuts it down;
\* operation_aborted only reports ClientFailToConnect
HandleConnect(h) ==
    /\ ~halted /\ h \in handlers
    /\ handlers' = handlers \ {h}
    /\ timers' = timers \ {h.client}
    /\ pending' = pending \ {h.client}
    /\ CASE h.err = "ok" ->
              \/ established' = established \cup {h.client} /\ UNCHANGED shutting
              \/ shutting' = shutting \cup {h.client} /\ UNCHANGED established
         [] h.err = "error" ->
              shutting' = shutting \cup {h.client} /\ UNCHANGED established
         [] h.err = "aborted" -> UNCHANGED <<shutting, established>>
    /\ UNCHANGED <<inuse, freed, nAlloc, connecting, halted>>

\* the orderly shutdown Shutdown() started ends in Close()
ShutdownDone(c) ==
    /\ ~halted /\ c \in shutting
    /\ Close(c)
    /\ UNCHANGED <<nAlloc, pending, timers, halted>>

\* the peer layer closes a connection it owns
PeerClose(c) ==
    /\ ~halted /\ c \in established
    /\ Close(c)
    /\ UNCHANGED <<nAlloc, pending, timers, halted>>

\* Halt: every pending timer cancelled, mapPending cleared, every in-use
\* client closed (deleted); queued handlers never run
Halt ==
    /\ ~halted
    /\ timers' = timers \ pending
    /\ pending' = {}
    /\ inuse' = {}
    /\ freed' = freed \cup inuse
    /\ connecting' = connecting \ inuse
    /\ shutting' = shutting \ inuse
    /\ established' = established \ inuse
    /\ halted' = TRUE
    /\ UNCHANGED <<nAlloc, handlers>>

Stopped == halted /\ UNCHANGED vars

Next ==
    \/ ConnectTo
    \/ \E c \in Objs : ConnectDone(c) \/ Timeout(c) \/ ShutdownDone(c) \/ PeerClose(c)
    \/ \E h \in handlers : HandleConnect(h)
    \/ Halt
    \/ Stopped

\* queued handlers run, connects complete, armed timers expire, shutdowns end
Fairness ==
    /\ \A c \in Objs : WF_vars(ConnectDone(c)) /\ WF_vars(Timeout(c)) /\ WF_vars(ShutdownDone(c))
    /\ \A h \in Handler : WF_vars(HandleConnect(h))

Spec == Init /\ [][Next]_vars /\ Fairness

TypeOK ==
    /\ inuse \subseteq Objs /\ freed \subseteq Objs
    /\ nAlloc \in 0..MaxConnects
    /\ connecting \subseteq Objs /\ handlers \subseteq Handler
    /\ pending \subseteq Objs /\ timers \subseteq Objs
    /\ shutting \subseteq Objs /\ established \subseteq Objs
    /\ halted \in BOOLEAN

(***************************************************************************)
(* PROPERTIES                                                              *)
(***************************************************************************)

\* A client that is not handed to the peer layer is deleted in the end: a
\* failed, refused or timed-out connect releases its nMaxConn slot, so
\* ConnectTo does not run out of slots.
NoLeakedSlot ==
    \A c \in Objs : (c \in inuse /\ c \notin established)
                        ~> (c \notin inuse \/ c \in established)

\* No queued completion that will use its client (success: ClientConnected;
\* error: Shutdown) refers to a client object already deleted.
NoUseAfterFree ==
    \A h \in handlers : h.err # "aborted" => h.client \notin freed

=============================================================================
