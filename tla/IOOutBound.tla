----------------------------- MODULE IOOutBound -----------------------------
(***************************************************************************)
(* CIOOutBound (src/walleve/walleve/netio/iocontainer.cpp): outbound       *)
(* connects over the client pool of CIOCachedContainer, each guarded by a  *)
(* timer of the owning CIOProc.  All handlers run on the one io_service    *)
(* thread, so every action is atomic; the network and the timer decide     *)
(* their order.                                                            *)
(*                                                                         *)
(* CIOClient and CIOProc are not in src/.  The model takes from their use  *)
(* here: Close() closes the socket, so an in-flight connect completes      *)
(* with operation_aborted, and hands the client back through              *)
(* ClientClose at once (Deactivate copies setInuseClient before closing    *)
(* because of it); a completion already queued keeps its result; the      *)
(* timer SetTimer returns calls Timeout on expiry unless CancelTimer ran;  *)
(* ClientConnected may accept the connection (the peer layer then owns     *)
(* the client until it closes it) or refuse it.                            *)
(***************************************************************************)
EXTENDS Naturals, Sequences, SequencesExt, FiniteSets, ClientPool

CONSTANTS
    Clients,      \* the nMaxConnection clients Invoke prepared
    NoClient,     \* NULL
    MaxConnects   \* bound: number of ConnectTo calls (timer ids 1..MaxConnects)

ASSUME NoClient \notin Clients

TimerIds == 1..MaxConnects
Results  == {"ok", "error", "aborted"}
Handler  == [client : Clients, timer : TimerIds, err : Results]

VARIABLES
    pool,         \* queIdleClient and setInuseClient
    connecting,   \* client -> timer id of its in-flight connect, 0 if none
    handlers,     \* connect completions queued on the io_service
    pending,      \* mapPending: timer id -> client, NoClient if absent
    timers,       \* timer ids armed in CIOProc
    nTimer,       \* last timer id SetTimer returned
    established,  \* clients ClientConnected accepted, owned by a peer
    halted        \* Halt ran; the io_service has stopped

vars == <<pool, connecting, handlers, pending, timers, nTimer, established, halted>>

(***************************************************************************)
(* pClient->Close(): the socket closes, aborting an in-flight connect; the *)
(* peer layer loses the connection; ClientClose returns the client.  hs is *)
(* the handler set the calling step leaves.                                *)
(***************************************************************************)
Close(c, hs) ==
    /\ pool' = ClientClose(pool, c)
    /\ established' = established \ {c}
    /\ IF connecting[c] # 0
       THEN /\ handlers' = hs \cup {[client |-> c, timer |-> connecting[c], err |-> "aborted"]}
            /\ connecting' = [connecting EXCEPT ![c] = 0]
       ELSE /\ handlers' = hs
            /\ UNCHANGED connecting

\* the state after Invoke(nMaxConnection), that is PrepareClient, which
\* fills the idle queue or, when CreateIOClient returns NULL, empties it
Init ==
    /\ \E s \in SetToSeqs(Clients), k \in 0..Cardinality(Clients) :
          pool = PrepareClient(NoPool, Cardinality(Clients), SubSeq(s, 1, k))
    /\ connecting = [c \in Clients |-> 0]
    /\ handlers = {}
    /\ pending = [t \in TimerIds |-> NoClient]
    /\ timers = {}
    /\ nTimer = 0
    /\ established = {}
    /\ halted = FALSE

\* Mutation of ConnectTo: the new timer id taken before the counter moves
ConnectToStaleTimerId ==
    /\ ~halted
    /\ nTimer < MaxConnects
    /\ pool.idle # <<>>
    /\ LET c == Head(pool.idle)
           t == nTimer
       IN  /\ pool' = ClientAlloc(pool)
           /\ nTimer' = t + 1
           /\ timers' = timers \cup {t}
           /\ connecting' = [connecting EXCEPT ![c] = t]
           /\ pending' = [pending EXCEPT ![t] = c]
    /\ UNCHANGED <<handlers, established, halted>>

\* ConnectTo: allocate a client (none idle: return false, nothing changes),
\* arm a timer, start the connect, record it in mapPending
ConnectTo ==
    /\ ~halted
    /\ nTimer < MaxConnects
    /\ pool.idle # <<>>
    /\ LET c == Head(pool.idle)
           t == nTimer + 1
       IN  /\ pool' = ClientAlloc(pool)
           /\ nTimer' = t
           /\ timers' = timers \cup {t}
           /\ connecting' = [connecting EXCEPT ![c] = t]
           /\ pending' = [pending EXCEPT ![t] = c]
    /\ UNCHANGED <<handlers, established, halted>>

\* the network completes an in-flight connect; its handler is queued
ConnectDone(c) ==
    /\ ~halted
    /\ connecting[c] # 0
    /\ \E res \in {"ok", "error"} :
          handlers' = handlers \cup {[client |-> c, timer |-> connecting[c], err |-> res]}
    /\ connecting' = [connecting EXCEPT ![c] = 0]
    /\ UNCHANGED <<pool, pending, timers, nTimer, established, halted>>

\* timer t expires and CIOProc calls Timeout(t): a pending connect's client
\* is closed and the entry erased
Timeout(t) ==
    /\ ~halted
    /\ t \in timers
    /\ timers' = timers \ {t}
    /\ IF pending[t] # NoClient
       THEN /\ Close(pending[t], handlers)
            /\ pending' = [pending EXCEPT ![t] = NoClient]
       ELSE UNCHANGED <<pool, established, handlers, connecting, pending>>
    /\ UNCHANGED <<nTimer, halted>>

\* Mutation of HandleConnect: the success branch cancels the timer but does
\* not erase the mapPending entry
HandleConnectKeepsPending(h) ==
    /\ ~halted
    /\ h \in handlers
    /\ LET c == h.client  t == h.timer  rest == handlers \ {h} IN
       CASE h.err = "ok" ->
              /\ timers' = timers \ {t}
              /\ UNCHANGED pending
              /\ \/ /\ established' = established \cup {c}
                    /\ handlers' = rest
                    /\ UNCHANGED <<pool, connecting>>
                 \/ Close(c, rest)
         [] h.err = "error" ->
              /\ timers' = timers \ {t}
              /\ pending' = [pending EXCEPT ![t] = NoClient]
              /\ Close(c, rest)
         [] h.err = "aborted" ->
              /\ handlers' = rest
              /\ UNCHANGED <<pool, connecting, pending, timers, established>>
    /\ UNCHANGED <<nTimer, halted>>

\* HandleConnect: success cancels the timer, erases the entry and offers the
\* client to ClientConnected (refused: Close); a real error does the same
\* and closes; operation_aborted only reports ClientFailToConnect
HandleConnect(h) ==
    /\ ~halted
    /\ h \in handlers
    /\ LET c == h.client  t == h.timer  rest == handlers \ {h} IN
       CASE h.err = "ok" ->
              /\ timers' = timers \ {t}
              /\ pending' = [pending EXCEPT ![t] = NoClient]
              /\ \/ /\ established' = established \cup {c}
                    /\ handlers' = rest
                    /\ UNCHANGED <<pool, connecting>>
                 \/ Close(c, rest)
         [] h.err = "error" ->
              /\ timers' = timers \ {t}
              /\ pending' = [pending EXCEPT ![t] = NoClient]
              /\ Close(c, rest)
         [] h.err = "aborted" ->
              /\ handlers' = rest
              /\ UNCHANGED <<pool, connecting, pending, timers, established>>
    /\ UNCHANGED <<nTimer, halted>>

\* the peer layer closes a connection it owns
PeerClose(c) ==
    /\ ~halted
    /\ c \in established
    /\ Close(c, handlers)
    /\ UNCHANGED <<pending, timers, nTimer, halted>>

\* Halt (at LeaveLoop, the io_service stopped): Deactivate closes every
\* in-use client in the order of the copied set, then mapPending.clear();
\* queued handlers and timers never run
Halt ==
    /\ ~halted
    /\ pool' = Deactivate(pool)
    /\ connecting' = [c \in Clients |-> IF c \in pool.inuse THEN 0 ELSE connecting[c]]
    /\ established' = established \ pool.inuse
    /\ pending' = [t \in TimerIds |-> NoClient]
    /\ halted' = TRUE
    /\ UNCHANGED <<handlers, timers, nTimer>>

\* after Halt nothing runs
Stopped == halted /\ UNCHANGED vars

Next ==
    \/ ConnectTo
    \/ \E c \in Clients : ConnectDone(c) \/ PeerClose(c)
    \/ \E t \in TimerIds : Timeout(t)
    \/ \E h \in handlers : HandleConnect(h)
    \/ Halt
    \/ Stopped

\* the io_service runs every queued handler, the network eventually
\* completes or fails every connect, and an armed timer eventually expires
Fairness ==
    /\ \A c \in Clients : WF_vars(ConnectDone(c))
    /\ \A t \in TimerIds : WF_vars(Timeout(t))
    /\ \A h \in Handler : WF_vars(HandleConnect(h))

Spec == Init /\ [][Next]_vars /\ Fairness

TypeOK ==
    /\ pool \in [idle : Seq(Clients), inuse : SUBSET Clients]
    /\ connecting \in [Clients -> 0..MaxConnects]
    /\ handlers \subseteq Handler
    /\ pending \in [TimerIds -> Clients \cup {NoClient}]
    /\ timers \subseteq TimerIds
    /\ nTimer \in 0..MaxConnects
    /\ established \subseteq Clients
    /\ halted \in BOOLEAN

(***************************************************************************)
(* PROPERTIES                                                              *)
(***************************************************************************)

\* Whatever order timeouts, completions and peer closes come in, and however
\* often a client is closed (Timeout, then a failing completion, then the
\* peer), ClientClose keeps each client in the idle queue at most once and
\* never both idle and in use, so ClientAlloc never hands one client out
\* twice from the queue.
NoClientPooledTwice == PoolWellFormed(pool)

\* Every ConnectTo ends: its mapPending entry is eventually erased, by
\* HandleConnect or by Timeout, whichever of the completion and the timer
\* comes first.
PendingResolved ==
    \A t \in TimerIds : (pending[t] # NoClient) ~> (pending[t] = NoClient)

\* A client ClientConnected accepted belongs to the peer layer: it is not in
\* the idle queue, where ConnectTo could allocate it for another connection.
EstablishedNotPooled == established \cap ToSet(pool.idle) = {}

=============================================================================
