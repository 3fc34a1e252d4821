----------------------------- MODULE HttpServer -----------------------------
(***************************************************************************)
(* CHttpServer and CHttpClient (src/walleve/walleve/http/httpserver.cpp)   *)
(* over the inbound accept loop of CIOInBound                              *)
(* (src/walleve/walleve/netio/iocontainer.cpp), for one listening host,   *)
(* the RPC host CMvEntry adds.                                             *)
(* All handlers run on the server's io_service thread, so each action is   *)
(* one handler run to its end; the network and the RPC module decide the   *)
(* order.                                                                  *)
(*                                                                         *)
(* A CHttpClient is keyed by its nonce.  AddNewClient draws the nonce at   *)
(* random until it is not in mapClient; with 64-bit nonces the model takes *)
(* a fresh one each time.  An HTTP client always has exactly one thing     *)
(* outstanding: a header read, a payload read, the RPC module's response,  *)
(* or the write of a response.  The RPC module (not in src/) answers each  *)
(* request it was posted once, possibly after the client was removed.      *)
(***************************************************************************)
EXTENDS Naturals, Sequences, SequencesExt, FiniteSets, Functions, ClientPool, AllowMask

CONSTANTS
    Clients,        \* the nMaxConnection + 1 clients Invoke prepared
    NoClient,       \* NULL
    MaxConnection,  \* nMaxConnections of the host
    HostEndpoint,   \* confHost.epHost, the endpoint the host listens on
    MaxNonces,      \* bound: number of connections accepted
    Remotes,        \* the address texts connections come from
    AllowMasks      \* the vAllowMask lists Invoke may be given

ASSUME /\ NoClient \notin Clients
       /\ Cardinality(Clients) = MaxConnection + 1

Nonces == 1..MaxNonces
States == {"readHeader", "readPayload", "waiting", "writing"}

VARIABLES
    pool,       \* queIdleClient and setInuseClient
    acceptor,   \* acceptorService is open
    accepting,  \* the client of the outstanding Accept, NoClient if none
    mapClient,  \* nonce -> [io, st, keep]: the live CHttpClients
    nNonce,     \* nonces handed out so far
    reqs,       \* nonces of requests posted to the RPC module, unanswered
    broken,     \* nonce -> number of CWalleveEventHttpBroken posted for it
    halted,     \* LeaveLoop and Halt ran
    allowMask,  \* the vAllowMask Invoke was given
    whiteList,  \* vWhiteList
    mapProfile, \* endpoint -> [ssl, auth]: pSSLContext set, mapAuthrizeUser not empty
    transport   \* client -> "ssl" (CSSLClient) or "tcp", as CreateIOClient made it

config == <<allowMask, whiteList, mapProfile, transport>>

vars == <<pool, acceptor, accepting, mapClient, nNonce, reqs, broken, halted, config>>

Live == DOMAIN mapClient

HostConfigs == [ssl : BOOLEAN, users : BOOLEAN]

\* CreateProfile for a host whose set-up succeeds: an SSL context when
\* optSSL.fEnable, one authorisation entry per configured user.  A failed
\* SSL set-up fails WalleveHandleInitialize, and the node exits before
\* EnterLoop (Entry's Setup).
CreateProfile(conf) == [ssl |-> conf.ssl, auth |-> conf.users]

\* WalleveHandleInitialize: a profile for each host of vecHostConfig, keyed
\* by its endpoint (one host: the RPC host AddNewHost was given)
WalleveHandleInitialize(conf) == HostEndpoint :> CreateProfile(conf)

\* CreateIOClient: a CSSLClient when the container's service endpoint has a
\* profile with an SSL context, else a plain CIOClient
CreateIOClient(profiles, ep) ==
    IF ep \in DOMAIN profiles /\ profiles[ep].ssl THEN "ssl" ELSE "tcp"

\* Invoke sets epService = epListen before PrepareClient, whose calls of
\* CreateIOClient ask the container for its service endpoint
InvokeTransport(profiles) ==
    [c \in Clients |-> CreateIOClient(profiles, HostEndpoint)]

(***************************************************************************)
(* The state after Invoke: BuildWhiteList, then PrepareClient(nMaxConnection *)
(* + 1), whose failure makes Invoke return false; then the acceptor opens, *)
(* binds and listens (an exception closes it and Invoke returns false with *)
(* the clients prepared), and the first client is allocated for Accept.    *)
(* made is what CreateIOClient returned before a NULL, if any.             *)
(***************************************************************************)
Init ==
    /\ \E conf \in HostConfigs : mapProfile = WalleveHandleInitialize(conf)
    /\ transport = InvokeTransport(mapProfile)
    /\ allowMask \in AllowMasks
    /\ whiteList = BuildWhiteList(allowMask)
    /\ \E s \in SetToSeqs(Clients), k \in 0..Cardinality(Clients), listened \in BOOLEAN :
          LET made     == SubSeq(s, 1, k)
              prepared == PrepareClient(NoPool, MaxConnection + 1, made)
              started  == PrepareOk(NoPool, MaxConnection + 1, made) /\ listened
          IN  /\ acceptor = started
              /\ pool = IF started THEN ClientAlloc(prepared) ELSE prepared
              /\ accepting = IF started THEN Head(prepared.idle) ELSE NoClient
    /\ mapClient = <<>>
    /\ nNonce = 0
    /\ reqs = {}
    /\ broken = [n \in Nonces |-> 0]
    /\ halted = FALSE

\* ClientAlloc, then Accept on the client it returned
AcceptNext(p) ==
    /\ pool' = ClientAlloc(p)
    /\ accepting' = IF p.idle = <<>> THEN NoClient ELSE Head(p.idle)

\* Mutation of RemoveClient: the CHttpClient deleted without closing its client
RemoveClientLeaks(n) ==
    /\ mapClient' = Restrict(mapClient, Live \ {n})
    /\ broken' = [broken EXCEPT ![n] = @ + 1]
    /\ UNCHANGED pool

\* RemoveClient: erase from mapClient, post the broken event, delete the
\* CHttpClient, whose destructor closes its client
RemoveClient(n) ==
    /\ mapClient' = Restrict(mapClient, Live \ {n})
    /\ broken' = [broken EXCEPT ![n] = @ + 1]
    /\ pool' = ClientClose(pool, mapClient[n].io)

\* Activate: flags reset, StartReadHeader
Activated(c, r) == [io |-> c, remote |-> r, st |-> "readHeader", keep |-> FALSE]

\* Mutation of AddNewClient: the new client keyed by the previous nonce
AddNewClientPrevNonce(c, r) ==
    /\ nNonce' = nNonce + 1
    /\ mapClient' = mapClient @@ (nNonce :> Activated(c, r))

\* ClientAccepted -> AddNewClient: a CHttpClient under a new nonce, Activated
AddNewClient(c, r) ==
    /\ nNonce' = nNonce + 1
    /\ mapClient' = mapClient @@ ((nNonce + 1) :> Activated(c, r))

\* Mutation of HandleAcceptOk: the one-client reserve check dropped
HandleAcceptNoReserve(r) ==
    /\ ~halted /\ acceptor /\ accepting # NoClient
    /\ nNonce < MaxNonces
    /\ LET c == accepting IN
       IF ~IsAllowedRemote(whiteList, r) \/ HostEndpoint \notin DOMAIN mapProfile
       THEN /\ AcceptNext(ClientClose(pool, c))
            /\ UNCHANGED <<mapClient, nNonce>>
       ELSE /\ AddNewClient(c, r)
            /\ AcceptNext(pool)
    /\ UNCHANGED <<acceptor, reqs, broken, halted, config>>

(***************************************************************************)
(* HandleAccept, success: the connection is refused (the client closed)    *)
(* when at most one client is idle or IsAllowedRemote refuses the remote  *)
(* r, or ClientAccepted finds no profile for the acceptor's local         *)
(* endpoint; else ClientAccepted -> AddNewClient makes a CHttpClient under a new  *)
(* nonce and Activates it.  Either way the next client is allocated for   *)
(* Accept.                                                                 *)
(***************************************************************************)
HandleAcceptOk(r) ==
    /\ ~halted /\ acceptor /\ accepting # NoClient
    /\ nNonce < MaxNonces
    /\ LET c == accepting IN
       IF \/ Len(pool.idle) <= 1
          \/ ~IsAllowedRemote(whiteList, r)
          \/ HostEndpoint \notin DOMAIN mapProfile
       THEN /\ AcceptNext(ClientClose(pool, c))
            /\ UNCHANGED <<mapClient, nNonce>>
       ELSE /\ AddNewClient(c, r)
            /\ AcceptNext(pool)
    /\ UNCHANGED <<acceptor, reqs, broken, halted, config>>

\* HandleAccept, SSL handshake error (only a CSSLClient's Accept has a
\* handshake): close, allocate, accept again
HandleAcceptSsl ==
    /\ ~halted /\ acceptor /\ accepting # NoClient
    /\ transport[accepting] = "ssl"
    /\ AcceptNext(ClientClose(pool, accepting))
    /\ UNCHANGED <<acceptor, mapClient, nNonce, reqs, broken, halted, config>>

\* HandleAccept, any other error: the acceptor is closed and the client too
HandleAcceptError ==
    /\ ~halted /\ acceptor /\ accepting # NoClient
    /\ acceptor' = FALSE
    /\ pool' = ClientClose(pool, accepting)
    /\ accepting' = NoClient
    /\ UNCHANGED <<mapClient, nNonce, reqs, broken, halted, config>>

\* SendResponse: the response is handed to the client's Write;
\* HandleWritenResponse follows
SendResponse(client) == [client EXCEPT !.st = "writing"]

\* RespondError: an error page with "connection: close" is sent; fKeepAlive
\* stays false, so the client is removed once the page is written
RespondError(n) == mapClient' = [mapClient EXCEPT ![n] = SendResponse(@)]

\* StartReadPayload: Read of the content-length bytes not yet received
StartReadPayload(n) == mapClient' = [mapClient EXCEPT ![n].st = "readPayload"]

\* Mutation of HandleClientRecv: the request posted on the error paths too
HandleClientRecvPostsOnError(n) ==
    \E outcome \in (IF mapProfile[HostEndpoint].auth THEN {"401", "400", "post"} ELSE {"400", "post"}) :
       /\ reqs' = reqs \cup {n}
       /\ mapClient' = [mapClient EXCEPT ![n].st =
                           IF outcome = "post" THEN "waiting" ELSE "writing"]

\* HandleClientRecv: 401 when authorisation is configured and fails, 400 on
\* a form body that does not parse (RespondError: the response is written);
\* otherwise the request is posted to the RPC module
HandleClientRecv(n) ==
    \E outcome \in (IF mapProfile[HostEndpoint].auth THEN {"401", "400", "post"} ELSE {"400", "post"}) :
       IF outcome = "post"
       THEN /\ mapClient' = [mapClient EXCEPT ![n].st = "waiting"]
            /\ reqs' = reqs \cup {n}
       ELSE /\ RespondError(n)
            /\ UNCHANGED reqs

\* HandleReadHeader: no bytes or an unparsable header is a client error;
\* a content-length beyond the bytes read starts a payload read; otherwise
\* the request is complete
HandleReadHeader(n) ==
    /\ ~halted
    /\ n \in Live /\ mapClient[n].st = "readHeader"
    /\ \/ RemoveClient(n) /\ UNCHANGED reqs
       \/ /\ StartReadPayload(n)
          /\ UNCHANGED <<pool, broken, reqs>>
       \/ HandleClientRecv(n) /\ UNCHANGED <<pool, broken>>
    /\ UNCHANGED <<acceptor, accepting, nNonce, halted, config>>

\* HandleReadPayload: no bytes is a client error, else the request is complete
HandleReadPayload(n) ==
    /\ ~halted
    /\ n \in Live /\ mapClient[n].st = "readPayload"
    /\ \/ RemoveClient(n) /\ UNCHANGED reqs
       \/ HandleClientRecv(n) /\ UNCHANGED <<pool, broken>>
    /\ UNCHANGED <<acceptor, accepting, nNonce, halted, config>>

\* HandleEvent(CWalleveEventHttpRsp): the RPC module answers request n; an
\* unknown nonce is dropped; else the Keep-Alive header is noted and the
\* response written
HandleEvent(n) ==
    /\ ~halted
    /\ n \in reqs
    /\ reqs' = reqs \ {n}
    /\ IF n \in Live
       THEN \E keep \in BOOLEAN :
               mapClient' = [mapClient EXCEPT ![n] = SendResponse([@ EXCEPT !.keep = keep])]
       ELSE UNCHANGED mapClient
    /\ UNCHANGED <<pool, acceptor, accepting, nNonce, broken, halted, config>>

\* HandleClientSent: a keep-alive client is re-activated, any other removed
HandleClientSent(n) ==
    IF mapClient[n].keep
    THEN /\ mapClient' = [mapClient EXCEPT ![n] = Activated(@.io, @.remote)]
         /\ UNCHANGED <<pool, broken>>
    ELSE RemoveClient(n)

\* HandleWritenResponse: no bytes is a client error, else HandleClientSent
HandleWritenResponse(n) ==
    /\ ~halted
    /\ n \in Live /\ mapClient[n].st = "writing"
    /\ RemoveClient(n) \/ HandleClientSent(n)
    /\ UNCHANGED <<acceptor, accepting, nNonce, reqs, halted, config>>

\* LeaveLoop removes every client; CIOInBound::Halt closes the acceptor
\* (the outstanding Accept is aborted and its client closed) and
\* Deactivates the pool; no handler runs afterwards
Halt ==
    /\ ~halted
    /\ mapClient' = <<>>
    /\ broken' = [n \in Nonces |-> IF n \in Live THEN broken[n] + 1 ELSE broken[n]]
    /\ pool' = Deactivate(pool)
    /\ acceptor' = FALSE
    /\ accepting' = NoClient
    /\ halted' = TRUE
    /\ UNCHANGED <<nNonce, reqs, config>>

Stopped == halted /\ UNCHANGED vars

Next ==
    \/ \E r \in Remotes : HandleAcceptOk(r)
    \/ HandleAcceptSsl
    \/ HandleAcceptError
    \/ \E n \in Nonces : HandleReadHeader(n) \/ HandleReadPayload(n)
                         \/ HandleEvent(n) \/ HandleWritenResponse(n)
    \/ Halt
    \/ Stopped

Spec == Init /\ [][Next]_vars

TypeOK ==
    /\ pool \in [idle : Seq(Clients), inuse : SUBSET Clients]
    /\ acceptor \in BOOLEAN
    /\ accepting \in Clients \cup {NoClient}
    /\ Live \subseteq Nonces
    /\ \A n \in Live : mapClient[n] \in [io : Clients, remote : Remotes, st : States, keep : BOOLEAN]
    /\ nNonce \in 0..MaxNonces
    /\ reqs \subseteq 1..nNonce
    /\ broken \in [Nonces -> Nat]
    /\ halted \in BOOLEAN
    /\ allowMask \in AllowMasks
    /\ mapProfile \in [{HostEndpoint} -> [ssl : BOOLEAN, auth : BOOLEAN]]
    /\ transport \in [Clients -> {"ssl", "tcp"}]

(***************************************************************************)
(* PROPERTIES                                                              *)
(***************************************************************************)

\* While the acceptor is open an Accept is outstanding: HandleAccept's
\* ClientAlloc never returns NULL, because a connection is refused once at
\* most one client is idle.
AcceptorHasClient == acceptor => accepting # NoClient

\* The pool accounts for every client: the in-use set is exactly the
\* clients of live CHttpClients plus the one accepting, no two of those share
\* a client, and the idle queue holds each other client once.  A client
\* leaked by a removal or closed while a CHttpClient still uses it breaks it.
PoolAccounting ==
    LET owners == {mapClient[n].io : n \in Live} IN
    /\ PoolWellFormed(pool)
    /\ \A m, n \in Live : m # n => mapClient[m].io # mapClient[n].io
    /\ accepting \notin owners
    /\ pool.inuse = owners \cup ({accepting} \ {NoClient})

(***************************************************************************)
(* The server as HttpSessions sees it: a nonce is a connection id; a live *)
(* client reading a header or a payload is "reading", one waiting for the *)
(* RPC module "waiting", one writing "writing"; a nonce handed out and no *)
(* longer in mapClient is "closed".  The posted requests are the pending  *)
(* ones and the broken events the close reports.                          *)
(***************************************************************************)
SessionOf(n) ==
    IF n \in Live
    THEN IF mapClient[n].st \in {"readHeader", "readPayload"} THEN "reading"
         ELSE mapClient[n].st
    ELSE IF n <= nNonce THEN "closed" ELSE "new"

Sessions == INSTANCE HttpSessions WITH
    Ids      <- Nonces,
    Cap      <- MaxConnection,
    conn     <- [n \in Nonces |-> SessionOf(n)],
    pending  <- reqs,
    reported <- broken

\* CHttpServer and CIOInBound implement HttpSessions: at most nMaxConnections
\* connections open, a fresh nonce for each, every request either posted to
\* the RPC module or answered with an error, the RPC module's response
\* written only to the client waiting for it (dropped once it is gone),
\* keep-alive or removal after a response, and one broken event per
\* removal, over every order of the accept, read, write and event handlers.
HttpSessionsRefined == Sessions!Spec

\* CIOInBound admits a connection only from a remote one of the host's
\* allow masks names, read as globs ("*" any text, "?" one character), or
\* from any remote when no mask is given: BuildWhiteList's regex_replace
\* and IsAllowedRemote's regex_match together implement that reading.
AdmittedOnlyAllowed ==
    \A n \in Live : AllowedByMasks(allowMask, mapClient[n].remote)

\* The host's connection limit is nMaxConnections (EnterLoop logs it as
\* "connection limit"): while fewer connections are open, the next one that
\* arrives from an allowed remote is accepted, i.e. HandleAccept finds more
\* than one client idle.
BelowLimitAdmits ==
    (acceptor /\ Cardinality(Live) < MaxConnection) => Len(pool.idle) > 1

=============================================================================
