----------------------------- MODULE ClientPool -----------------------------
(***************************************************************************)
(* The client pool of CIOCachedContainer                                   *)
(* (src/walleve/walleve/netio/iocontainer.cpp): queIdleClient, a FIFO      *)
(* queue of idle clients, and setInuseClient.  A pool is a record          *)
(* [idle |-> <<...>>, inuse |-> {...}]; the operators return the pool      *)
(* after the call.                                                         *)
(***************************************************************************)
EXTENDS Naturals, Sequences, SequencesExt

\* Mutation of ClientClose: the setInuseClient.count check dropped
ClientCloseUnchecked(p, c) ==
    [idle |-> Append(p.idle, c), inuse |-> p.inuse \ {c}]

\* ClientClose: an in-use client goes back to the tail of the idle queue;
\* a client that is not in use is left alone
ClientClose(p, c) ==
    IF c \in p.inuse
    THEN [idle |-> Append(p.idle, c), inuse |-> p.inuse \ {c}]
    ELSE p

\* ClientAlloc: the client at the head of the idle queue, if any, moves
\* to the in-use set (the caller reads it as Head(p.idle) beforehand)
ClientAlloc(p) ==
    IF p.idle = <<>> THEN p
    ELSE [idle |-> Tail(p.idle), inuse |-> p.inuse \cup {Head(p.idle)}]

\* Deactivate: every in-use client is closed, in the order of the copied
\* set, and so appended to the idle queue
Deactivate(p) == [idle |-> p.idle \o SetToSeq(p.inuse), inuse |-> {}]

\* FreeClient(nReserve): idle clients are deleted from the head of the
\* queue until nReserve remain
FreeClient(p, nReserve) ==
    IF Len(p.idle) > nReserve
    THEN [p EXCEPT !.idle = SubSeq(@, Len(@) - nReserve + 1, Len(@))]
    ELSE p

(***************************************************************************)
(* PrepareClient(nPrepare): CreateIOClient is called until the idle queue  *)
(* holds nPrepare clients.  made lists the clients it returned, in order;  *)
(* a list too short to fill the queue means it then returned NULL, every   *)
(* idle client is deleted and the call fails.  On success the queue is     *)
(* trimmed to nPrepare.                                                    *)
(***************************************************************************)
PrepareOk(p, nPrepare, made) == Len(p.idle) + Len(made) >= nPrepare

PrepareClient(p, nPrepare, made) ==
    LET q == [p EXCEPT !.idle = @ \o made] IN
    IF PrepareOk(p, nPrepare, made) THEN FreeClient(q, nPrepare) ELSE FreeClient(q, 0)

\* the pool of a container just constructed
NoPool == [idle |-> <<>>, inuse |-> {}]

\* the idle queue holds each client once and no client is idle and in use
PoolWellFormed(p) ==
    /\ IsInjective(p.idle)
    /\ ToSet(p.idle) \cap p.inuse = {}

=============================================================================
