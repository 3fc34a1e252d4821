---------------------------- MODULE HttpSessions ----------------------------
(***************************************************************************)
(* What the HTTP server promises its RPC module and its peers, with no     *)
(* pool, acceptor or buffers: connections, each under its own id, opened   *)
(* while fewer than Cap are open; on an open connection a request is read  *)
(* and either handed to the RPC module or answered with an error; the RPC  *)
(* module's answer is written to the connection that asked, if it is still *)
(* open; after a response the connection reads again (keep-alive) or       *)
(* closes; a connection closes at most once, and every close is reported   *)
(* to the RPC module once.  Ids are never re-used.                         *)
(***************************************************************************)
EXTENDS Naturals, FiniteSets

CONSTANTS
    Ids,        \* connection ids
    Cap         \* the most connections open at once

VARIABLES
    conn,       \* id -> "new", "reading", "waiting", "writing" or "closed"
    pending,    \* ids whose request the RPC module has not answered yet
    reported    \* id -> number of close reports

vars == <<conn, pending, reported>>

Open == {i \in Ids : conn[i] \in {"reading", "waiting", "writing"}}

Init ==
    /\ conn = [i \in Ids |-> "new"]
    /\ pending = {}
    /\ reported = [i \in Ids |-> 0]

Connect(i) ==
    /\ conn[i] = "new" /\ Cardinality(Open) < Cap
    /\ conn' = [conn EXCEPT ![i] = "reading"]
    /\ UNCHANGED <<pending, reported>>

Request(i) ==
    /\ conn[i] = "reading"
    /\ conn' = [conn EXCEPT ![i] = "waiting"]
    /\ pending' = pending \cup {i}
    /\ UNCHANGED reported

Reject(i) ==
    /\ conn[i] = "reading"
    /\ conn' = [conn EXCEPT ![i] = "writing"]
    /\ UNCHANGED <<pending, reported>>

\* the answer goes to the connection that asked, or nowhere once it closed
Answer(i) ==
    /\ i \in pending /\ conn[i] \in {"waiting", "closed"}
    /\ pending' = pending \ {i}
    /\ conn' = IF conn[i] = "waiting" THEN [conn EXCEPT ![i] = "writing"] ELSE conn
    /\ UNCHANGED reported

KeepAlive(i) ==
    /\ conn[i] = "writing"
    /\ conn' = [conn EXCEPT ![i] = "reading"]
    /\ UNCHANGED <<pending, reported>>

\* a connection closes after its response or on an I/O error, never while
\* the RPC module owes it an answer
Close(i) ==
    /\ conn[i] \in {"reading", "writing"}
    /\ conn' = [conn EXCEPT ![i] = "closed"]
    /\ reported' = [reported EXCEPT ![i] = @ + 1]
    /\ UNCHANGED pending

\* the server stops: every open connection closes and is reported
CloseAll ==
    /\ conn' = [i \in Ids |-> IF i \in Open THEN "closed" ELSE conn[i]]
    /\ reported' = [i \in Ids |-> IF i \in Open THEN reported[i] + 1 ELSE reported[i]]
    /\ UNCHANGED pending

Next ==
    \/ \E i \in Ids : Connect(i) \/ Request(i) \/ Reject(i) \/ Answer(i)
                      \/ KeepAlive(i) \/ Close(i)
    \/ CloseAll

Spec == Init /\ [][Next]_vars

=============================================================================
