----------------------------- MODULE AppendLog -----------------------------
(***************************************************************************)
(* What the segmented log promises its callers (spec sections 1, 4.1 and   *)
(* 7), with no segments, frames or cache: an append-only sequence of       *)
(* acknowledged records, each at an address that orders after every       *)
(* earlier one.  A read of an acknowledged address returns its record or   *)
(* reports an I/O error; a recovery walk replays a prefix of the log, of   *)
(* at most as many records as its walker accepts.  Steps that acknowledge  *)
(* nothing (a failed append, a restart) leave the log alone.               *)
(***************************************************************************)
EXTENDS Naturals, Sequences, SequencesExt

CONSTANTS
    Recs,        \* the records callers store
    Pos,         \* the addresses the log can hand out
    Before(_, _),\* the order of addresses
    NoRec,       \* the record field of a read that returned nothing
    NoPos,       \* the address field of "no read in this step"
    MaxWalk      \* largest number of records a walker accepts

VARIABLES
    log,         \* the acknowledged records, [pos, rec], in append order
    lastRead,    \* the read taken by the step just made, if any
    lastWalk     \* the walk taken by the step just made: [visited, budget]

vars == <<log, lastRead, lastWalk>>

NoRead == [pos |-> NoPos, ok |-> FALSE, rec |-> NoRec]
NoWalk == [visited |-> <<>>, budget |-> 0]

Init == log = <<>> /\ lastRead = NoRead /\ lastWalk = NoWalk

\* an append is acknowledged at an address after all earlier ones
Append1(r, p) ==
    /\ \A i \in DOMAIN log : Before(log[i].pos, p)
    /\ log' = Append(log, [pos |-> p, rec |-> r])
    /\ lastRead' = NoRead /\ lastWalk' = NoWalk

\* a step that acknowledges nothing: a failed append or a restart
Quiet ==
    /\ lastRead' = NoRead /\ lastWalk' = NoWalk
    /\ UNCHANGED log

\* a read of an acknowledged address: its record, or an I/O error
Read(i) ==
    /\ \/ lastRead' = [pos |-> log[i].pos, ok |-> TRUE, rec |-> log[i].rec]
       \/ lastRead' = [pos |-> log[i].pos, ok |-> FALSE, rec |-> NoRec]
    /\ lastWalk' = NoWalk
    /\ UNCHANGED log

\* recovery: a prefix of the log, no longer than the walker accepts
Walk(b) ==
    /\ \E k \in 0..b : k <= Len(log) /\ lastWalk' = [visited |-> SubSeq(log, 1, k), budget |-> b]
    /\ lastRead' = NoRead
    /\ UNCHANGED log

Next ==
    \/ \E r \in Recs, p \in Pos : Append1(r, p)
    \/ Quiet
    \/ \E i \in DOMAIN log : Read(i)
    \/ \E b \in 0..MaxWalk : Walk(b)

Spec == Init /\ [][Next]_vars

=============================================================================
