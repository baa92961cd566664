------------------------------- MODULE Tunnel -------------------------------
(***************************************************************************)
(* What a spliced connection promises its two peers, whoever splices it:   *)
(* sections 4.2 and 5 of the specification.  Each direction of a           *)
(* connection is a stream of its own: what the reader is given is what the *)
(* writer wrote, in order and without gaps; a direction is half-closed     *)
(* only after the end of file of its writer and when all of it has been    *)
(* given; a direction that fails gives nothing more and leaves the other   *)
(* one alone; and when the connection is dropped nothing is given any      *)
(* more.  A direction whose writer is at its end of file is half-closed    *)
(* whether or not the other direction has ended.                           *)
(*                                                                         *)
(* The ingress bridge of the host and the egress broker of the enclave     *)
(* both implement it, the broker with the frame of its first write         *)
(* counted as the bytes it carries.                                        *)
(***************************************************************************)
EXTENDS Naturals, Sequences

CONSTANTS
    Conns,      \* the connections
    Segments    \* what a peer can write at once

VARIABLES
    open,       \* per connection: whether a task serves it
    sent,       \* per connection and direction: what the writer has written
    eof,        \* whether the writer has shut its write side down
    delivered,  \* what the reader has been given
    closed,     \* whether the direction is closed towards the reader
    failed      \* whether the direction has met an error

vars == <<open, sent, eof, delivered, closed, failed>>

Dirs == {"up", "down"}
Both(v) == [d \in Dirs |-> v]

Init ==
    /\ open = [c \in Conns |-> FALSE]
    /\ sent = [c \in Conns |-> Both(<<>>)]
    /\ eof = [c \in Conns |-> Both(FALSE)]
    /\ delivered = [c \in Conns |-> Both(<<>>)]
    /\ closed = [c \in Conns |-> Both(FALSE)]
    /\ failed = [c \in Conns |-> Both(FALSE)]

\* A connection is accepted: it starts with nothing written or given.
Open(c) ==
    /\ ~open[c]
    /\ open' = [open EXCEPT ![c] = TRUE]
    /\ sent' = [sent EXCEPT ![c] = Both(<<>>)]
    /\ eof' = [eof EXCEPT ![c] = Both(FALSE)]
    /\ delivered' = [delivered EXCEPT ![c] = Both(<<>>)]
    /\ closed' = [closed EXCEPT ![c] = Both(FALSE)]
    /\ failed' = [failed EXCEPT ![c] = Both(FALSE)]

\* A peer writes, or shuts its write side down.
Write(c, d) ==
    /\ open[c] /\ ~eof[c][d]
    /\ \E seg \in Segments : sent' = [sent EXCEPT ![c][d] = Append(@, seg)]
    /\ UNCHANGED <<open, eof, delivered, closed, failed>>

Shut(c, d) ==
    /\ open[c] /\ ~eof[c][d]
    /\ eof' = [eof EXCEPT ![c][d] = TRUE]
    /\ UNCHANGED <<open, sent, delivered, closed, failed>>

\* The reader is given the next bytes of the writer, however many.
Deliver(c, d) ==
    /\ open[c] /\ ~closed[c][d] /\ ~failed[c][d]
    /\ \E n \in (Len(delivered[c][d]) + 1)..Len(sent[c][d]) :
           delivered' = [delivered EXCEPT ![c][d] = SubSeq(sent[c][d], 1, n)]
    /\ UNCHANGED <<open, sent, eof, closed, failed>>

\* The end of file of the writer reaches the reader, after all it wrote.
HalfClose(c, d) ==
    /\ open[c] /\ ~failed[c][d]
    /\ eof[c][d] /\ delivered[c][d] = sent[c][d]
    /\ closed' = [closed EXCEPT ![c][d] = TRUE]
    /\ UNCHANGED <<open, sent, eof, delivered, failed>>

\* A read or a write of the direction fails: it is over, the other is not.
Fail(c, d) ==
    /\ open[c] /\ ~closed[c][d] /\ ~failed[c][d]
    /\ failed' = [failed EXCEPT ![c][d] = TRUE]
    /\ UNCHANGED <<open, sent, eof, delivered, closed>>

\* The task is over and the connection dropped, in both directions.
Drop(c) ==
    /\ open[c]
    /\ open' = [open EXCEPT ![c] = FALSE]
    /\ closed' = [closed EXCEPT ![c] = Both(TRUE)]
    /\ UNCHANGED <<sent, eof, delivered, failed>>

Next ==
    \E c \in Conns :
        \/ Open(c) \/ Drop(c)
        \/ \E d \in Dirs : \/ Write(c, d) \/ Shut(c, d) \/ Fail(c, d)
                           \/ Deliver(c, d) \/ HalfClose(c, d)

Spec == Init /\ [][Next]_vars

\* Sections 4.2 and 5, "until one direction reaches EOF, then half-closes
\* the opposite write side": the end of file of a writer reaches its
\* reader, behind everything the writer wrote, unless that direction fails
\* or the connection is dropped; it does not wait for the other direction.
Completes ==
    \A c \in Conns, d \in Dirs :
        eof[c][d] ~> (closed[c][d] \/ failed[c][d] \/ ~open[c])

=============================================================================
