--------------------------- MODULE IngressBridge ---------------------------
(***************************************************************************)
(* The host side, control-plane/src/main.rs: main joins the servers of the *)
(* control plane, and tcp_server accepts customer connections on the       *)
(* public port and splices each one to the guest port of the enclave.      *)
(*                                                                         *)
(* The bridge never looks at a byte: a segment is any member of Payloads.  *)
(* The customer and the enclave are the environment.  The DNS and egress   *)
(* forwarders of the host and pipe_streams are outside src/; of the        *)
(* forwarders only "binds, then loops for ever" is modelled.               *)
(***************************************************************************)
EXTENDS Naturals, Sequences, FiniteSets

CONSTANTS
    Conns,          \* bridge tasks that can run at the same time
    Payloads,       \* what a segment of customer or enclave bytes can be
    NetworkEgress,  \* the build feature "network_egress"
    MaxUp,          \* bound: segments a customer writes
    MaxDown         \* bound: segments the enclave writes back

VARIABLES
    main,     \* "Joining" while main awaits its servers, then "Exited"
    server,   \* per server: "Binding", "Listening" or "Failed"
    bridge,   \* per task: pc and the two halves of the splice
    client,   \* connection: sent/read/eof towards the bridge, rcvd, and
              \* whether the bridge has closed its side
    enclave   \* enclave_stream: the same, seen from the enclave

vars == <<main, server, bridge, client, enclave>>

Servers == IF NetworkEgress THEN {"tcp", "dns", "egress"} ELSE {"tcp"}

NewBridge == [pc |-> "Free", up |-> "Idle", down |-> "Idle"]
NewStream == [sent |-> <<>>, read |-> 0, eof |-> FALSE, rcvd |-> <<>>,
              closed |-> FALSE]

-----------------------------------------------------------------------------
(* main and the listeners *)

\* TcpListener::bind, and the bind of each forwarder: it succeeds or fails.
Bind(s) ==
    /\ main = "Joining" /\ server[s] = "Binding"
    /\ \E outcome \in {"Listening", "Failed"} :
           server' = [server EXCEPT ![s] = outcome]
    /\ UNCHANGED <<main, bridge, client, enclave>>

\* Faulty variant: main is over as soon as one server is.
JoinedAny == \E s \in Servers : server[s] = "Failed"

\* tokio::join! (or the one await without network_egress) completes when
\* every server future has: a server that listens loops and never does.
Joined == \A s \in Servers : server[s] = "Failed"

\* main logs the errors and returns Ok: the process exits.
MainReturns ==
    /\ main = "Joining" /\ Joined
    /\ main' = "Exited"
    /\ UNCHANGED <<server, bridge, client, enclave>>

\* The accept loop runs only behind a successful bind.
Accepting == main = "Joining" /\ server["tcp"] = "Listening"

\* loop { accept; spawn }: a failed accept is skipped, a connection gets a
\* task of its own.
Accept(c) ==
    /\ Accepting /\ bridge[c].pc \in {"Free", "Closed", "Panicked"}
    /\ bridge' = [bridge EXCEPT ![c] = [NewBridge EXCEPT !.pc = "Dialing"]]
    /\ client' = [client EXCEPT ![c] = NewStream]
    /\ enclave' = [enclave EXCEPT ![c] = NewStream]
    /\ UNCHANGED <<main, server>>

-----------------------------------------------------------------------------
(* The spawned task *)

\* get_connection_to_guest_process: on success the splice starts, on
\* failure the error is logged and the customer connection is shut down.
Dial(c) ==
    /\ bridge[c].pc = "Dialing"
    /\ \/ bridge' = [bridge EXCEPT ![c].pc = "Splicing", ![c].up = "Copying",
                                   ![c].down = "Copying"]
       \/ bridge' = [bridge EXCEPT ![c].pc = "ShuttingDown"]
    /\ UNCHANGED <<main, server, client, enclave>>

\* connection.shutdown().await.expect(..): the task returns, or the expect
\* panics and unwinds it; either way the connection is dropped.
Shutdown(c) ==
    /\ bridge[c].pc = "ShuttingDown"
    /\ \E end \in {"Closed", "Panicked"} :
           bridge' = [bridge EXCEPT ![c].pc = end]
    /\ client' = [client EXCEPT ![c].closed = TRUE]
    /\ UNCHANGED <<main, server, enclave>>

\* Faulty variant: the segment before the next one is copied again.
NextOfStale(stream) == stream.sent[IF stream.read = 0 THEN 1 ELSE stream.read]

\* The next segment a half reads from its stream.
NextOf(stream) == stream.sent[stream.read + 1]

\* Faulty variant: the end of file counts with segments still unread.
AtEndEarly(stream) == stream.eof

\* A half has read everything its stream will ever hold.
AtEnd(stream) == stream.read = Len(stream.sent) /\ stream.eof

\* Faulty variant: the write side stays open until the streams are dropped.
HalfClosedNot(stream) == stream

\* shutdown() of the write side of a stream.
HalfClosed(stream) == [stream EXCEPT !.closed = TRUE]

\* One half of pipe_streams, from the stream `from` to the stream `to`:
\* copy a segment, or at the end of file shut down the write side of `to`.
Copy(c, half, from, to) ==
    /\ bridge[c][half] = "Copying"
    /\ \/ /\ from[c].read < Len(from[c].sent)
          /\ from' = [from EXCEPT ![c].read = @ + 1]
          /\ to' = [to EXCEPT ![c].rcvd = Append(@, NextOf(from[c]))]
          /\ UNCHANGED bridge
       \/ /\ AtEnd(from[c])
          /\ bridge' = [bridge EXCEPT ![c][half] = "Eof"]
          /\ to' = [to EXCEPT ![c] = HalfClosed(@)]
          /\ UNCHANGED from
    /\ UNCHANGED <<main, server>>

PipeUp(c) == Copy(c, "up", client, enclave)
PipeDown(c) == Copy(c, "down", enclave, client)

\* Faulty variant: a half that failed is never joined.
HalvesDoneClean(c) == {bridge[c].up, bridge[c].down} = {"Eof"}

\* Both halves have ended, with an end of file or with an error.
HalvesDone(c) == "Copying" \notin {bridge[c].up, bridge[c].down}

\* Faulty variant: the splice is started and not awaited.
AwaitedNot(c) == bridge[c].pc = "Splicing"

\* pipe_streams(..).await: the task goes on when the splice has returned.
Awaited(c) == bridge[c].pc = "Splicing" /\ HalvesDone(c)

\* pipe_streams returns, its error if any is logged, and the task ends:
\* both streams are dropped.
PipeReturns(c) ==
    /\ Awaited(c)
    /\ bridge' = [bridge EXCEPT ![c].pc = "Closed"]
    /\ client' = [client EXCEPT ![c].closed = TRUE]
    /\ enclave' = [enclave EXCEPT ![c].closed = TRUE]
    /\ UNCHANGED <<main, server>>

-----------------------------------------------------------------------------
(* The environment: the customer and the enclave *)

Spliced(c) == bridge[c].pc = "Splicing"

ClientWrite(c) ==
    /\ bridge[c].pc \in {"Dialing", "ShuttingDown", "Splicing"}
    /\ ~client[c].eof /\ Len(client[c].sent) < MaxUp
    /\ \E seg \in Payloads : client' = [client EXCEPT ![c].sent = Append(@, seg)]
    /\ UNCHANGED <<main, server, bridge, enclave>>

ClientShutdown(c) ==
    /\ bridge[c].pc \in {"Dialing", "ShuttingDown", "Splicing"}
    /\ ~client[c].eof
    /\ client' = [client EXCEPT ![c].eof = TRUE]
    /\ UNCHANGED <<main, server, bridge, enclave>>

EnclaveWrite(c) ==
    /\ Spliced(c) /\ ~enclave[c].eof /\ Len(enclave[c].sent) < MaxDown
    /\ \E seg \in Payloads :
           enclave' = [enclave EXCEPT ![c].sent = Append(@, seg)]
    /\ UNCHANGED <<main, server, bridge, client>>

EnclaveShutdown(c) ==
    /\ Spliced(c) /\ ~enclave[c].eof
    /\ enclave' = [enclave EXCEPT ![c].eof = TRUE]
    /\ UNCHANGED <<main, server, bridge, client>>

\* A read or a write of a half fails.
IoError(c) ==
    /\ Spliced(c)
    /\ \E half \in {"up", "down"} :
         /\ bridge[c][half] = "Copying"
         /\ bridge' = [bridge EXCEPT ![c][half] = "Failed"]
    /\ UNCHANGED <<main, server, client, enclave>>

-----------------------------------------------------------------------------
Init ==
    /\ main = "Joining"
    /\ server = [s \in Servers |-> "Binding"]
    /\ bridge = [c \in Conns |-> NewBridge]
    /\ client = [c \in Conns |-> NewStream]
    /\ enclave = [c \in Conns |-> NewStream]

Task(c) == Dial(c) \/ Shutdown(c) \/ PipeUp(c) \/ PipeDown(c) \/ PipeReturns(c)

Environment(c) ==
    \/ ClientWrite(c) \/ ClientShutdown(c) \/ EnclaveWrite(c)
    \/ EnclaveShutdown(c) \/ IoError(c)

Next ==
    \/ \E s \in Servers : Bind(s)
    \/ MainReturns
    \/ \E c \in Conns : Accept(c) \/ Task(c) \/ Environment(c)

\* The runtime runs main and every task that can take a step; a bind
\* returns; no peer is made to write or to close.
Fairness ==
    /\ WF_vars(MainReturns)
    /\ \A s \in Servers : WF_vars(Bind(s))
    /\ \A c \in Conns : WF_vars(Task(c))

Spec == Init /\ [][Next]_vars
FairSpec == Spec /\ Fairness

-----------------------------------------------------------------------------
(* Properties *)

\* The type invariant.  A task exists only behind a bound listener of a
\* process that has not exited: tcp_server spawns only after its bind.
TypeOK ==
    /\ main \in {"Joining", "Exited"}
    /\ server \in [Servers -> {"Binding", "Listening", "Failed"}]
    /\ \A c \in Conns :
        /\ bridge[c].pc \in {"Free", "Dialing", "ShuttingDown", "Splicing",
                             "Closed", "Panicked"}
        /\ {bridge[c].up, bridge[c].down}
               \subseteq {"Idle", "Copying", "Eof", "Failed"}
        /\ bridge[c].pc # "Free" => main = "Joining" /\ server["tcp"] = "Listening"
        /\ \A s \in {client[c], enclave[c]} :
            /\ s.sent \in Seq(Payloads) /\ s.rcvd \in Seq(Payloads)
            /\ s.read \in 0..Len(s.sent)
            /\ s.eof \in BOOLEAN /\ s.closed \in BOOLEAN

\* Section 8, invariant 5 and scenario 1: the bridge is oblivious.  What
\* the enclave has received is what pipe_streams has read from the
\* customer, whatever the bytes are, in order and once; and the same from
\* the enclave to the customer.  Nothing reaches the enclave before the
\* dial of get_connection_to_guest_process has succeeded.
BridgeOblivious ==
    \A c \in Conns :
        /\ enclave[c].rcvd = SubSeq(client[c].sent, 1, client[c].read)
        /\ client[c].rcvd = SubSeq(enclave[c].sent, 1, enclave[c].read)

\* The task of tcp_server drops its streams only when it is done with
\* them: after a splice in which no half failed, everything either peer
\* wrote before its end of file has reached the other peer; and the
\* customer's connection is closed exactly when the task is over or the
\* enclave has closed its direction.
NoTruncation ==
    \A c \in Conns :
        /\ (/\ bridge[c].pc = "Closed" /\ bridge[c].up # "Idle"
            /\ "Failed" \notin {bridge[c].up, bridge[c].down})
               => enclave[c].rcvd = client[c].sent /\ client[c].rcvd = enclave[c].sent
        /\ client[c].closed =>
               bridge[c].pc \in {"Closed", "Panicked"} \/ bridge[c].down = "Eof"

\* The bridge is a tunnel (sections 4.2 and 5): with the customer's bytes
\* as the direction up and the enclave's as the direction down, every step
\* of main, tcp_server and pipe_streams is a step of Tunnel or leaves the
\* tunnel as it is.  A direction is closed towards its reader only at the
\* end of file of its writer with every byte given, or when the task is
\* over; nothing is given after that, and a new connection starts empty.
Abstract == INSTANCE Tunnel WITH
    Segments  <- Payloads,
    open      <- [c \in Conns |-> bridge[c].pc \in {"Dialing", "ShuttingDown", "Splicing"}],
    sent      <- [c \in Conns |-> [up |-> client[c].sent, down |-> enclave[c].sent]],
    eof       <- [c \in Conns |-> [up |-> client[c].eof, down |-> enclave[c].eof]],
    delivered <- [c \in Conns |-> [up |-> enclave[c].rcvd, down |-> client[c].rcvd]],
    closed    <- [c \in Conns |->
                    [up   |-> enclave[c].closed \/ bridge[c].pc \in {"Closed", "Panicked"},
                     down |-> client[c].closed \/ bridge[c].pc \in {"Closed", "Panicked"}]],
    failed    <- [c \in Conns |-> [up   |-> bridge[c].up = "Failed",
                                   down |-> bridge[c].down = "Failed"]]

BridgeIsATunnel == Abstract!Spec

\* pipe_streams half-closes a direction at the end of file of its writer
\* without waiting for the other direction: a customer that has sent its
\* request and shut its write side down is seen to have done so by the
\* enclave while the enclave still answers, and the other way round,
\* unless that half fails or the task ends.
BridgeCompletes == Abstract!Completes

\* No customer is left on an open connection that nothing serves: when the
\* dial of the enclave fails the connection is closed, by the shutdown or
\* by the unwinding of the expect; and when both peers of a splice have
\* closed their write side pipe_streams returns and the task ends, whatever
\* errors its halves met.
BridgeReturns ==
    \A c \in Conns :
        /\ (bridge[c].pc = "ShuttingDown") ~> client[c].closed
        /\ (Spliced(c) /\ client[c].eof /\ enclave[c].eof)
               ~> (bridge[c].pc = "Closed")

\* Section 7: "startup-time errors (bind failure, ...) are fatal".  A
\* server that fails to bind ends the process.
BindFailureIsFatal ==
    \A s \in Servers : (server[s] = "Failed") ~> (main = "Exited")

=============================================================================
