---------------------------- MODULE EgressProxy ----------------------------
(***************************************************************************)
(* The in-enclave egress broker, data-plane/src/dns/egressproxy.rs: a      *)
(* listener that spawns one handle_egress_connection task per accepted     *)
(* customer connection.  A task reads once, takes the host name from the   *)
(* SNI of the ClientHello, picks one of the addresses the DNS cache holds  *)
(* for that name, dials the host forwarder, writes one ExternalRequest     *)
(* frame and then splices the two streams.                                 *)
(*                                                                         *)
(* Bytes are abstracted to segments: the first segment a client writes is  *)
(* one of Hellos (what tls_parser makes of it), the later ones are         *)
(* numbered application data.  The customer, the host forwarder and the    *)
(* DNS forwarder are the environment.  Cache and pipe_streams are crates   *)
(* of the repository outside src/ and follow the specification.            *)
(***************************************************************************)
EXTENDS Naturals, Sequences, SequencesExt

CONSTANTS
    Conns,        \* handler tasks that can run at the same time
    Hostnames,    \* names the DNS forwarder resolves and caches
    IPs,          \* addresses it caches for them
    Hellos,       \* what the first segment of a client can be
    InvalidUtf8,  \* an SNI entry that std::str::from_utf8 refuses
    MaxUp,        \* bound: segments a client writes after its first
    MaxDown       \* bound: segments the host forwarder writes back

VARIABLES
    listener,  \* the listening socket of listen: Binding, Listening, Failed
    cache,     \* Cache: a partial function from host names to sets of IPs
    resolved,  \* history: every <<name, ip>> the cache has ever held
    task,      \* per task: pc, the locals hostname/ip/data, the halves of
               \* the splice, and the result the task returned
    cust,      \* external_stream: what the client sent (history), how much
               \* of it was read, its end of file, what it received, and
               \* whether its write side is shut down
    host       \* data_plane_stream: its state, what the forwarder received
               \* (history), what it sent, how much was read, its end of file

vars == <<listener, cache, resolved, task, cust, host>>

NoIp    == "none"
NewTask == [pc |-> "Free", hostname |-> "", ip |-> NoIp, data |-> <<>>,
            up |-> "Idle", down |-> "Idle", result |-> "None"]
NewCust == [sent |-> <<>>, read |-> 0, eof |-> FALSE, rcvd |-> <<>>,
            closed |-> FALSE]
NewHost == [sent |-> <<>>, read |-> 0, eof |-> FALSE, rcvd |-> <<>>,
            state |-> "None"]

AppData(n) == [record |-> "ApplicationData", n |-> n]
RawWrite(segments) == [data |-> segments, frame |-> FALSE]

-----------------------------------------------------------------------------
(* get_hostname and the cache lookup, as operators *)

\* The entries of the SNI extensions, in the order the two loops visit them.
SniEntries(extensions) ==
    FlattenSeq([i \in DOMAIN extensions |->
        IF extensions[i].type = "SNI" THEN extensions[i].names ELSE <<>>])

\* Faulty variant: the first UTF-8 entry is kept instead of the last.
DestinationFirstWins(extensions) ==
    FoldRight(LAMBDA name, dest : IF name # InvalidUtf8 THEN name ELSE dest,
              SniEntries(extensions), "")

\* destination starts empty and every entry that is UTF-8 overwrites it.
Destination(extensions) ==
    FoldLeft(LAMBDA dest, name : IF name # InvalidUtf8 THEN name ELSE dest,
             "", SniEntries(extensions))

\* parse_tls_plaintext(..).finish(): the streaming parser answers Incomplete
\* to a record that is not all there (no bytes at all, or fewer than its
\* header announces), and nom's finish panics on Incomplete.
Incomplete(data) == data = <<>> \/ data[1].record = "Incomplete"

\* Panic: see above; Err: parse_tls_plaintext or parse_tls_extensions
\* failed; None: the first message is no ClientHello, or it has no
\* extensions; Some otherwise, with the empty name when there was no SNI.
GetHostname(data) ==
    IF Incomplete(data) THEN [tag |-> "Panic"]
    ELSE IF "Malformed" \in {data[1].record, data[1].ext} THEN [tag |-> "Err"]
    ELSE IF data[1].record # "ClientHello" \/ data[1].ext = "Absent"
         THEN [tag |-> "None"]
    ELSE [tag |-> "Some", name |-> Destination(data[1].extensions)]

\* Faulty variant: the lookup ignores the key.
GetIpAnyName(name) == UNION {cache[h] : h \in DOMAIN cache}

\* Cache::get_ip followed by choose: the addresses choose can return.  A
\* missing entry and an empty one both leave nothing to choose.
GetIp(name) == IF name \in DOMAIN cache THEN cache[name] ELSE {}

\* What the handler decides from its first read, before any dial: the
\* panic, the `?` and the None arm on get_hostname, then the two arms on
\* the chosen address.
Verdict(data) ==
    LET parsed == GetHostname(data)
    IN  IF parsed.tag = "Panic" THEN "Panicked"
        ELSE IF parsed.tag = "Err" THEN "TlsParseError"
        ELSE IF parsed.tag = "None" THEN "NoHostnameFound"
        ELSE IF GetIp(parsed.name) = {} THEN "MissingIP" ELSE "Authorized"

\* Faulty variant: the bytes of the first read go out as they came in.
ExternalRequestUnframed(ip, data) == RawWrite(data)

\* Faulty variant: only the parsed record is framed, not all that was read.
ExternalRequestHelloOnly(ip, data) ==
    [ip |-> ip, data |-> SubSeq(data, 1, 1), frame |-> TRUE]

\* ExternalRequest {ip, data}.to_bytes(): all the bytes of the first read.
ExternalRequest(ip, data) == [ip |-> ip, data |-> data, frame |-> TRUE]

-----------------------------------------------------------------------------
(* The environment: customer, host forwarder, DNS forwarder *)

Running(c) == task[c].pc \notin {"Free", "Closed"}
Connected(c) == host[c].state \in {"Open", "HalfClosed"}

ClientWrite(c) ==
    /\ Running(c) /\ ~cust[c].eof /\ Len(cust[c].sent) <= MaxUp
    /\ \E seg \in IF cust[c].sent = <<>> THEN Hellos
                                         ELSE {AppData(Len(cust[c].sent))} :
           cust' = [cust EXCEPT ![c].sent = Append(@, seg)]
    /\ UNCHANGED <<listener, cache, resolved, task, host>>

ClientShutdown(c) ==
    /\ Running(c) /\ ~cust[c].eof
    /\ cust' = [cust EXCEPT ![c].eof = TRUE]
    /\ UNCHANGED <<listener, cache, resolved, task, host>>

HostWrite(c) ==
    /\ Connected(c) /\ ~host[c].eof /\ Len(host[c].sent) < MaxDown
    /\ host' = [host EXCEPT ![c].sent = Append(@, AppData(Len(@) + 1))]
    /\ UNCHANGED <<listener, cache, resolved, task, cust>>

HostShutdown(c) ==
    /\ Connected(c) /\ ~host[c].eof
    /\ host' = [host EXCEPT ![c].eof = TRUE]
    /\ UNCHANGED <<listener, cache, resolved, task, cust>>

\* The DNS forwarder stores the answers of a successful resolution: the
\* entry of the name is overwritten, never emptied, never evicted.
DnsResolve(name, ips) ==
    /\ cache' = [h \in DOMAIN cache \cup {name} |->
                   IF h = name THEN ips ELSE cache[h]]
    /\ resolved' = resolved \cup ({name} \X ips)
    /\ UNCHANGED <<listener, task, cust, host>>

-----------------------------------------------------------------------------
(* The listener and handle_egress_connection *)

\* The task returns r: both streams are dropped.
Return(c, r) ==
    /\ task' = [task EXCEPT ![c].pc = "Closed", ![c].result = r]
    /\ host' = [host EXCEPT ![c].state = IF @ = "None" THEN @ ELSE "Dropped"]

\* TcpServer::bind(0.0.0.0:443) and its `?`: listen goes on to its loop,
\* or returns the error and never accepts.
Bind ==
    /\ listener = "Binding"
    /\ listener' \in {"Listening", "Failed"}
    /\ UNCHANGED <<cache, resolved, task, cust, host>>

\* loop { accept; spawn }: a task slot is taken for a new connection.
Accept(c) ==
    /\ listener = "Listening" /\ ~Running(c)
    /\ task' = [task EXCEPT ![c] = [NewTask EXCEPT !.pc = "Peeking"]]
    /\ cust' = [cust EXCEPT ![c] = NewCust]
    /\ host' = [host EXCEPT ![c] = NewHost]
    /\ UNCHANGED <<listener, cache, resolved>>

\* Faulty variant: the handler reads to the end of file (read_to_end where
\* the one read belongs).
FirstReadToEnd(c) == IF cust[c].eof THEN {Len(cust[c].sent)} ELSE {}

\* How many segments the one read can return: some of what has arrived,
\* or nothing at the end of file.
FirstRead(c) ==
    IF cust[c].sent # <<>> THEN 1..Len(cust[c].sent)
    ELSE IF cust[c].eof THEN {0} ELSE {}

\* Faulty variant: the first bytes are peeked, and stay in the stream.
TakenPeeked(n) == 0

\* read takes the n segments it returns out of the stream.
Taken(n) == n

\* The read, get_hostname, Cache::get_ip and choose: no await in between.
ReadClientHello(c) ==
    /\ task[c].pc = "Peeking"
    /\ \E n \in FirstRead(c) :
        LET data == SubSeq(cust[c].sent, 1, n) IN
        /\ cust' = [cust EXCEPT ![c].read = Taken(n)]
        /\ \/ /\ Verdict(data) # "Authorized"
              /\ task' = [task EXCEPT ![c].pc = "Closed", ![c].data = data,
                                      ![c].result = Verdict(data)]
           \/ /\ Verdict(data) = "Authorized"
              /\ \E ip \in GetIp(GetHostname(data).name) :
                   task' = [task EXCEPT ![c].pc = "Dialing", ![c].data = data,
                              ![c].hostname = GetHostname(data).name,
                              ![c].ip = ip]
    /\ UNCHANGED <<listener, cache, resolved, host>>

\* get_listener: the dial of the host forwarder succeeds or fails.
GetListener(c) ==
    /\ task[c].pc = "Dialing"
    /\ \/ /\ task' = [task EXCEPT ![c].pc = "Writing"]
          /\ host' = [host EXCEPT ![c].state = "Open"]
       \/ Return(c, "Io")
    /\ UNCHANGED <<listener, cache, resolved, cust>>

\* to_bytes and write_all of the frame; on success the splice starts.
WriteExternalRequest(c) ==
    /\ task[c].pc = "Writing"
    /\ \/ /\ task' = [task EXCEPT ![c].pc = "Splicing", ![c].up = "Copying",
                                  ![c].down = "Copying"]
          /\ host' = [host EXCEPT ![c].rcvd =
                        <<ExternalRequest(task[c].ip, task[c].data)>>]
       \/ Return(c, "Io")
    /\ UNCHANGED <<listener, cache, resolved, cust>>

\* A failed read of the customer stream (the `?` on read, or on a half).
IoError(c) ==
    /\ \/ /\ task[c].pc = "Peeking"
          /\ Return(c, "Io")
       \/ /\ task[c].pc = "Splicing"
          /\ \E h \in {"up", "down"} :
               /\ task[c][h] = "Copying"
               /\ task' = [task EXCEPT ![c][h] = "Failed"]
          /\ UNCHANGED host
    /\ UNCHANGED <<listener, cache, resolved, cust>>

-----------------------------------------------------------------------------
(* pipe_streams: two halves, each copies until the end of file of its     *)
(* reader and then shuts down the write side of the other stream           *)

\* Faulty variant: the write side stays open until the streams are dropped.
HalfClosedNot(stream) == stream

\* shutdown() of the write side of the channel to the host forwarder.
HalfClosed(stream) == [stream EXCEPT !.state = "HalfClosed"]

PipeUp(c) ==
    /\ task[c].up = "Copying"
    /\ \/ /\ cust[c].read < Len(cust[c].sent)
          /\ cust' = [cust EXCEPT ![c].read = @ + 1]
          /\ host' = [host EXCEPT ![c].rcvd =
                        Append(@, RawWrite(<<cust[c].sent[cust[c].read + 1]>>))]
          /\ UNCHANGED task
       \/ /\ cust[c].read = Len(cust[c].sent) /\ cust[c].eof
          /\ task' = [task EXCEPT ![c].up = "Eof"]
          /\ host' = [host EXCEPT ![c] = HalfClosed(@)]
          /\ UNCHANGED cust
    /\ UNCHANGED <<listener, cache, resolved>>

PipeDown(c) ==
    /\ task[c].down = "Copying"
    /\ \/ /\ host[c].read < Len(host[c].sent)
          /\ host' = [host EXCEPT ![c].read = @ + 1]
          /\ cust' = [cust EXCEPT ![c].rcvd =
                        Append(@, host[c].sent[host[c].read + 1])]
          /\ UNCHANGED task
       \/ /\ host[c].read = Len(host[c].sent) /\ host[c].eof
          /\ task' = [task EXCEPT ![c].down = "Eof"]
          /\ cust' = [cust EXCEPT ![c].closed = TRUE]
          /\ UNCHANGED host
    /\ UNCHANGED <<listener, cache, resolved>>

\* Both halves have ended, with an end of file or with an error.
HalvesDone(c) == "Copying" \notin {task[c].up, task[c].down}

\* Faulty variant: the splice is started and not awaited.
AwaitedNot(c) == task[c].pc = "Splicing"

\* pipe_streams(..).await: the handler goes on when the splice has returned.
Awaited(c) == task[c].pc = "Splicing" /\ HalvesDone(c)

\* The handler returns what the splice returned.
PipeReturns(c) ==
    /\ Awaited(c)
    /\ Return(c, IF "Failed" \in {task[c].up, task[c].down} THEN "Io" ELSE "Ok")
    /\ UNCHANGED <<listener, cache, resolved, cust>>

-----------------------------------------------------------------------------
Init ==
    /\ listener = "Binding"
    /\ cache = [h \in {} |-> {}]
    /\ resolved = {}
    /\ task = [c \in Conns |-> NewTask]
    /\ cust = [c \in Conns |-> NewCust]
    /\ host = [c \in Conns |-> NewHost]

Handler(c) ==
    \/ ReadClientHello(c) \/ GetListener(c) \/ WriteExternalRequest(c)
    \/ PipeUp(c) \/ PipeDown(c) \/ PipeReturns(c)

Environment(c) ==
    \/ ClientWrite(c) \/ ClientShutdown(c) \/ HostWrite(c) \/ HostShutdown(c)
    \/ IoError(c)

Next ==
    \/ Bind
    \/ \E c \in Conns : Accept(c) \/ Handler(c) \/ Environment(c)
    \/ \E name \in Hostnames, ips \in (SUBSET IPs) \ {{}} : DnsResolve(name, ips)

\* The runtime runs a task that can take a step; nothing makes a peer send
\* or close, and nothing in the code times a silent peer out.
Fairness == \A c \in Conns : WF_vars(Handler(c))

Spec == Init /\ [][Next]_vars
FairSpec == Spec /\ Fairness


-----------------------------------------------------------------------------
(* Properties *)

Segments == Hellos \cup {AppData(n) : n \in 1..(MaxUp + MaxDown)}
Writes == [ip : IPs, data : Seq(Segments), frame : {TRUE}]
              \cup [data : Seq(Segments), frame : {FALSE}]

\* The type invariant.  A task exists only behind a bound listener, an
\* authorised host name is a key of the cache, and the broker never reads
\* more of a stream than its peer has written.
TypeOK ==
    /\ listener \in {"Binding", "Listening", "Failed"}
    /\ (\E c \in Conns : task[c].pc # "Free") => listener = "Listening"
    /\ DOMAIN cache \subseteq Hostnames
    /\ \A h \in DOMAIN cache : cache[h] \in (SUBSET IPs) \ {{}}
    /\ resolved \subseteq Hostnames \X IPs
    /\ \A c \in Conns :
        /\ task[c].pc \in {"Free", "Peeking", "Dialing", "Writing",
                           "Splicing", "Closed"}
        /\ task[c].hostname \in Hostnames \cup {""}
        /\ task[c].ip \in IPs \cup {NoIp}
        /\ task[c].data \in Seq(Segments)
        /\ {task[c].up, task[c].down} \subseteq {"Idle", "Copying", "Eof", "Failed"}
        /\ task[c].result \in {"None", "Ok", "Io", "Panicked", "TlsParseError",
                               "NoHostnameFound", "MissingIP"}
        /\ cust[c].sent \in Seq(Segments) /\ cust[c].rcvd \in Seq(Segments)
        /\ cust[c].read \in 0..Len(cust[c].sent)
        /\ {cust[c].eof, cust[c].closed} \subseteq BOOLEAN
        /\ host[c].state \in {"None", "Open", "HalfClosed", "Dropped"}
        /\ host[c].rcvd \in Seq(Writes) /\ host[c].sent \in Seq(Segments)
        /\ host[c].read \in 0..Len(host[c].sent) /\ host[c].eof \in BOOLEAN

\* The name a first segment asks for, stated without the loops of
\* get_hostname: the last UTF-8 entry of its SNI extensions, if it has one.
SniOf(segment) ==
    LET names == IF segment.record = "ClientHello" /\ segment.ext = "Present"
                 THEN SelectSeq(SniEntries(segment.extensions),
                                LAMBDA name : name # InvalidUtf8)
                 ELSE <<>>
    IN  IF names = <<>> THEN "" ELSE Last(names)

\* The bytes the host forwarder has received, frame or not.
Forwarded(c) == FlattenSeq([i \in DOMAIN host[c].rcvd |-> host[c].rcvd[i].data])

\* Section 8, invariant 1: on every channel to the host forwarder the
\* ExternalRequest frame is the first write of handle_egress_connection and
\* the only frame; pipe_streams never writes before it or frames again.
FrameFirst ==
    \A c \in Conns : \A i \in DOMAIN host[c].rcvd :
        host[c].rcvd[i].frame <=> i = 1

\* Section 8, invariant 2, with section 3's "a direct-IP attempt with no
\* prior resolution is denied": the handler dials the host forwarder only
\* for a connection whose ClientHello names a host the DNS forwarder has
\* resolved, and the address it puts in the frame was at some time an
\* answer for that very name (get_hostname, Cache::get_ip and choose agree).
EgressAuthorized ==
    \A c \in Conns : host[c].state # "None" =>
        /\ cust[c].sent # <<>>
        /\ <<SniOf(cust[c].sent[1]), task[c].ip>> \in resolved
        /\ \A i \in DOMAIN host[c].rcvd :
               host[c].rcvd[i].frame => host[c].rcvd[i].ip = task[c].ip

\* The tunnel neither loses, repeats nor reorders: once the frame is
\* written, the bytes the host forwarder holds (the frame's data and what
\* pipe_streams copied after it) are exactly what the broker has read from
\* the customer, the bytes of the first read included however many
\* segments that read returned; and the same in the other direction.
TunnelInOrder ==
    \A c \in Conns :
        /\ host[c].rcvd # <<>> =>
               Forwarded(c) = SubSeq(cust[c].sent, 1, cust[c].read)
        /\ cust[c].rcvd = SubSeq(host[c].sent, 1, host[c].read)

\* The broker is a tunnel (sections 4.2 and 5), from its first read on:
\* with the bytes of the frame counted as bytes carried up, every step of
\* listen, handle_egress_connection and pipe_streams is a step of Tunnel
\* or leaves the tunnel as it is.  The bytes of the first read are given to
\* the host forwarder once, by the frame and not again by the splice; the
\* channel is half-closed only at the customer's end of file with every
\* byte forwarded; nothing is forwarded once the handler has returned.
Abstract == INSTANCE Tunnel WITH
    open      <- [c \in Conns |-> Running(c)],
    sent      <- [c \in Conns |-> [up |-> cust[c].sent, down |-> host[c].sent]],
    eof       <- [c \in Conns |-> [up |-> cust[c].eof, down |-> host[c].eof]],
    delivered <- [c \in Conns |-> [up |-> Forwarded(c), down |-> cust[c].rcvd]],
    closed    <- [c \in Conns |->
                    [up   |-> host[c].state \in {"HalfClosed", "Dropped"}
                                 \/ task[c].pc = "Closed",
                     down |-> cust[c].closed \/ task[c].pc = "Closed"]],
    failed    <- [c \in Conns |-> [up   |-> task[c].up = "Failed",
                                   down |-> task[c].down = "Failed"]]

BrokerIsATunnel == Abstract!Spec

\* pipe_streams half-closes a direction at the end of file of its writer
\* without waiting for the other direction: a customer that has sent its
\* request and shut its write side down is seen to have done so by the
\* remote host while the answer is still on its way, whatever
\* handle_egress_connection was doing when the end of file arrived.
BrokerCompletes == Abstract!Completes

\* pipe_streams joins its two halves: when the handler has dropped the
\* streams after a splice in which no half failed, everything either peer
\* wrote before its end of file has reached the other peer.
NoTruncation ==
    \A c \in Conns :
        (/\ task[c].pc = "Closed" /\ task[c].up # "Idle"
         /\ "Failed" \notin {task[c].up, task[c].down})
        => Forwarded(c) = cust[c].sent /\ cust[c].rcvd = host[c].sent

\* handle_egress_connection has no timeout, so it returns only if its
\* peers let it: a task whose customer has written or closed gets past the
\* handshake, and a task whose two peers have both closed their write side
\* returns, whatever errors the halves of the splice met.
HandlerReturns ==
    \A c \in Conns :
        /\ (task[c].pc = "Peeking" /\ (cust[c].sent # <<>> \/ cust[c].eof))
               ~> (task[c].pc \in {"Splicing", "Closed"})
        /\ (task[c].pc = "Splicing" /\ cust[c].eof /\ host[c].eof)
               ~> (task[c].pc = "Closed")

\* Section 8, invariant 2 read as a state invariant: while a connection is
\* spliced, its address is an answer the cache holds for its host name.
ChosenIpIsCached ==
    \A c \in Conns :
        task[c].pc = "Splicing" => task[c].ip \in GetIp(task[c].hostname)

\* Section 4.4 and scenario 4 of section 8: a ClientHello that names no
\* host (no SNI extension, or an empty name) is refused as NoHostnameFound.
NoSniIsNoHostnameFound ==
    \A c \in Conns :
        (/\ task[c].pc = "Closed" /\ task[c].data # <<>>
         /\ task[c].data[1].record = "ClientHello"
         /\ task[c].data[1].ext # "Malformed"
         /\ SniOf(task[c].data[1]) = "")
        => task[c].result = "NoHostnameFound"

=============================================================================
