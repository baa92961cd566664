------------------------------ MODULE E3Client ------------------------------
(***************************************************************************)
(* The client of the remote crypto service, data-plane/src/e3client/mod.rs *)
(* encrypt, decrypt and authenticate each build the body from the payload  *)
(* and the tenant context, open a fresh connection (socket, TLS, HTTP),    *)
(* send one POST and read the answer.                                      *)
(*                                                                         *)
(* A JSON value is a member of Datas, an answer of the service a member of *)
(* Replies; the service and the transport are the environment, and so is   *)
(* whoever answers on the crypto port: the channel runs through the host.  *)
(* The task that drives the hyper connection only logs, and is left out.   *)
(***************************************************************************)
EXTENDS Naturals

CONSTANTS
    Calls,      \* calls that can be in flight at the same time
    ApiKeys,    \* values of the api-key header
    Datas,      \* JSON values a payload can carry
    Answers,    \* JSON values the service can answer with
    Null,       \* the data of a payload built from the context alone
    Contexts,   \* tenant contexts: records with team_uuid and app_uuid
    Peers,      \* certificates the peer on the crypto port can present
    Malformed   \* an answer that does not deserialize

VARIABLE
    conn    \* per call: pc, the request (path, key, body), the certificate
            \* of the peer, whether the peer has received the request, the
            \* status and the reply it gave, and the result of the call

Paths    == {"/encrypt", "/decrypt", "/authenticate"}
Statuses == {"2xx", "4xx", "5xx"}
Replies  == [data : Answers] \cup {Malformed}
Payloads == [data : Datas \cup {Null}, context : Contexts]

None   == [tag |-> "None", value |-> "none"]
Ok(v)  == [tag |-> "Ok", value |-> v]
Err(e) == [tag |-> "Err", value |-> e]

NewConn == [pc |-> "Idle", path |-> "none", key |-> "none", body |-> "none",
            status |-> "none", result |-> None, received |-> FALSE,
            reply |-> "none", peer |-> "none"]

-----------------------------------------------------------------------------
(* The TLS configuration *)

\* A certificate is bound to an enclave the trust store recognises
\* ("Attested"), chains to a WebPKI root for the name of the service
\* ("WebPki"), or neither ("SelfSigned").
Certificates == {"Attested", "WebPki", "SelfSigned"}

\* tls_verifier::E3CertVerifier as the repository has it: sections 4.6 and
\* 9 say of the source that it accepts every certificate.
E3CertVerifier(cert) == TRUE

\* get_tls_client_config: the WebPKI roots are loaded, and the verifier set
\* through dangerous() replaces the one that would consult them.
get_tls_client_config ==
    [root_store |-> "TLS_SERVER_ROOTS", verifier |-> "E3CertVerifier"]

\* tls_connector.connect: rustls asks the verifier of the configuration,
\* and nothing else, whether the certificate of the peer is good.
Verified(cert) ==
    IF get_tls_client_config.verifier = "E3CertVerifier"
    THEN E3CertVerifier(cert)
    ELSE cert = "WebPki"

-----------------------------------------------------------------------------
(* The request *)

\* Faulty variant: the two identifiers change places.
TryIntoSwapped(payload) ==
    [team_uuid |-> payload.context.app_uuid,
     app_uuid |-> payload.context.team_uuid, data |-> payload.data]

\* E3Payload::try_into: the data is nested, the identifiers are those of
\* the context whatever the data holds.
TryInto(payload) ==
    [team_uuid |-> payload.context.team_uuid,
     app_uuid |-> payload.context.app_uuid, data |-> payload.data]

\* encrypt, decrypt or authenticate up to the first await of send: the body
\* and the request are built, nothing has left the enclave.
Start(c, path, key, payload) ==
    conn' = [conn EXCEPT ![c] = [NewConn EXCEPT !.pc = "Connecting",
                !.path = path, !.key = key, !.body = TryInto(payload)]]

\* The call returns r.
Return(c, r) == conn' = [conn EXCEPT ![c].pc = "Done", ![c].result = r]

\* A caller inside the enclave: any operation, key, data and context.
Invoke(c) ==
    /\ conn[c].pc \in {"Idle", "Done"}
    /\ \E path \in Paths, key \in ApiKeys, payload \in Payloads :
           Start(c, path, key, payload)

-----------------------------------------------------------------------------
(* get_conn and send *)

\* get_socket: whoever listens on the crypto port is the peer.
GetSocket(c) ==
    /\ conn[c].pc = "Connecting"
    /\ \/ \E peer \in Peers :
            conn' = [conn EXCEPT ![c].pc = "TlsHandshake", ![c].peer = peer]
       \/ Return(c, Err("IoError"))

\* tls_connector.connect: the handshake succeeds only with a peer whose
\* certificate is verified.
TlsConnect(c) ==
    /\ conn[c].pc = "TlsHandshake"
    /\ \/ /\ Verified(conn[c].peer)
          /\ conn' = [conn EXCEPT ![c].pc = "HttpHandshake"]
       \/ Return(c, Err("IoError"))

\* Builder::handshake, which ends get_conn.
Handshake(c) ==
    /\ conn[c].pc = "HttpHandshake"
    /\ \/ conn' = [conn EXCEPT ![c].pc = "Sending"]
       \/ Return(c, Err("HyperError"))

\* send_request: the peer receives the request, or the exchange fails.
SendRequest(c) ==
    /\ conn[c].pc = "Sending"
    /\ \/ conn' = [conn EXCEPT ![c].pc = "Awaiting", ![c].received = TRUE]
       \/ Return(c, Err("HyperError"))

\* The service sends the head of its answer, which ends the await of
\* send_request, or the connection breaks before it has.
Answer(c) ==
    /\ conn[c].pc = "Awaiting"
    /\ \/ \E status \in Statuses :
            conn' = [conn EXCEPT ![c].pc = "Responded", ![c].status = status]
       \/ Return(c, Err("HyperError"))

\* Faulty variant: every answer counts as a success.
RefusedNever(status) == FALSE

\* `if !response.status().is_success()` in send.
Refused(status) == status # "2xx"

\* The end of send and what the caller makes of the response: a refusal is
\* FailedRequest, authenticate looks at the status only, encrypt and
\* decrypt go on to parse_response.
CheckStatus(c) ==
    /\ conn[c].pc = "Responded"
    /\ IF Refused(conn[c].status) THEN Return(c, Err("FailedRequest"))
       ELSE IF conn[c].path = "/authenticate"
            THEN Return(c, Ok(conn[c].status = "2xx"))
            ELSE conn' = [conn EXCEPT ![c].pc = "Parsing"]

\* to_bytes in parse_response: the service sends the body of its answer,
\* or the connection breaks before the body is complete.
ReadBody(c) ==
    /\ conn[c].pc = "Parsing"
    /\ \/ \E reply \in Replies :
            conn' = [conn EXCEPT ![c].pc = "Parsed", ![c].reply = reply]
       \/ Return(c, Err("HyperError"))

\* from_slice in parse_response: the body is deserialized.
ParseResponse(c) ==
    /\ conn[c].pc = "Parsed"
    /\ Return(c, IF conn[c].reply = Malformed THEN Err("SerdeError")
                                              ELSE Ok(conn[c].reply))

-----------------------------------------------------------------------------
Init == conn = [c \in Calls |-> NewConn]

\* The steps the client takes by itself, and the steps that take the peer:
\* the TLS handshake, the head of the answer and its body.
Client(c) == \/ GetSocket(c) \/ Handshake(c) \/ SendRequest(c)
             \/ CheckStatus(c) \/ ParseResponse(c)
Service(c) == TlsConnect(c) \/ Answer(c) \/ ReadBody(c)

Next == \E c \in Calls : Invoke(c) \/ Client(c) \/ Service(c)

\* The runtime runs a call that can take a step, and a connect returns.
\* Nothing makes the peer go on with the handshake or with its answer:
\* there is no timeout in get_conn, send or parse_response.
Fairness == \A c \in Calls : WF_conn(Client(c))

Spec == Init /\ [][Next]_conn
FairSpec == Spec /\ Fairness

-----------------------------------------------------------------------------
(* Properties *)

Errors == {"IoError", "HyperError", "SerdeError", "FailedRequest"}

\* The result is of this tag and value (values of two tags never compare).
Is(result, tag, value) == result.tag = tag /\ result.value = value

\* The type invariant.  Every body built for the service names a tenant
\* that exists: team_uuid and app_uuid of one and the same context.
TypeOK ==
    \A c \in Calls :
        /\ conn[c].pc \in {"Idle", "Connecting", "TlsHandshake", "HttpHandshake",
                           "Sending", "Awaiting", "Responded", "Parsing",
                           "Parsed", "Done"}
        /\ conn[c].pc # "Idle" =>
            /\ conn[c].path \in Paths /\ conn[c].key \in ApiKeys
            /\ \E x \in Contexts, data \in Datas \cup {Null} :
                   conn[c].body = [team_uuid |-> x.team_uuid,
                                   app_uuid |-> x.app_uuid, data |-> data]
        /\ conn[c].peer \in Peers \cup {"none"}
        /\ conn[c].received \in BOOLEAN
        /\ conn[c].status \in Statuses \cup {"none"}
        /\ conn[c].pc = "Parsed" => conn[c].reply \in Replies
        /\ conn[c].result.tag \in {"None", "Ok", "Err"}
        /\ conn[c].result.tag = "Err" => conn[c].result.value \in Errors
        /\ conn[c].result.tag = "None" <=> conn[c].pc # "Done"

\* A call succeeds only on the word of the service: Ok is returned only
\* when the service has received the request and has answered it 2xx,
\* and (for encrypt and decrypt) the value is the answer it gave on this
\* connection; and a call that the service refused is never a success.
\* send, authenticate and parse_response together.
OkOnlyOnSuccess ==
    \A c \in Calls :
        /\ conn[c].result.tag = "Ok" =>
            /\ conn[c].received /\ conn[c].status = "2xx"
            /\ conn[c].path # "/authenticate"
                   => conn[c].result.value = conn[c].reply
        /\ (conn[c].pc = "Done" /\ conn[c].status \in {"4xx", "5xx"})
               => Is(conn[c].result, "Err", "FailedRequest")

\* Section 4.6, "custom certificate verification": the verifier MUST
\* validate that the leaf certificate is bound to an attested enclave and
\* MUST NOT fall back to WebPKI.  So the api-key, the data and the
\* identifiers of the tenant leave the enclave only towards a peer with
\* such a certificate, and only the answer of such a peer becomes the result
\* of a call.  get_tls_client_config, get_conn and send together.
OnlyAnAttestedPeerIsServed ==
    \A c \in Calls :
        (conn[c].received \/ conn[c].result.tag = "Ok")
            => conn[c].peer = "Attested"

=============================================================================
