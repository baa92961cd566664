------------------------------ MODULE CryptoApi ------------------------------
(***************************************************************************)
(* The HTTP facade of the workload, data-plane/src/crypto/api.rs, composed *)
(* with the client of E3Client: hyper serves every request on a task of    *)
(* its own, api routes it, build_request checks the tenant context and the *)
(* api-key and parses the body, and encrypt and decrypt hand the payload   *)
(* to the client and return the data of its answer.                        *)
(*                                                                         *)
(* The workload is the environment.  A request whose service returns an    *)
(* error gets no response: hyper closes its connection.                    *)
(***************************************************************************)
EXTENDS Naturals

CONSTANTS
    Reqs,        \* requests that can be served at the same time
    ApiKeys,     \* values of the api-key header
    Datas,       \* JSON values a body can be
    Answers,     \* JSON values the service can answer with
    Null,        \* the JSON null of a payload without data
    Contexts,    \* tenant contexts the process can run in
    Peers,       \* certificates the peer on the crypto port can present
    Malformed,   \* bytes that are no JSON
    AttestationRequests,  \* the JSON values, among Datas, that
                 \* deserialize as an AttestationRequest
    NoKey,       \* a request without api-key header
    NoContext,   \* the environment of the process holds no tenant context
    Builds       \* the values of the build feature "enclave" to check

VARIABLES
    server,  \* the HTTP server of listen: Binding, Serving or Panicked
    enclave, \* whether the process was built with the feature "enclave"
    ctx,    \* what CageContext::new finds in the environment of the process
    req,    \* per request: pc, method, path, api-key, body, and the outcome
    conn    \* the calls of the client, one per request

vars == <<server, enclave, ctx, req, conn>>
proc == <<server, enclave, ctx>>   \* what a request leaves as it is

E3 == INSTANCE E3Client WITH Calls <- Reqs

Routes == {<<"POST", "/encrypt">>, <<"POST", "/decrypt">>,
           <<"GET", "/attestation-doc">>, <<"GET", "/encrypt">>,
           <<"POST", "/other">>}

NewReq == [pc |-> "Idle", method |-> "none", path |-> "none", key |-> NoKey,
           body |-> Malformed, out |-> [body |-> "none", status |-> "None"]]

\* The outcomes of a request: a response, the error the service returned
\* (the connection is closed without a response), or a panic of its task.
Response(status, body) == [body |-> body, status |-> status]
\* Faulty variant: the error of the service is answered as a response.
AbortedAsResponse(error) == [body |-> error, status |-> "500"]

Aborted(error) == [body |-> error, status |-> "Aborted"]
Panicked == [body |-> "unwrap", status |-> "Panicked"]

Finish(r, out) == req' = [req EXCEPT ![r].pc = "Done", ![r].out = out]

-----------------------------------------------------------------------------
(* listen and the workload *)

\* Server::bind(127.0.0.1:9999): hyper panics when the bind fails; listen
\* looks at neither the context nor the build before it serves.
Bind ==
    /\ server = "Binding"
    /\ server' \in {"Serving", "Panicked"}
    /\ UNCHANGED <<enclave, ctx, req, conn>>

\* serve: every request gets a CryptoApi, and so a client, of its own.
Receive(r) ==
    /\ server = "Serving" /\ req[r].pc \in {"Idle", "Done"}
    /\ \E route \in Routes, key \in ApiKeys \cup {NoKey},
          body \in Datas \cup {Malformed} :
           req' = [req EXCEPT ![r] = [NewReq EXCEPT !.pc = "Routing",
                      !.method = route[1], !.path = route[2], !.key = key,
                      !.body = body]]
    /\ conn' = [conn EXCEPT ![r] = E3!NewConn]
    /\ UNCHANGED proc

-----------------------------------------------------------------------------
(* api, build_request, encrypt, decrypt, get_attestation_doc *)

Crypto(r) == req[r].method = "POST" /\ req[r].path \in {"/encrypt", "/decrypt"}
Attestation(r) == req[r].method = "GET" /\ req[r].path = "/attestation-doc"

\* Faulty variant: a request without api-key goes on with an empty one.
RefusalKeyOptional(r) == IF ctx = NoContext THEN "MissingCageContext" ELSE "none"

\* The start of build_request: the context, then the api-key.
Refusal(r) ==
    IF ctx = NoContext THEN "MissingCageContext"
    ELSE IF req[r].key = NoKey THEN "MissingApiKey" ELSE "none"

\* The match of api and what runs before the first await of the arm taken.
Route(r) ==
    /\ req[r].pc = "Routing"
    /\ \/ /\ Crypto(r)
          /\ IF Refusal(r) = "none" THEN req' = [req EXCEPT ![r].pc = "Reading"]
                                    ELSE Finish(r, Aborted(Refusal(r)))
       \/ /\ Attestation(r)
          /\ IF enclave
             THEN req' = [req EXCEPT ![r].pc = "Reading"]
             ELSE Finish(r, Response("200", "No attestation available"))
       \/ /\ ~Crypto(r) /\ ~Attestation(r)
          /\ Finish(r, Response("404", "empty"))
    /\ UNCHANGED <<proc, conn>>

\* body::to_bytes, which can fail, and serde_json::from_slice.
BodyError(r) == IF req[r].body = Malformed THEN {"HyperError", "SerdeError"}
                                           ELSE {"HyperError"}

\* The rest of build_request and the call of the client up to its first
\* await: the body is read and parsed, the payload is built from the body
\* and the context, and the api-key of the request goes with it.
ReadBody(r) ==
    /\ req[r].pc = "Reading" /\ Crypto(r)
    /\ \/ /\ \E error \in BodyError(r) : Finish(r, Aborted(error))
          /\ UNCHANGED conn
       \/ /\ req[r].body # Malformed
          /\ req' = [req EXCEPT ![r].pc = "Calling"]
          /\ E3!Start(r, req[r].path, req[r].key,
                      [data |-> req[r].body, context |-> ctx])
    /\ UNCHANGED proc

\* get_attestation_doc in the enclave: the body is read and parsed, the
\* unwrap panics on JSON that is no AttestationRequest, and the platform
\* gives the document or an error.
GetAttestationDoc(r) ==
    /\ req[r].pc = "Reading" /\ Attestation(r)
    /\ \/ \E error \in BodyError(r) : Finish(r, Aborted(error))
       \/ /\ req[r].body \in Datas \ AttestationRequests
          /\ Finish(r, Panicked)
       \/ /\ req[r].body \in AttestationRequests
          /\ \/ Finish(r, Response("200", "attestation document"))
             \/ Finish(r, Aborted("Attestation"))
    /\ UNCHANGED <<proc, conn>>

\* Faulty variant: the facade goes on only when the call has succeeded.
CallDoneOk(r) == conn[r].pc = "Done" /\ conn[r].result.tag = "Ok"

\* The await of encrypt and decrypt: the call of the client has returned.
CallDone(r) == conn[r].pc = "Done"

\* The end of encrypt and decrypt: the data of the answer, or the error.
Respond(r) ==
    /\ req[r].pc = "Calling" /\ CallDone(r)
    /\ IF conn[r].result.tag = "Ok"
       THEN Finish(r, Response("200", conn[r].result.value.data))
       ELSE Finish(r, Aborted("E3Error"))
    /\ UNCHANGED <<proc, conn>>

-----------------------------------------------------------------------------
Init ==
    /\ server = "Binding"
    /\ enclave \in Builds
    /\ ctx \in Contexts \cup {NoContext}
    /\ req = [r \in Reqs |-> NewReq]
    /\ E3!Init

Facade(r) == Route(r) \/ ReadBody(r) \/ GetAttestationDoc(r) \/ Respond(r)

\* A step of the client or of the service, on the call of a request.
Call(r) ==
    /\ req[r].pc = "Calling"
    /\ E3!Client(r) \/ E3!Service(r)
    /\ UNCHANGED <<proc, req>>

Next == Bind \/ \E r \in Reqs : Receive(r) \/ Facade(r) \/ Call(r)

\* hyper and the runtime run every request and every call that can take a
\* step; nothing makes the peer of a call go on.
Fairness ==
    \A r \in Reqs : /\ WF_vars(Facade(r))
                    /\ WF_vars(req[r].pc = "Calling" /\ E3!Client(r)
                                   /\ UNCHANGED <<proc, req>>)

Spec == Init /\ [][Next]_vars
FairSpec == Spec /\ Fairness

-----------------------------------------------------------------------------
(* Properties *)

\* The type invariant.  A request is served only behind a bound server,
\* and it is over exactly when it has an outcome.
TypeOK ==
    /\ server \in {"Binding", "Serving", "Panicked"}
    /\ (\E r \in Reqs : req[r].pc # "Idle") => server = "Serving"
    /\ enclave \in BOOLEAN /\ ctx \in Contexts \cup {NoContext}
    /\ E3!TypeOK
    /\ \A r \in Reqs :
        /\ req[r].pc \in {"Idle", "Routing", "Reading", "Calling", "Done"}
        /\ req[r].pc # "Idle" => <<req[r].method, req[r].path>> \in Routes
        /\ req[r].key \in ApiKeys \cup {NoKey}
        /\ req[r].body \in Datas \cup {Malformed}
        /\ req[r].out.status \in {"None", "Aborted", "Panicked", "200", "404"}
        /\ req[r].out.status = "None" <=> req[r].pc # "Done"

\* Section 8, invariant 4 and scenarios 5 and 6: the facade opens a
\* connection to the service only for an encrypt or decrypt request that
\* carries an api-key, in a process that has a tenant context; and the
\* request the client then sends is that of the workload: its path, its
\* api-key verbatim, its body as data, under the identifiers of the context
\* of the process.  build_request, E3Payload and send together.
OnlyKeyedRequestsReachE3 ==
    \A r \in Reqs : conn[r].pc # "Idle" =>
        /\ Crypto(r) /\ req[r].key \in ApiKeys /\ ctx \in Contexts
        /\ conn[r].path = req[r].path /\ conn[r].key = req[r].key
        /\ conn[r].body = [team_uuid |-> ctx.team_uuid,
                           app_uuid |-> ctx.app_uuid, data |-> req[r].body]

\* What the workload reads as the result of encrypt or decrypt is what the
\* service answered on the connection of this request, under 2xx, and
\* nothing else: no response is made up from an error or from the answer
\* to another request.  send, parse_response and the end of encrypt.
ResponseIsTheAnswer ==
    \A r \in Reqs : (Crypto(r) /\ req[r].out.status = "200") =>
        /\ conn[r].received /\ conn[r].status = "2xx"
        /\ conn[r].reply # Malformed
        /\ req[r].out.body = conn[r].reply.data

\* The call of a request waits for the peer on the crypto port: for the TLS
\* handshake, for the head of the answer or for its body.
WaitsForPeer(r) == conn[r].pc \in {"TlsHandshake", "Awaiting", "Parsing"}

\* Every request gets its outcome unless the peer keeps it waiting: a
\* request that is under way is answered, or its connection is closed, or
\* it has come to wait for the peer.  Nothing else holds a request back:
\* no step of api, build_request, send or parse_response waits for another
\* request or for a step that cannot be taken.
RequestIsAnswered ==
    \A r \in Reqs :
        (req[r].pc # "Idle") ~> (req[r].pc = "Done" \/ WaitsForPeer(r))

\* Sections 4.7 and 7: a missing api-key is answered with a 4xx that says
\* MissingApiKey.
MissingApiKeyIs4xx ==
    \A r \in Reqs :
        (req[r].pc = "Done" /\ Crypto(r) /\ ctx # NoContext /\ req[r].key = NoKey)
        => req[r].out.status = "400"

\* Sections 4.7 and 7: without a tenant context the facade refuses to
\* serve; MissingCageContext is fatal at boot.
NoContextNoService ==
    ctx = NoContext => \A r \in Reqs : req[r].out.status \notin {"200", "404"}

=============================================================================
