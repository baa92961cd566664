---------------------------- MODULE ConfigServer ----------------------------
(***************************************************************************)
(* The contract between the data plane and the config server of the        *)
(* control plane, shared/src/server/config_server.rs: the routes of the    *)
(* server, the payloads of its requests and responses, and how a payload   *)
(* becomes the body of an HTTP message.                                    *)
(*                                                                         *)
(* The module of the source holds the routes and the payloads only.  The   *)
(* two parties that use them are modelled from sections 3 and 8 of the     *)
(* specification: a data plane that asks for a certificate token, posts    *)
(* batches of transaction logs and asks the provisioner for its            *)
(* certificate, and a server that routes what it receives.                 *)
(***************************************************************************)
EXTENDS Naturals, Sequences, SequencesExt, FiniteSets

CONSTANTS
    Strings,       \* the values a field of type String can have
    TrxContexts,   \* transaction contexts, opaque here
    Paths,         \* the paths a request to the config server can name
    Null,          \* the JSON value null
    None,          \* Option::None, and "nothing yet" of the model
    MaxLogs,       \* bound: the contexts of one batch
    MaxSecrets,    \* bound: the secrets of one provisioner payload
    MaxInFlight    \* bound: messages on their way in one direction

VARIABLES
    wire,          \* the requests sent and not yet handled
    replies,       \* the response bodies sent and not yet received
    served,        \* the request the config server handled last, and how
    token,         \* the certificate token the data plane holds
    provisioned    \* the provisioner payload the data plane stored

vars == <<wire, replies, served, token, provisioned>>

-----------------------------------------------------------------------------
(* routes *)

ConfigServerPath == {"GetCertToken", "PostTrxLogs"}

Ok(v)              == [ok |-> TRUE, value |-> v]
InvalidPath(input) == [ok |-> FALSE, value |-> input]

\* Faulty variant: the error does not say which path was asked for.
from_str_unnamed(input) ==
    CASE input = "/cert/token" -> Ok("GetCertToken")
      [] input = "/trx/logs"   -> Ok("PostTrxLogs")
      [] OTHER                 -> InvalidPath(None)

from_str(input) ==
    CASE input = "/cert/token" -> Ok("GetCertToken")
      [] input = "/trx/logs"   -> Ok("PostTrxLogs")
      [] OTHER                 -> InvalidPath(input)

\* Faulty variant: the two paths are exchanged.
fmt_swapped == [GetCertToken |-> "/trx/logs", PostTrxLogs |-> "/cert/token"]

fmt == [GetCertToken |-> "/cert/token", PostTrxLogs |-> "/trx/logs"]

-----------------------------------------------------------------------------
(* requests: a payload is a record of its fields and of the name of its    *)
(* struct, which only the program knows                                    *)

Payload(name, fields) ==
    {[f \in DOMAIN p \cup {"struct"} |-> IF f = "struct" THEN name ELSE p[f]] :
        p \in fields}

GetCertTokenRequestDataPlane  == [struct : {"GetCertTokenRequestDataPlane"}]
GetCertTokenResponseDataPlane ==
    Payload("GetCertTokenResponseDataPlane", [token : Strings])
GetCertRequestDataPlane ==
    Payload("GetCertRequestDataPlane", [attestation_doc : Strings])

Secret == [name : Strings, secret : Strings]
ProvisionerContext ==
    [cage_uuid : Strings, cage_name : Strings, team_uuid : Strings, app_uuid : Strings]

GetCertResponseDataPlane ==
    Payload("GetCertResponseDataPlane",
            [intermediate_cert : Strings, key_pair : Strings,
             secrets : {None} \cup BoundedSeq(Secret, MaxSecrets),
             context : ProvisionerContext])
GetSecretsResponseDataPlane ==
    Payload("GetSecretsResponseDataPlane",
            [secrets : BoundedSeq(Secret, MaxSecrets), context : ProvisionerContext])
PostTrxLogsRequest ==
    Payload("PostTrxLogsRequest", [trx_logs : BoundedSeq(TrxContexts, MaxLogs)])

\* The structs by their names.
Structs ==
    [GetCertTokenRequestDataPlane  |-> GetCertTokenRequestDataPlane,
     GetCertTokenResponseDataPlane |-> GetCertTokenResponseDataPlane,
     GetCertRequestDataPlane       |-> GetCertRequestDataPlane,
     GetCertResponseDataPlane      |-> GetCertResponseDataPlane,
     GetSecretsResponseDataPlane   |-> GetSecretsResponseDataPlane,
     PostTrxLogsRequest            |-> PostTrxLogsRequest]

\* serde_json::to_vec of a payload: a unit struct is null, every other one
\* the object of its fields, in which None is null.
to_vec(payload) ==
    IF DOMAIN payload = {"struct"} THEN Null
    ELSE [f \in DOMAIN payload \ {"struct"} |->
            IF payload[f] = None THEN Null ELSE payload[f]]

\* serde_json::from_slice into the struct called name: the inverse reading;
\* what is no value of the struct is an error.
from_slice(name, json) ==
    LET payload == IF json = Null THEN [struct |-> name]
                   ELSE [f \in DOMAIN json \cup {"struct"} |->
                           CASE f = "struct"   -> name
                             [] json[f] = Null -> None
                             [] OTHER          -> json[f]]
    IN  IF payload \in Structs[name] THEN Ok(payload) ELSE [ok |-> FALSE, value |-> None]

\* ConfigServerPayload::into_body: a body is no document or one.  The
\* request for a token has its own implementation: the empty body.
into_body(payload) ==
    IF payload \in GetCertTokenRequestDataPlane THEN <<>>
    ELSE <<to_vec(payload)>>

-----------------------------------------------------------------------------
(* The data plane *)

Request(host, method, path, payload) ==
    [payload |-> payload, host |-> host, method |-> method, path |-> path,
     body |-> into_body(payload)]

Send(request) ==
    /\ Cardinality(wire) < MaxInFlight
    /\ wire' = wire \cup {request}
    /\ UNCHANGED <<replies, served, token, provisioned>>

\* GET /cert/token
GetCertToken ==
    Send(Request("config", "GET", fmt.GetCertToken, [struct |-> "GetCertTokenRequestDataPlane"]))

\* POST /trx/logs with a batch of transaction contexts
PostTrxLogs == \E request \in PostTrxLogsRequest :
    Send(Request("config", "POST", fmt.PostTrxLogs, request))

\* POST to the provisioner with the attestation document
GetCert == \E request \in GetCertRequestDataPlane :
    /\ provisioned = None
    /\ Send(Request("provisioner", "POST", None, request))

\* Any other client of the config server: any path, no body.
Stray == \E path \in Paths :
    Send([payload |-> None, host |-> "config", method |-> "GET", path |-> path,
          body |-> <<>>])

\* A response arrives.  The token of GetCertTokenResponseDataPlane replaces
\* the one held; the provisioner payload is stored once.
Receive == \E reply \in replies :
    /\ replies' = replies \ {reply}
    /\ \/ /\ reply.from = "config"
          /\ LET got == from_slice("GetCertTokenResponseDataPlane", Head(reply.body))
             IN  token' = IF got.ok THEN got.value.token ELSE token
          /\ UNCHANGED provisioned
       \/ /\ reply.from = "provisioner"
          /\ LET got == from_slice("GetCertResponseDataPlane", Head(reply.body))
             IN  provisioned' = IF got.ok /\ provisioned = None
                                THEN got.value ELSE provisioned
          /\ UNCHANGED token
    /\ UNCHANGED <<wire, served>>

-----------------------------------------------------------------------------
(* The config server and the provisioner *)

Reply(from, payload) ==
    [payload |-> payload, body |-> into_body(payload), from |-> from]

\* The config server takes a request and routes it by its path: a token for
\* GetCertToken, the batch taken for PostTrxLogs, an error for any other.
Serve == \E request \in wire :
    /\ request.host = "config"
    /\ wire' = wire \ {request}
    /\ served' = {[request |-> request, route |-> from_str(request.path)]}
    /\ \/ /\ from_str(request.path) = Ok("GetCertToken")
          /\ Cardinality(replies) < MaxInFlight
          /\ \E t \in Strings :
                replies' = replies \cup
                    {Reply("config", [token |-> t, struct |-> "GetCertTokenResponseDataPlane"])}
       \/ /\ from_str(request.path) # Ok("GetCertToken")
          /\ UNCHANGED replies
    /\ UNCHANGED <<token, provisioned>>

\* The provisioner answers a request with the payload of the enclave.
Provision == \E request \in wire, payload \in GetCertResponseDataPlane :
    /\ request.host = "provisioner"
    /\ Cardinality(replies) < MaxInFlight
    /\ wire' = wire \ {request}
    /\ replies' = replies \cup {Reply("provisioner", payload)}
    /\ UNCHANGED <<served, token, provisioned>>

-----------------------------------------------------------------------------
Init ==
    /\ wire = {}
    /\ replies = {}
    /\ served = {}
    /\ token = None
    /\ provisioned = None

Next ==
    \/ GetCertToken \/ PostTrxLogs \/ GetCert \/ Stray
    \/ Receive \/ Serve \/ Provision

Spec == Init /\ [][Next]_vars

-----------------------------------------------------------------------------
(* Properties *)

\* The type invariant: a body is no document or one, the server's record
\* names a route or the path it refused, and what the data plane holds is a
\* token and a provisioner payload of the declared types.
TypeOK ==
    /\ \A m \in wire \cup replies : Len(m.body) <= 1
    /\ \A s \in served :
          s.route.value \in (IF s.route.ok THEN ConfigServerPath ELSE Paths)
    /\ token \in Strings \cup {None}
    /\ provisioned \in GetCertResponseDataPlane \cup {None}

\* from_str and Display agree: a request the data plane made for a route is
\* handled as that route, whatever else is on the wire, and a path is
\* refused as InvalidPath exactly when Display writes it for no route.
RoutedAsRequested ==
    \A s \in served :
        /\ s.request.payload \in GetCertTokenRequestDataPlane
               => s.route = Ok("GetCertToken")
        /\ s.request.payload \in PostTrxLogsRequest
               => s.route = Ok("PostTrxLogs")
        /\ s.route.ok <=> \E r \in ConfigServerPath : fmt[r] = s.request.path

=============================================================================
