# TLA+ models of the enclave networking and crypto paths

This directory holds TLA+ specifications of the enclave runtime of this
repository, the TLC configurations that check them, and `PROJECT.json`, which
lists every component, run, mutant, source mapping, finding and hazard in
machine-readable form. Section numbers ("section 8") refer to `spec.md` at the
root of the repository; source paths are relative to `src/`.

## 1. The system

The runtime lets a customer workload run inside an enclave that has no network
of its own. Everything crosses a host/enclave socket (vsock in the enclave
build, loopback TCP otherwise). Seven parts are named by the design:

| Part | Source | What it does |
|------|--------|--------------|
| C1 socket abstraction | crate outside `src/` | `Listener`/`get_socket`: connect and accept between host and enclave |
| C2 stream splicer | crate outside `src/` (`pipe_streams`) | copies two streams into each other until both directions end |
| C3 DNS cache | crate outside `src/` (`Cache`) | host name to the addresses the DNS forwarder resolved for it |
| C4 egress broker | `data-plane/src/dns/egressproxy.rs` | accepts the workload's outbound TLS connections, authorises them by SNI against the cache, frames the first bytes with the chosen address, splices |
| C5 host ingress bridge | `control-plane/src/main.rs` | accepts customer connections on the public port, dials the enclave, splices; `main` joins the servers of the host |
| C6 E3 client | `data-plane/src/e3client/mod.rs`, `error.rs` | one TLS+HTTP connection per call to the remote crypto service: encrypt, decrypt, authenticate |
| C7 crypto API facade | `data-plane/src/crypto/api.rs` | HTTP service for the workload: routes, checks tenant context and api-key, calls C6, serves the attestation document |

Also in `src/`: `data-plane/src/configuration.rs` (the host names of a build,
and the environment variables `EGRESS_PORTS` and `EGRESS_ALLOW_LIST` as lists)
and `shared/src/server/config_server.rs` (the routes of the config server of
the control plane and the payloads exchanged with it and with the
provisioner).

How they interact. An inbound connection goes customer -> C5 -> enclave; C5
never looks at the bytes. An outbound connection goes workload -> C4 -> host
forwarder -> Internet; C4 reads the ClientHello once, looks the SNI name up in
C3 (which the DNS forwarder fills concurrently), and tells the host forwarder
where to connect with one `ExternalRequest` frame. A crypto request goes
workload -> C7 -> C6 -> E3 service. C4, C5 and C7 spawn one task per
connection or request; tasks share nothing but the DNS cache.

## 2. Modules

| Module | Models | Lines of source mapped |
|--------|--------|------------------------|
| `EgressProxy` | C4, with C3 and C2 as the specification describes them | `egressproxy.rs` 26-126 |
| `IngressBridge` | C5 and `main`, with C2 as the specification describes it | `main.rs` 25-107 |
| `E3Client` | C6, with the certificate verifier as the specification describes the one of the source | `e3client/mod.rs` 13-213, `error.rs` 3-11 |
| `CryptoApi` | C7 in both builds, composed with `E3Client` by `INSTANCE` | `crypto/api.rs` 31-132 |
| `Configuration` | `configuration.rs` | `configuration.rs` 1-38 |
| `ConfigServer` | the routes and payloads of `config_server.rs`, and the exchange that uses them as section 8 describes it | `config_server.rs` 9-158 |
| `Tunnel` | the abstract specification of a spliced connection (sections 4.2 and 5), which `IngressBridge` and `EgressProxy` implement | |
| `MCEgressProxy`, `MCIngressBridge`, `MCE3Client`, `MCCryptoApi`, `MCConfiguration`, `MCConfigServer` | the finite sets the configurations substitute for the constants | |

Conventions common to the modules:

* One record per task, with a `pc` field naming the await the task is parked
  at. An action is the code between two awaits, with every state change that
  code makes; a `?` or an early return is a disjunct of the action that
  returns the task.
* The peers (customer, host forwarder, DNS forwarder, E3 service, workload)
  are the *environment*: their actions are in `Next` but carry no fairness.
* Data is abstracted to what the properties tell apart. A stream is a
  sequence of segments; a ClientHello is a record saying what `tls_parser`
  makes of it; a JSON value, an api-key or an IP address is a member of a
  small set. Logging and the formatting of errors are left out.
* `sent` fields of streams are history: they keep everything a peer wrote, so
  that "nothing lost, nothing reordered" can be stated as an invariant.
* A definition marked "Faulty variant" is not part of any specification: it
  is the form a plausible bug would give the definition that follows it, and
  is used to show that a property can tell the code from the bug (section 6).

### 2.1 EgressProxy

State: `listener` (the socket of `listen`: binding, listening, failed),
`cache` (C3), `resolved` (history of every `<<name, ip>>` the cache ever
held), and per connection `task` (pc, the locals `hostname`, `ip`, `data`, the
two halves of the splice, the result), `cust` (`external_stream`) and `host`
(`data_plane_stream`).

| Definition | Code |
|------------|------|
| `Bind`, `Accept` | `listen`: the bind of port 443 with its `?`, then the accept loop and `tokio::spawn` |
| `Incomplete` | `parse_tls_plaintext(..).finish()` on a record that is not all there: nom's `finish` panics |
| `SniEntries`, `Destination`, `GetHostname` | `get_hostname`: the two loops over extensions and SNI entries; `destination` starts empty and every UTF-8 entry overwrites it |
| `GetIp`, `Verdict` | `Cache::get_ip`, `choose`, and the arms that return `TlsParseError`, `NoHostnameFound`, `MissingIP` |
| `FirstRead`, `Taken`, `ReadClientHello` | `handle_egress_connection` from the read to the choice of the address: one action, there is no await in between |
| `GetListener` | `get_listener` (the dial of the host forwarder) |
| `ExternalRequest`, `WriteExternalRequest` | `ExternalRequest { ip, data }.to_bytes()` and `write_all` |
| `HalfClosed`, `PipeUp`, `PipeDown`, `HalvesDone` | `pipe_streams`: each half copies, and at the end of file shuts the write side of the other stream down |
| `Awaited`, `PipeReturns` | the await of `pipe_streams` and the return of the handler |
| `ClientWrite`, `ClientShutdown`, `HostWrite`, `HostShutdown`, `IoError`, `DnsResolve` | environment |

The one read of the handler may return any non-empty prefix of what the
customer has written so far (`FirstRead`), so the model covers a ClientHello
that arrives together with later records and one that arrives alone. Nine
shapes of first segment are checked (`MCEgressProxy`): truncated record,
bytes that are no TLS record, ServerHello, ClientHello without extensions, with malformed extensions, with
extensions but no SNI, with one SNI, with two SNI entries for different names,
and for a name nobody resolved.

### 2.2 IngressBridge

State: `main`, `server` (per server future of `main`: binding, listening,
failed), and per connection `bridge`, `client`, `enclave`.

| Definition | Code |
|------------|------|
| `Servers`, `Bind`, `Joined`, `MainReturns` | `main`: one awaited server without `network_egress`, `tokio::join!` of three with it |
| `Accepting`, `Accept` | `tcp_server`: bind, then the accept loop and spawn |
| `Dial` | `get_connection_to_guest_process` and the match on its result |
| `Shutdown` | `connection.shutdown().await.expect(..)`: returns or panics |
| `AtEnd`, `HalfClosed`, `Copy`, `PipeUp`, `PipeDown`, `HalvesDone` | `pipe_streams` |
| `Awaited`, `PipeReturns` | the await of `pipe_streams` and the end of the task |

Of the DNS and egress forwarders of the host, which are outside `src/`, only
"binds, then loops for ever" is modelled: that is all `main` depends on.

### 2.3 E3Client

One variable, `conn`: per call the pc, the request built (`path`, `key`,
`body`), the certificate of the `peer` that answered the dial, whether that
peer `received` the request, the `status` it answered with and the `reply` it
sent as the body, and the `result` the call returned.

| Definition | Code |
|------------|------|
| `get_tls_client_config`, `Verified` | the configuration the connector is built from (which roots, which verifier) and the question `tls_connector.connect` asks of it |
| `Certificates`, `E3CertVerifier` | `tls_verifier::E3CertVerifier`, which is not under `src/`: sections 4.6 and 9 say of the one of the source that it accepts every certificate |
| `TryInto`, `Payloads` | `E3Payload` and `try_into`: data nested under the identifiers of the context |
| `Start`, `Invoke` | `encrypt`, `decrypt`, `authenticate` up to the first await of `send` |
| `GetSocket`, `TlsConnect`, `Handshake` | `get_socket`, and the TLS handshake and the HTTP handshake of `get_conn`: one action per await, each with its `?` |
| `SendRequest` | `send_request` |
| `Refused`, `CheckStatus` | the status test at the end of `send`, and what `authenticate` makes of the response |
| `ReadBody`, `ParseResponse` | `parse_response`: the await of `to_bytes`, which ends with the body or with an error, and `from_slice` |
| `Answer` | the E3 service sends the head of its answer (environment) |

The channel to E3 runs through the host, so the peer of a dial is whoever
listens there: `GetSocket` picks its certificate from `Peers` (attested, good
by WebPKI only, or self-signed) and the TLS handshake goes on only if
`Verified`. Three steps of a call take the peer: the TLS handshake
(`TlsConnect`), the head of the answer (`Answer`) and its body (`ReadBody`).
They are `Service(c)`; the steps the client takes by itself are `Client(c)`.

### 2.4 CryptoApi

State: `server` (the HTTP server of `listen`: binding, serving or panicked),
`enclave` (whether the process was built with the feature `enclave`) and
`ctx` (what `CageContext::new` finds in the environment of the process),
both fixed when the process starts; `req` (per request), and `conn` of the
`E3Client` instance; request `r` owns call `r`, as each request builds its own
client (`api.rs` line 62).

| Definition | Code |
|------------|------|
| `Bind` | `listen`: `Server::bind`, which panics when the bind fails where the other listeners return an error |
| `Receive` | `listen`: hyper hands a request to `api` on its own task, with a `CryptoApi` of its own |
| `Routes`, `Crypto`, `Attestation`, `Route` | the match of `api`; the start of `build_request` |
| `Refusal` | `build_request`: the context first, then the api-key |
| `BodyError`, `ReadBody` | `body::to_bytes`, `serde_json::from_slice`, and the call of the client |
| `GetAttestationDoc` | `get_attestation_doc` in the enclave build, with its `unwrap` |
| `CallDone`, `Respond` | the end of `encrypt` and `decrypt` |
| `Call` | a step of the client or of the service on the request's call |

A request whose handler returns `Err` has the outcome `Aborted`: hyper closes
the connection and the workload gets no response.

### 2.5 Configuration

A string is a sequence of characters, and the three functions of the standard
library the code calls are operators that do what the library does:

| Definition | Code |
|------------|------|
| `get_cert_provisioner_host`, `get_e3_host` | the two functions, one body per build |
| `VarOr` | `std::env::var(name).unwrap_or(default)`: a variable that is not set, or that is no UTF-8, gives the default |
| `Split` | `str::split(',')`: empty fields are kept, and the empty string is one empty field |
| `DigitsOf`, `Push`, `ParseU16` | `str::parse::<u16>`: one leading `+` is allowed, the digits are folded from the left with checked arithmetic, anything else is an error |
| `GetEgressPorts` | `get_egress_ports`: the `panic!` on the first field that is no `u16` |
| `GetEgressAllowList` | `get_egress_allow_list` |

State: `enclave` and `env` (chosen in `Init`, then fixed) and what each of the
two functions returned. The properties compare the result with reference
definitions that do not share the recursion of `Split` or the fold of
`ParseU16`: a list by the positions of its commas (`Bounds`, `Field`), a
number by its last digit (`Value`).

### 2.6 ConfigServer

From the source: `ConfigServerPath` with `from_str` and `fmt`; the payload
structs as sets of records (`Option` as the value or `None`); `to_vec` (a unit
struct serializes to `null`, `None` to `null`, every other struct to the
object of its fields); `into_body`, with the implementation of
`GetCertTokenRequestDataPlane` that returns the empty body.

The config server, the provisioner and the data plane's client are not under
`src/`. They are modelled from sections 3 and 8 as the smallest exchange that
uses every route and payload: `GetCertToken`, `PostTrxLogs`, `GetCert` and
`Stray` (any client, any path) put requests on `wire`; `Serve` routes a
request by `from_str` of its path and answers a token; `Provision` answers the
provisioner payload; `Receive` reads a response with `from_slice` and keeps
the token, or stores the provisioner payload once. A message holds, beside
its body, the payload it was made of, as history for the properties.

### 2.7 Tunnel, and the two modules that implement it

`Tunnel` says what a spliced connection promises its two peers, without tasks,
halves or frames. Per connection and direction it has `sent`, `eof`,
`delivered`, `closed` and `failed`, and per connection `open`. Its steps:
`Open`, `Write`, `Shut`, `Deliver` (the reader is given the next bytes of the
writer, however many), `HalfClose` (only after the end of file of the writer,
when all of its bytes have been given), `Fail` (an error ends one direction
and leaves the other alone) and `Drop` (the task is over: both directions
closed). Its liveness property `Completes` says that the end of file of a
writer reaches its reader unless the direction fails or the connection is
dropped, whatever the other direction does.

`IngressBridge!BridgeIsATunnel` and `EgressProxy!BrokerIsATunnel` are
`Tunnel!Spec` under a refinement mapping (`INSTANCE Tunnel WITH ...`), and
`BridgeCompletes` and `BrokerCompletes` are `Tunnel!Completes` under the same
mapping, checked as properties of the runs `ingress` and `egress`:

| Tunnel | IngressBridge | EgressProxy |
|--------|---------------|-------------|
| `open[c]` | the task is dialing, shutting down or splicing | the task is running |
| `sent[c].up`, `eof[c].up` | `client[c].sent`, `.eof` | `cust[c].sent`, `.eof` |
| `delivered[c].up` | `enclave[c].rcvd` | `Forwarded(c)`: the data of the frame and of every write after it |
| `sent[c].down`, `delivered[c].down` | `enclave[c].sent`, `client[c].rcvd` | `host[c].sent`, `cust[c].rcvd` |
| `closed[c]` | the stream towards the reader was shut down, or the task is over | the channel is half-closed or dropped (`up`), the write side of the customer stream was shut down (`down`), or the task is over |
| `failed[c]` | the half is `Failed` | the half is `Failed` |

For the broker the first read is a stuttering step, and the write of the frame
is a `Deliver` of as many segments as the read returned.

### 2.8 What follows the specification rather than the source

`pipe_streams`, `Cache` and the socket abstraction are crates of the
repository that are not under `src/`, and so are the config server and the
provisioner. Their callers are modelled from the source; they themselves from
`spec.md`, and `PROJECT.json` marks those definitions `spec_modelled`.

* **Splicer** (section 4.2). The text says both "until one direction reaches
  EOF, then half-closes the opposite write side and returns" and "errors on
  either half ... do not cancel the other half until its own termination".
  The models take the second reading: each half copies until the end of file
  of its reader, shuts down the write side of the other stream, and
  `pipe_streams` returns when both halves have ended (`HalvesDone`). Under
  the first reading `NoTruncation` does not hold: the half that is still
  copying is cut off.
* **Cache** (section 4.3). A successful resolution overwrites the entry of a
  name; an entry is never empty. Eviction is left open by the specification
  and is not modelled; every property checked here also holds if entries
  disappear, except that `EgressAuthorized` is about the history `resolved`
  for exactly that reason.

## 3. Runs

Every run is a `.cfg` of this directory, run as
`tlc -workers 2 -config <cfg> <MC module>`. Times are for two workers.

| Run | Cfg | Spec | Result | Distinct states |
|-----|-----|------|--------|-----------------|
| `egress` | `EgressProxy.cfg` | `FairSpec` | holds | 101,376 |
| `egress_stale_ip` | `EgressProxyStaleIp.cfg` | `Spec` | `ChosenIpIsCached` violated | |
| `egress_no_sni` | `EgressProxyNoSni.cfg` | `Spec` | `NoSniIsNoHostnameFound` violated | |
| `ingress` | `IngressBridge.cfg` | `FairSpec` | holds | 20,854 |
| `ingress_startup` | `IngressBridgeStartup.cfg` | `FairSpec` | `BindFailureIsFatal` violated | |
| `e3_safety` | `E3ClientSafety.cfg` | `Spec` | holds | 436,921 |
| `e3_verifier` | `E3ClientVerifier.cfg` | `Spec` | `OnlyAnAttestedPeerIsServed` violated | |
| `crypto` | `CryptoApi.cfg` | `FairSpec` | holds | 3,565 |
| `crypto_missing_key` | `CryptoApiMissingKey.cfg` | `Spec` | `MissingApiKeyIs4xx` violated | |
| `crypto_no_context` | `CryptoApiNoContext.cfg` | `Spec` | `NoContextNoService` violated | |
| `configuration` | `Configuration.cfg` | `Spec` | holds | 91,392 |
| `config_server` | `ConfigServer.cfg` | `Spec` | holds | 113,004 |

Each component has one passing run, which checks its invariants, its
refinement and its liveness together; `egress` is the longest, about two
minutes.

### 3.1 Properties that hold

**egress** (one task, all nine first segments, two names, two addresses, up
to two later segments up and one down, the DNS forwarder rewriting the cache
at any step, weak fairness of the handler steps).

* `FrameFirst`: on every channel to the host forwarder the `ExternalRequest`
  frame is the first write and the only frame (section 8, invariant 1).
* `EgressAuthorized`: the host forwarder is dialled only for a connection
  whose ClientHello names a host that was resolved, and the address in the
  frame was at some time an answer for *that* name. It relates the customer's
  bytes, the cache's history and the frame, and is stated with `SniOf`, a
  definition of the requested name that does not share the fold of
  `get_hostname` (last UTF-8 entry of the SNI extensions).
* `TunnelInOrder`: what the host forwarder holds, frame data included, is
  exactly the prefix of the customer's bytes the broker has read, however
  many segments the first read returned; and the same downwards.
* `NoTruncation`: when the task has ended after a splice in which no half
  failed, everything either peer wrote before closing has arrived.
* `BrokerIsATunnel`: every step of the broker is a step of `Tunnel` or leaves
  the tunnel as it is (section 2.7). Beyond the invariants this says that
  what was forwarded never changes or shrinks while the task runs, that the
  bytes of the first read go up once (a handler that peeked instead of
  reading would forward them again), that the channel is half-closed only at
  the customer's end of file with everything forwarded, and that nothing is
  forwarded after the handler has returned.
* `BrokerCompletes`: `Tunnel!Completes` under the same mapping. The end of
  file of the customer reaches the host forwarder, and that of the host
  forwarder the customer, unless that half fails or the task ends; neither
  waits for the other direction. A customer that shuts its write side down
  and waits for the answer gets it from a remote host that answers at the
  end of the request.
* `HandlerReturns`: a task whose customer has written or closed gets past the
  handshake; a task whose two peers have both closed returns, whatever errors
  the halves met.
* `TypeOK`, which includes that a task exists only behind a bound listener.

**ingress** (`main` with three servers, one bridge task, two payloads of which
one is no TLS at all, up to two segments up and one down).

* `BridgeOblivious`: the enclave has received exactly what the splice has
  read from the customer, in order and once, and the reverse (section 8,
  invariant 5).
* `NoTruncation`: as for the egress broker; and the customer's connection is
  closed only when the task is over or the enclave has closed its direction.
* `BridgeIsATunnel`: every step of `main`, `tcp_server` and the splice is a
  step of `Tunnel` or leaves the tunnel as it is.
* `BridgeCompletes`: `Tunnel!Completes` for the bridge: a direction is
  half-closed at the end of file of its writer while the other direction is
  still open.
* `BridgeReturns`: a failed dial always closes the customer's connection (by
  the shutdown or by the unwinding of the `expect`); a splice whose peers have
  both closed returns.
* `TypeOK`, which includes that a task exists only behind a bound listener of
  a process that has not exited.

**e3_safety** (two concurrent calls, every operation, two keys, two answers,
a peer with each of the three kinds of certificate, every failure of connect,
handshakes, exchange and parse).

* `OkOnlyOnSuccess`: a call returns `Ok` only if the service received its
  request and answered 2xx, with (for encrypt and decrypt) the very reply
  given on this connection; a refused call is `FailedRequest`, whatever its
  path. The second half is the subject of a finding (3.2).
* `TypeOK` includes that every body names one tenant: `team_uuid` and
  `app_uuid` of one and the same context.

**crypto** (a server that binds or panics, requests served one after the
other on one slot, both builds, five routes, one of two keys or none, two JSON
bodies or malformed bytes, one of two tenant contexts or none, a peer of
every kind, two answers of the service that are none of the bodies, weak
fairness of the steps of facade and client).

* `OnlyKeyedRequestsReachE3`: a connection to the service is opened only for
  a keyed encrypt or decrypt request of a process with a context, and what
  the client sends is the request of the workload: path, key verbatim, body as
  data, under the identifiers of the process (section 8, invariant 4).
* `ResponseIsTheAnswer`: a 200 to encrypt or decrypt carries what the service
  answered to this request under 2xx, and nothing else.
* `RequestIsAnswered`: a request that is under way gets its response or the
  close of its connection, or comes to wait for the peer of its call (for
  the TLS handshake, the head of the answer or its body); it stops nowhere
  else. In the enclave build this includes the request whose task panics on
  the `unwrap` of `get_attestation_doc`: its outcome is the close of the
  connection.
* `TypeOK`, with: a request is served only by a server whose bind has
  succeeded.

**configuration** (every string of up to three of the characters `4 3 0 , +
x` and eleven strings at the edges of `u16` as `EGRESS_PORTS`; every string
of up to three of `a`, `,` and space as `EGRESS_ALLOW_LIST`; each variable
also not set, and set to bytes that are no UTF-8; both builds).

* `PortsAreTheListedNumbers`: `get_egress_ports` returns a vector exactly
  when every field between the commas is the numeral of a 16-bit number, and
  the vector holds those numbers in the order of the list; otherwise the
  process panics. So `443,8443` is `[443, 8443]`, and `""`, `443,`, `65536`,
  `-1` and ` 443` are panics (section 8, "Boundary"); `+443` and `065535` are
  ports, and a variable that is no UTF-8 is read as `443`.
* `AllowListIsTheListedNames`: `get_egress_allow_list` returns the fields
  between the commas as they stand. It is the subject of a finding (3.2).
* `TypeOK`: a port fits in sixteen bits, and neither list is ever empty.

**config_server** (one string, two transaction contexts in batches of up to
two, five paths of which two are routes, at most two messages in flight in
each direction).

* `RoutedAsRequested`: a request the data plane made for a route is handled
  as that route, and a path is refused as `InvalidPath` exactly when `fmt`
  writes it for no route: `from_str` and `fmt`, two tables written apart,
  agree.
* `TypeOK`.

### 3.2 Properties that fail: findings

Each of these runs checks one statement of `spec.md` against what the code
does. TLC's counterexample is the scenario.

| Run | Statement | What the code does |
|-----|-----------|--------------------|
| `egress_stale_ip` | Section 8, invariant 2, read as a state invariant: the address of a spliced connection is in the cached answer set | `egressproxy.rs` 101-118: the address is chosen before the dial, the frame and the splice; the DNS forwarder overwrites the entry in between. Holds only of the answer set at the time of the choice (`EgressAuthorized`). A gap of the specification. |
| `egress_no_sni` | Section 4.4, scenario 4: no SNI is `NoHostnameFound` | `egressproxy.rs` 55-69: `get_hostname` returns `Some("")` when the extensions hold no SNI entry; the empty name is looked up and the result is `MissingIP`. |
| `ingress_startup` | Section 7: a bind failure at startup is fatal | `main.rs` 34-38: `tokio::join!` of three servers returns only when all have; if one fails to bind while another listens, the process runs on without it. |
| `e3_verifier` | Section 4.6: the verifier MUST accept only a certificate bound to an attested enclave, and MUST NOT fall back to WebPKI | `e3client/mod.rs` 26-27 installs `tls_verifier::E3CertVerifier` in place of WebPKI validation, and sections 4.6 and 9 say the one of the source accepts every certificate: whoever answers on the crypto port, which is reached through the host, completes the handshake and receives the api-key, the identifiers of the tenant and the data. The verifier is not under `src/`; the model has it as the specification describes it. |
| `crypto_missing_key` | Sections 4.7, 7: missing api-key is a 4xx saying `MissingApiKey` | `api.rs` 93-96 and 74: the error is returned to hyper with `?`; no response is built and the connection is closed. |
| `crypto_no_context` | Sections 4.7, 7: without a tenant context the facade refuses to start | `api.rs` 92: the context is looked up per request in `build_request`; the process starts and serves 404 and `/attestation-doc`. |

Three findings rest on properties that hold. `HandlerReturns` and
`EgressAuthorized` hold with a panic among the outcomes of the handshake:
`get_hostname` calls `finish()` on the result of `parse_tls_plaintext`
(`egressproxy.rs` 42-44), a streaming parser that answers `Incomplete` to a
record that is not all there, and nom's `finish` panics on `Incomplete`. A
client that closes before it writes (the read returns 0 bytes), or whose
ClientHello arrives split or is longer than the 4096-byte buffer, therefore
panics its task. Sections 4.4 and 8 say such a connection is rejected with
`TlsParseError`. The task ends without a dial and the listener goes on, so
what differs is how: an unwinding task and a panic message where the
handler would return an error.

`OkOnlyOnSuccess` holds, and its second half says that every call the
service refused is `FailedRequest`: `send` turns every non-2xx status into
the error before its callers see the response (`e3client/mod.rs` 130-132).
So `authenticate`, which returns `Ok(status.is_success())` of what `send` gave
it, returns `Ok(true)` or an error and never `Ok(false)`, where section 4.6
says that the other statuses map to `false`.

`AllowListIsTheListedNames` and
`TypeOK` of `configuration` show that `get_egress_allow_list` never returns
the empty list: `configuration.rs` 33-37 splits the empty string, and
`str::split` gives one empty field, so an `EGRESS_ALLOW_LIST` that is empty or
not set is the list of the one name `""`. Section 6 says "default empty. Empty
means no egress permitted". Nothing under `src/` reads the list (the broker
authorises by the DNS cache alone), so whether the one empty name permits
anything is decided outside `src/`.

## 4. Bounds and why they are enough

| Bound | Value | Why |
|-------|-------|-----|
| `Conns` (egress, ingress) | 1 | tasks share no state but the cache, whose writer is the DNS forwarder and not another task; the properties are per connection. The slot is reused: `Accept` takes it again after the task has ended, so a second connection on a stale slot is covered |
| `Calls` | 2 | two calls in flight at once, each on its own connection |
| `Reqs` | 1 | every request has a `CryptoApi`, a client and a connection of its own (`api.rs` 62) and requests share nothing. The slot is reused: `Receive` takes it again after the request is over, so a request that follows another is covered |
| `MaxUp` | 2 | with the first segment that is up to three segments: the first read can return one, two or three, and the splice copies the rest, so both "all in the frame" and "frame then copies" happen |
| `MaxDown` | 1 | one segment down is enough to tell a delivered answer from a truncated one |
| `Hostnames`, `IPs` | 2 and 2 | two names tell "an answer for this name" from "an answer for some name"; two addresses make the overwrite of an entry visible |
| `Hellos` | 9 shapes | one per path through `get_hostname` and the arms after it |
| `ApiKeys` | 2 | two keys tell "the key of this request" from "some key" |
| `Datas`, `Answers` | 2 and 2 (1 and 2 in `e3_safety`) | two bodies tell "the body of this request" from "some body"; answers that are no body tell the answer of the service from an echo |
| `Peers` | all three kinds | one certificate the verifier must accept, one that only WebPKI would accept and one that nothing should |
| `Contexts` | 1 in `e3_safety`, 2 in `crypto`; `team_uuid` and `app_uuid` always differ | the identifiers must not be exchanged, and the body must name the tenant of the process and not some tenant |
| `Statuses` | 2xx, 4xx, 5xx | the code only tests `is_success()` |
| `Builds` | both | the host names, the routes and the attestation document differ by build |
| `PortValues` | 259 strings of up to 3 characters, 11 longer ones | three characters hold every shape of a list (`,`, `4,`, `,4`, `4,3`, `,,`) and of a token (`+`, `+4`, `4+`, `x`); the longer ones are the values around 65535 and the examples of section 8 |
| `NameValues` | 40 strings of up to 3 characters | empty, one name, two names, empty fields at either end, names with spaces |
| `MaxInFlight` | 2 | two requests on the wire let the server take them in either order |
| `MaxLogs`, `MaxSecrets` | 2 and 1 | an empty batch, and batches that differ in order; secrets absent, empty and present |

One egress or ingress task is checked, not two: with the refinement and the
liveness property in the same run a second task costs more than it shows,
since tasks share only the cache and the cache is written by the DNS
forwarder at every step of the one-task model.

No counter grows without bound. `ConfigServer` keeps only the request served
last, and at most `MaxInFlight` messages each way.

## 5. Fairness

The liveness runs use `FairSpec`: weak fairness on the steps of the code, none
on the environment.

* `WF(Handler(c))`, `WF(Task(c))`, `WF(Facade(r))`, `WF(Client(c))`: the tokio
  runtime polls a spawned task whose awaited operation is ready; a step of
  the code that stays enabled is taken. Weak fairness is enough because no
  step of a task is disabled by another task.
* `WF(Bind(s))`, `WF(MainReturns)`: a bind returns, and `main` runs.
* `BridgeCompletes` and `BrokerCompletes` need nothing more: the half that
  copies a direction is a step of the task, and a half that has read the end
  of file shuts the other stream down in the same step.
* No fairness on a peer writing, closing or answering. The code has no
  timeout (section 5 says so), so nothing can be promised about a silent
  peer, and the liveness properties are stated from the point at which the
  peers have done their part. For a call of the E3 client this covers the
  three steps that take the peer (`Service(c)`: the TLS handshake, the head
  of the answer, its body); the dial of `get_socket` is a step of the
  client, as a connect returns.

`Configuration` and `ConfigServer` have no liveness property and are checked
under `Spec`.

`IngressBridge.cfg` and `IngressBridgeStartup.cfg` say `CHECK_DEADLOCK FALSE`
because the process may stop: when every server has failed to bind, `main`
returns. The three configurations of `CryptoApi` say it because `listen`
panics when its bind fails, and nothing of the facade runs after that; that
no request is left without its next step is what `RequestIsAnswered` checks.
`Configuration.cfg` says it because the model ends when both lists have been
read. The other models never stop (a slot can always be accepted again, a
call can always be made) and are checked for deadlock.

## 6. Sensitivity of the properties

For every property of a passing run `PROJECT.json` ("mutants") names a faulty
variant of a modelled definition under which TLC finds the property violated
with the run's own configuration. They document what each property is able
to detect:

| Property | Faulty variant | The bug it stands for |
|----------|----------------|-----------------------|
| `EgressProxy!TypeOK` | `GetIpAnyName` | the cache lookup ignores its key |
| `FrameFirst` | `ExternalRequestUnframed` | the first bytes go out without the frame |
| `EgressAuthorized` | `DestinationFirstWins` | the first SNI entry is kept, not the last |
| `TunnelInOrder` | `ExternalRequestHelloOnly` | only the parsed record is framed, the rest of the read is lost |
| `NoTruncation` (both modules) | `AwaitedNot` | the splice is started and not awaited: the task returns while a half still copies |
| `HandlerReturns` | `FirstReadToEnd` | the handler reads to the end of file where the one read belongs |
| `BrokerIsATunnel` | `TakenPeeked` | the first bytes are peeked and stay in the stream, so the splice forwards them again |
| `BrokerCompletes`, `BridgeCompletes` | `HalfClosedNot` | a half at the end of file leaves the write side of the other stream open until the streams are dropped |
| `BridgeReturns` | `HalvesDoneClean` | a failed half is never joined |
| `BridgeIsATunnel` | `AtEndEarly` | a half closes at the end of file of its peer with bytes still unread |
| `IngressBridge!TypeOK` | `JoinedAny` | `main` returns as soon as one server has |
| `BridgeOblivious` | `NextOfStale` | a segment is copied twice |
| `E3Client!TypeOK` | `TryIntoSwapped` | `team_uuid` and `app_uuid` exchanged |
| `OkOnlyOnSuccess`, `ResponseIsTheAnswer` | `RefusedNever` | the status of the answer is not tested |
| `CryptoApi!TypeOK` | `AbortedAsResponse` | an error of the service is answered as a response |
| `OnlyKeyedRequestsReachE3` | `RefusalKeyOptional` | a request without api-key goes on |
| `RequestIsAnswered` | `CallDoneOk` | the facade goes on only after a call that succeeded, so a failed call leaves its request without an outcome |
| `Configuration!TypeOK` | `PushUnbounded` | the port is parsed into a wider integer |
| `PortsAreTheListedNumbers` | `PushWrapping` | the arithmetic of the parse wraps at sixteen bits: 65536 is port 0 |
| `AllowListIsTheListedNames` | `GetEgressAllowListTrimmed` | the names are stripped of their spaces |
| `ConfigServer!TypeOK` | `from_str_unnamed` | the error does not name the path |
| `RoutedAsRequested` | `fmt_swapped` | the two paths exchanged in `Display` |

## 7. What is not modelled, and why

* **Bytes.** TLS records, the wire format of `ExternalRequest`, JSON text and
  HTTP framing are abstracted. `tls_parser` is a dependency; what is modelled
  is what `get_hostname` does with each kind of result. Which bytes make
  `parse_tls_extensions` fail is the library's matter; the model has the
  error path the code has. The strings of
  `Configuration` are the exception: there the properties are about
  characters.
* **The inside of the certificate verifier** of the E3 connection
  (`tls_verifier`, outside `src/`): certificate chains, attestation documents
  and the trust store are one of three kinds of certificate, and the
  verifier is the predicate sections 4.6 and 9 say the source has: it accepts
  every certificate.
* **The DNS forwarder, the host egress forwarder, the attestation
  primitive**: outside `src/`; they are environment actions (`DnsResolve`,
  `HostWrite`, the outcomes of `GetAttestationDoc`).
* **The config server and the provisioner**: outside `src/`; `ConfigServer`
  models them from the specification, as far as the routes and payloads of
  `config_server.rs` are concerned. `TrxContext` is opaque.
* **The use of the configuration.** No code under `src/` calls
  `get_egress_ports` or `get_egress_allow_list`; the broker listens on 443
  and authorises by the cache. `Configuration` therefore stands alone, and
  `EgressProxy` has no allow list.
* **Buffers and backpressure of the splicer**: segments are copied one at a
  time with no buffer between read and write. `pipe_streams` is not under
  `src/` and section 4.2 gives it no buffer size or flush rule, so a model
  with a bounded buffer would be of an invented splicer, not of this one.
* **The task that drives the hyper connection** in `send`: it only logs.
* **The `expect` on the request builder** in `send` (`mod.rs` 114-119): it
  panics on an api-key that is no legal header value. The one caller under
  `src/`, the facade, passes the `HeaderValue` hyper parsed from the request,
  for which the builder cannot fail; the keys of the model are legal ones.
* **The error of `serde_json::to_vec`** in `E3Payload::try_into` (`mod.rs`
  211) and at the end of `encrypt` and `decrypt` (`api.rs` 109, 115): the
  value serialized is a `serde_json::Value`, whose keys are strings, and
  `to_vec` of such a value does not fail. A model with that error would have
  an outcome the program cannot have.
* **Whether the data plane checks the tenant context before `listen`**: its
  `main` is not under `src/`. `listen` and `api` do not, and `ctx` of
  `CryptoApi` ranges over "no context" for that reason.
* **The end of the HTTP server** of the facade: `listen` discards what
  `serve` returns and then returns `Ok`. When hyper ends a server that has
  bound is decided inside hyper; the model's server, once it serves, serves.
* **`E3Error::FailedRequest`**: `mod.rs` line 131 returns it, `error.rs` as it
  stands declares no such variant. The model follows `mod.rs`.
* **The accessors `cert` and `key_pair`** of `GetCertResponseDataPlane`:
  each returns a copy of one field, and nothing under `src/` calls them.
* **The number of tasks**: a constant; nothing in the code bounds it, and the
  rate at which a failing `accept` is retried is outside the model.
* **Two egress or ingress tasks at once**: see section 4.

## 8. Plan

Done: seven modules, twelve runs; every source file under `src/` has a module;
`Tunnel` has a failure step and a liveness property, which both
implementations keep; the TLS configuration of the E3 client is modelled,
with the verifier as the source is said to have it; every listener under
`src/` has its bind, with the way it fails.

Considered and left out, with the reason:

1. `EgressPolicy`, an abstract specification of the egress decision (allowed
   iff the name was resolved, to one of its addresses) that `EgressProxy`
   would refine: its one step has the guard `EgressAuthorized` already states
   as an invariant over the history variable `resolved`, so the refinement
   would check the same thing twice.
2. Two requests of the facade at once: requests share no state (each has its
   own `CryptoApi`, client and connection), so a second slot adds states and
   no behaviour; the run spends its states on two keys, two tenants and every
   kind of peer instead.
3. Two egress or ingress tasks at once: see section 4.
4. A property of the bodies `into_body` writes (a GET without a body, a POST
   whose body reads back as its payload): the methods and the reading side
   are not under `src/`, so it would compare the model with itself.
