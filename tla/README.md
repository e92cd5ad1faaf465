# A TLA+ verification of nport

nport forwards HTTP hostnames and TCP ports of a public server
(`nport-server`) to a machine behind a firewall (`np`), over one websocket per
client. This directory models the two programs and the protocol between them,
checks the models with TLC on small instances, and proves theorems about them
with TLAPS. Paths below are relative to `src/`.

    tlc -workers 2 -config MCRegistry.cfg MCRegistry     # one run
    tlapm RegistryProofs.tla                             # the proofs,
    tlapm HttpForwardProofs.tla                          # one call a module:
    tlapm PortTunnelProofs.tla                           # after tlapm Pipe.tla
    tlapm NpRunProofs.tla
    tlapm CertStoreProofs.tla
    tlapm NamingProofs.tla

`PROJECT.json` lists the runs, the source lines behind every definition, the
hazards of the code, the findings, and for every property a mutation of the
model that breaks it.

## 1. Inventory

### The parts and how they interact

    users ──HTTP──▶ forward ─┐                              ┌─▶ local service
                             ├─ Client ═ websocket ═ np ────┤   (HTTP or TCP)
    users ──TCP──▶ port_server                              └─▶
                             │
                        Registry, Stats

| Part | Code | State | Operations |
|---|---|---|---|
| Registry | `nport-server/src/server/registry.rs` | `clients`, `claimed_http_hostnames`; `hostnames` of each `Client`; one `RwLock` each | `register`, `deregister`, `claim_http_hostname`, `release_http_hostname`, `get_by_http_hostname` |
| Websocket task | `server/handlers/websockets.rs` `handle_socket`, `server/msghandlers/` | position in the loop, the `Client` it keeps alive | welcome, receive and dispatch, deregister |
| Server's `Client` | `server/client.rs` | `http_requests`, `connect_requests`, `port_writers`, `ports`, the two halves of the websocket | register, answer and forward a request; register and remove a writer |
| HTTP forwarding | `websockets.rs` `forward`, `enqueue_request`, `forward_request` | one task per request, a oneshot | look up, register, send, wait with a timeout |
| Port server | `server/port_server.rs` | one accepting task per port, one task per connection, a channel of 4 messages each | accept, ask np, spawn, forward both ways, close |
| np's `Client` | `np/src/client.rs`, `np/src/client/port.rs` | forwardings, `port_writers`, a channel of 1 message per connection | connect, register, forward |
| np's loop | `np/src/lib.rs`, `np/src/dispatch/` | connection, retry counter | connect, open tunnels, receive and dispatch **one message at a time** |
| Statistics | `server/stats.rs` | three gauges and a total | inc, dec |
| Hostnames and addresses | `server/hostname.rs`, `server/msghandlers/common.rs`, `libnp/src/lib.rs`, `server/config.rs`, `server/implementation.rs` | the configuration; the keys of the tables above | validate, normalise, convert, route |
| Certificate store | `nport-server/src/cert/` | files, an in-memory map, a TXT record at Cloudflare | load, resolve, and every hour: order, prove, finalise, save |
| Shell | `main.rs`, `settings.rs`, templates, telemetry | configuration | straight-line set-up, I/O |

The server is many tokio tasks that share `Client` objects through `Arc` and
`Weak`: when the last `Arc` goes, the websocket is closed, the oneshot senders
and channel senders kept in the `Client` are dropped, and the `Port` in it fires
the closer of the accepting task. Who holds a strong reference, and for how
long, is therefore control flow, and the models keep track of it.

### What is hard here

- *Tasks interleave at every await.* The registry's tables have a lock each, so
  every operation on it takes several steps; scans hold one lock across others.
- *Locks held across waits.* `port_message`, at both ends, waits for room in a
  bounded channel while it holds the lock the channel's reader needs to end.
- *Messages cross.* Data and a close, data and the set-up of its connection, an
  `HttpRequest` and the `HttpOpened` it follows, a response and its timeout.
- *The websocket breaks anywhere*, and only a part of what was in flight
  arrives; sends fail half way through a handler.
- *Lifetimes.* A task that waits with a strong reference keeps alive the very
  `Client` whose drop would end its wait.
- *One loop.* A local service that never answers stops np's only loop; the
  websocket's buffers fill up and the server's sends wait.
- *Names in many spellings.* A name passes through settings, a 32-bit protocol,
  the registry, a router and np's tables; each compares it in its own form.
- *Certificates outlive the process.* Memory, files and the DNS change one after
  the other, each step may fail, and the clock goes on.

The list of hazards in `PROJECT.json` gives each with its line and the
properties that watch it; seven have a note instead that says why there is none.

### What makes each part correct

- Registry: a hostname has at most one owner; claims are exactly what connected
  clients hold; what a client was told holds until its next request; a lookup
  returns an owner the hostname really had; a client that leaves is removed.
- TCP tunnels: bytes arrive in order and completely, on their own connection;
  closing one end closes the other; a client's port and tasks end with it; one
  connection's end does not disturb the session.
- HTTP forwarding: the status a user gets is true of its own request; nothing is
  executed twice; late answers do no harm; every request gets an answer.
- np's loop: every tunnel is restored after a reconnection, what the server
  forwards np serves, np does not stay without a connection, retries are bounded.
- Hostnames and addresses: what np was told is open leads a user's request or
  connection back to the local address of the settings.
- Certificates: as long as some round of the updater succeeds, HTTPS is served
  with a certificate that is valid for the name; a start finds what memory had.

## 2. Plan

1. `HostnameOwnership` (abstract), `Registry` (implements it), `RegistryProofs`
   - **done**.
2. `Wire`, `PortServer`, `NpPort`, composed in `PortTunnel`; `Pipe` and
   `PortTunnelProofs` - **done**.
3. `HttpForward`, `HttpForwardProofs` - **done**.
4. `NpRun`: connect, retries and their reset, the loop over the tunnels, state
   that survives a reconnection; `NpRunProofs` - **done**.
5. `Naming`: validation, normalisation, routing and the conversions of
   addresses, from np's settings to a user and back; `NamingProofs` - **done**.
6. `CertStore`: configuration, load, request, save, renew and resolve, with
   crashes, errors and time; `CertStoreProofs` - **done**.
7. Left: every safety invariant of a passing run is proved but `RedirectsLand`,
   which is about operators only. What could be added are step properties of
   `NpRun` and `CertStore` (what a reconnection or a crash may never lose) and an
   abstract tunnel, two FIFO pipes, for `PortTunnel` to implement; the invariant
   of `PortTunnelProofs` is made for it.

## 3. The modules

### HostnameOwnership and Registry

`HostnameOwnership` is what the registry promises: a table from hostnames to
owners in which a step gives a free hostname to a client that has not gone,
takes one back from its owner, or removes everything of a client at once.

`Registry` has one step for each acquisition of a lock. The table below gives
the correspondence; `PROJECT.json` has the lines.

| Action | Code |
|---|---|
| `Register`, `Welcome`, `WelcomeFails` | start of `handle_socket`; after a failed welcome the client stays registered |
| `HttpOpenClaim`, `ClaimAdd`, `Opened`, `HttpOpenInUse` | `http::open` and the two halves of `claim_http_hostname` |
| `HttpCloseRemove`, `CloseUnclaim`, `Closed`, `HttpCloseNotRegistered` | `http::close` and the two halves of `release_http_hostname` |
| `Disconnect`, `DeregisterRemove`, `DeregisterUnclaim`, `Disconnected` | end of `handle_socket`, `deregister` |
| `StartLookup`, `VisitClient`, `FinishMiss` | `get_by_http_hostname` |

`DeregisterUnclaim` runs with the write lock of `clients` still held, as in the
code, and lookups hold its read lock for their scan. A reconnecting np is
another member of `Clients`, because the server makes it another `Client`.
`Opened` and `Closed` end with a send that may fail, which ends the session with
the registry already changed. `seen` is a history variable: the owners a
hostname had while a lookup scanned.

### Wire, PortServer, NpPort and PortTunnel

`Wire` is the websocket: a bounded FIFO per direction. `PortServer` and `NpPort`
model the two ends for one client and one forwarded port and any number of
connections; `PortTunnel` composes them, adds the break of the websocket, and
states the properties.

A connection carries chunks numbered 1, 2, ...; 0 in a channel is the `Close`
message. `stask` and `ntask` are the tasks of a connection; their `select!`
branches are actions of their own (`TaskRecv`, `TaskRead`, `TaskReadFails`,
`TaskTimeout`), and so is every send, which may wait. `handler = "blocked"` and
`npLoop = "blocked"` are `port_message` waiting for room under its lock.
`ClientAlive` is "`Weak::upgrade` succeeds": it holds while `handle_socket` runs,
while the accepting task is between accept and the registration of a writer, or
while a connection's task sends or removes its writer. When a server step makes
it false the websocket closes (`ServerFrame`).

Either end of a connection may shut down its sending direction and read on
(`UserShutdown`, `LocalShutdown`), or close (`UserClose`, `LocalClose`); a user's
close may be seen as a reset. `UserEnds` and `LocalEnds` say which of these an
instance has. The code does not tell them apart: the end of what one side sends
ends the connection's task (`port_server.rs:124`, `client/port.rs:68`).

### HttpForward

The life of a request: `new`, `found` (the lookup returned a client, now held),
`sending` (registered in `http_requests`), `waiting` (for the oneshot, with the
timeout running), `replied` or `aborted` (hyper drops the task of a user who
left). np takes one message at a time, and `fetched` records what became of a
request there. The lookup is one step, which `LookupLinearizable` of `Registry`
justifies. Headers, bodies and the seven kinds of error are not told apart.

### NpRun

np's `run`: `connecting`, `opening` (the loop over the configured tunnels),
`reading`, `dispatching`, and `exited` when `connect_failure` gives up. A session
is one websocket and, at the server, one `Client`; `server` and `owner` are what
`Registry` and `PortServer` do with it, in fewer steps: a name has one owner. The
end of a session frees its hostnames (`ServerEnds`); a port is free when the last
task lets the `Client` go (`PortReleased`), which `tunnel_leak` shows may be
never. All tunnels have fixed remote names.

`Receive` is the dispatch of an answer to an open, which only changes tables.
The dispatch of an `HttpRequest` or of a connection's data waits without a
timeout (`dispatch/http.rs:105`, `client.rs:255`), in the loop that would also
notice a broken websocket: `Dispatch` starts such a wait, and nothing makes
`Dispatched` end it. `RecvFails` is `recv` without a working connection,
`RecvInvalid` `recv` of a message that is not binary or does not decode, with
the old websocket still up.

What np does *not* reset is the point of the module. `Connect` replaces the
connection only; `registered` (the forwardings) survives unless
`connect_failure` ran, and `streams` (tasks of old connections) always do, since
a task ends by its own socket or by a failing send (`client/port.rs:64`), not by
a new session. `OpenFails` is the `continue` of `lib.rs:156`, which goes on with
the next tunnel and no connection, and from there to `reading`.

### CertStore

A certificate is the number of days it has left. `certs` is the map in memory,
`disk` the files of `CERTS_DIR` (absent, a `StoredCert`, or text that does not
parse), `txt` the values of `_acme-challenge.<domain>`, `updater` and `req` the
position of the updater's task and of the request it is in.

| Action | Code |
|---|---|
| `Start`, `StartFails` | `Config::server` with `production_check`, `cert_store` and `Store::load`; `run_https` and its `expect` |
| `Wake`, `Visit` | the hourly `update`, `should_renew`, and `renew` at each of the two domains |
| `Order`, `UpdateRecord`, `Challenge`, `Finalize` | `Generator::request`; `UpdateRecord` is Cloudflare's GET, PUT and POST |
| `RequestFails`, `UpdateRecordFails` | every `?` on that way; what Cloudflare did without answering stays |
| `Save`, `Saved`, `SaveFails` | `store_cert`: `fs::write` empties the file first |
| `Crash`, `Repair`, `Tick` | the process, the operator, a day |

A record whose PUT was carried out but not answered gets a second value by the
POST, and which one the next PUT goes to is Cloudflare's choice. `Repair` is what
an operator has to do about a file that does not parse or a missing directory:
no later start succeeds without it. A day passes (`Tick`) between two rounds, or
inside one that waits for the CA or Cloudflare, whose calls have no timeout
(`cloudflare.rs:178`): a round may take days, with the first domain renewed and
the second not. `lastOk` (days since the last round that ended well began), `age`
(days since the present one began) and `unsaved` (writes that failed) are
history variables.

### Naming

`Naming` follows a name and an address on their way: np's settings (`Parse`), the
message (`Addr`, 32-bit ports), the server's checks (`ForwardingError`,
`PortError`), the key the server keeps and the one np keeps (`Opened`), and the
way back of a user's request (`Handler`, `Forwarded`, `HttpTarget`) or connection
(`ConnectKey`). The way back changes no state, so it is a set of operators the
properties apply in every state. A name is the sequence of its labels, so that
stripping a suffix is what it is in the code, and `Lower` is a table. What is
assumed of the settings is named in the module: `ServersAssumption` (`DOMAIN` is
written in lower case, which `Hostnames::new` leaves to the operator),
`GeneratedAssumption` (a generated name is one valid label, and not the API's
subdomain, with which nothing compares it), `PortsAssumption` (the system gives
out unprivileged ports), `LabelsAssumption` and `TunnelsAssumption`. The
registry's tables and np's sessions are those of the other modules, in one step.

## 4. The runs

### Runs that pass

| Run | Shows |
|---|---|
| `registry` | Two clients that claim a hostname and a scan interleave at every lock: ownership is exclusive, the claims and the counter of connections are exact, replies are true, lookups are linearizable, the two tables behave as the atomic one of `HostnameOwnership`, and a client that leaves its loop is deregistered whatever scans and other deregistrations do. |
| `tunnel` | One connection with more data than its channels hold, half-closes, closes and resets, a break at any moment: order and completeness; the port of a released `Client` closes; under `Flowing` (neither loop waits for ever in `port_message`, no task keeps the websocket of an ended session) a broken websocket ends the session, and the task of a connection whose user sends no more ends. |
| `tunnel_two` | Two connections on one websocket, data both ways and everything of capacity 1: neither receives the other's data, and under `Flowing` what a user sends arrives. |
| `http` | Three requests in a websocket of one message, timeouts, aborts and a break: statuses are true, nothing is executed twice, late responses do no harm, and every request is answered if np's local requests end and the two loops do not both wait for room in the websocket. |
| `nprun` | An HTTP and a TCP tunnel, two sessions, failing connects, breaks and invalid messages at any moment, dispatches that may not end, streams left from the old session: retries are bounded, and what the server forwards np serves. If np's dispatches end (`DispatchEnds`), np without a connection connects again or gives up, and a session set up after the server let go of all names gets every tunnel, whatever np still remembers and old streams still send. |
| `certstore` | Six configurations, crashes and errors at every step, a clock that also runs while a call hangs: the token of a request stands until the CA has looked, HTTPS is served with valid certificates so long as one round in the margin of renewal ended well, a start finds what memory had, `run_https` has its store, and renewal recovers from every failure. |
| `naming` | Nine configurations of the server and every pair out of thirty tunnels: a registered name or port works, whatever its spelling in the settings, and the site's redirect to HTTPS ends at the site. |

### Runs that find a disagreement

Each checks one statement of a comment, a message or a test of the repository,
which the code does not keep.

| Run | Statement | What happens |
|---|---|---|
| `tunnel_leak` | "Dropping the client should close the remote TCP port" (`tests/integration.rs:383`) | The websocket breaks between `PortConnect` and `PortConnected`. The accepting task holds the `Client` in which the sender it waits for is kept (`port_server.rs:71`). |
| `tunnel_session` | "Ensure we're connected again" (`tests/integration.rs:370`) | Data for a connection whose writer is gone, or not there yet, is an error (`client.rs:174`), and `handle_socket` ends the session on any error. np starts a connection's task before it answers `PortConnected`, so a local service that speaks first is enough. |
| `tunnel_other` | "Ensure we're connected again" (`tests/integration.rs:370`) | A local service closes while data for it is in np's channel. np's loop waits in `port_message` under the read lock, the connection's task in `port_writer_remove` for the write lock: np handles no message any more, and the data of another connection never arrives. `port_message` of the server holds the same lock across the same wait (`client.rs:177`). |
| `http_stuck` | "How many seconds to wait for a client before we reply to a forwarding requests with 504 status code" (`config.rs:79`) | np waits for a local service that never answers (`np/src/dispatch/http.rs:105`) and the websocket is full: the next request waits in its send, before the timeout starts (`websockets.rs:319`), and is never answered. |
| `nprun_restored` | "This assigns my-hostname.nport.io to your HTTP tunnel" (`README.md:33`) | np is back before the server has ended the old session: `HttpOpen` is answered with `InUse`, the error is logged (`np/src/lib.rs:167`), and np reads on without its tunnel. |

The liveness properties of `tunnel`, `tunnel_two`, `http` and `nprun` have
premises (`Flowing`, np's local requests end, `DispatchEnds`). The code does not
guarantee them: `tunnel_other`, `tunnel_leak` and `http_stuck` are the runs in
which they fail. What the passing runs add is that nothing else stands in the
way.

### Seen while modelling, without a run of their own

- The deadlock of `tunnel_other` at the server: the channel of a connection is
  full, `port_message` waits under the read lock (`client.rs:177`), the
  connection's task has left its loop and waits for the write lock. If the
  websocket breaks now, the client is never deregistered, against "Disconnecting
  the client should unregister the hostname" (`tests/integration.rs:253`).
- With data both ways at once everything may fill up: both loops wait in
  `port_message` for room that a connection's task makes, and both tasks wait for
  room in the websocket that the loops make, a cycle of four, for ever, with both
  ends reading. `UserDataArrives` fails so for one connection that nobody closes,
  with the code's channels, four chunks one way and seven the other.
- The gauge "Number of active HTTP hostnames" (`stats.rs:91`) keeps counting the
  hostnames of a client that leaves without closing them: `deregister` does not
  decrement it (`registry.rs:23`, with a TODO).
- The gauge "Number of active TCP ports" (`stats.rs:99`) keeps counting a port
  whose accepting task ends by `break` (`port_server.rs:202`), because `upgrade`
  or `serve_socket` failed: only the closer's branch decrements it.
- After "could not send welcome message, disconnecting" (`websockets.rs:59`)
  `handle_socket` returns without `deregister`: the registry keeps the `Client`,
  and with it the websocket, for ever.
- A user's half-close is taken for a close (`port_server.rs:120-142`): the task
  ends, and of what the local service still answers nothing arrives. Data that
  is already under way then ends the session, as in `tunnel_session`. np treats
  the local service's half-close alike. `NoTruncation` promises an end its data
  only while that end has not stopped sending itself.
- Requests that reach np before `HttpOpened` does are answered one by one; four
  of them with a websocket full in both directions, np in the send of a response
  and the server in the send of `HttpOpened`, stop the session for ever. This is
  `BothFull`, the exception in `AnsweredIfServed`.
- The scheme sent with an `HttpRequest` is the wrong way round
  (`websockets.rs:308`, against `server.proto:50`); np does not read it.
- A write to a user's socket that fails (`port_server.rs:104`), and a read that
  fails (149), end the connection's task without a `PortClose`: np keeps the
  local connection open, against "Closing the server_stream should close the
  client" (`tests/integration.rs:358`).
- The task of a connection of an old session sends on np's new connection, and
  the server answers the unknown uuid by ending the new session
  (`client.rs:174`): a reconnection may cost another one per left-over task.
- The loop over the tunnels counts one retry per tunnel, all for one broken
  connection (`np/src/lib.rs:155`), so that six tunnels are enough to give up;
  with fewer, the counter is reset although nothing was set up (161).
- The task of an idle connection of a released `Client` spins: its channel is
  closed, `recv` returns `None` in every round and each round starts the 50 ms
  of the timeout afresh (`port_server.rs:99`), against "No new data, check if the
  weak reference to client is still alive" (155). `ClosedConnectionsEnd` states
  what does end it: the user.
- `validate_open` strips the domain from the host it is asked for and compares
  the rest with the full TCP hostname (`msghandlers/port.rs:27`), so that the
  example `tcp.nport.io:9999` (`README.md:38`) is refused with `HostNotAllowed`
  wherever `TCP_SUBDOMAIN` is set.
- An IPv6 local address gets no brackets in the URI of a local request
  (`np/src/dispatch/http.rs:58`), though "`ip:port` syntax is also supported"
  (`README.md:35`); loopback addresses of any kind become 127.0.0.1.
- A `Host` header with a port is routed to `forward` with the port split off and
  looked up with it (`websockets.rs:194`), so that no hostname is found on a port
  other than the default one.
- A redirect of the API to HTTPS goes to the main hostname
  (`implementation.rs:44`), where `API_SUBDOMAIN` is not served.
- Generated names are not compared with the blocklist, and `DOMAIN` is not put in
  lower case although requests are.
- `load` fails when `CERTS_DIR` does not exist, though `store_cert` would make
  it; one file that does not parse, such as a crash in `fs::write` leaves, stops
  every later start (`cert/store.rs:144-150`).
- `enable_cert_store` logs "no cloudflare config found, disabling cert store" and
  returns true (`config.rs:159`).
- Without `ACME_PERSIST_DIR` there is no store and, with HTTPS, no start, where
  the comment expects "too many account creations" (`config.rs:63`);
  `production_check` does not ask for it.

### Bounds

- `registry`: two clients and a hostname are the least with which a hostname
  moves between clients while a scan is between them; the theorems remove the
  bound.
- `tunnel`: one chunk from the user, two from the local service, a channel of 2
  at the server and of 1 at np, and a websocket of one message: channels, the
  websocket and the wait in `port_message` are all met, with every way to end.
  `tunnel_two` has two connections, capacities of 1 and no ends; the theorem
  `Complete` has `NoTruncation` for any number of connections with ends.
  `tunnel_session` and `tunnel_other` use the code's capacities, and
  `tunnel_leak` needs no data.
- `http`: three requests are the least with which one is at np, one in the
  websocket and one in `send`, with a websocket (`WsCap` 1) that fills up at once.
- `nprun`: two tunnels are the least with which the loop fails half way, two
  sessions the least for what one leaves to the next; two retries for the code's
  five. The theorems have any number of each.
- `certstore`: a validity of 3, a margin of 2 and a least validity at load of 1
  day have the order of the code's 30 and 1 and of the CA's 90 days, and tell a certificate that
  is fresh, due, ignored at a start and expired apart. Two values of the TXT
  record are the least with which a PUT can hit the wrong one; where the record
  is at that bound a POST does not happen. A tick is a day, and no day passes
  without a round or inside one, as one has 24; `age` and `lastOk` stop counting
  at the margin, beyond which no property speaks of them.
- `naming`: tunnels and servers are chosen so that each check of the code is met
  from both sides: names in upper case, with the domain, with two labels, with
  invalid characters, reserved or blocked; ports 0, 80, 9999, 65535 and 65536;
  hosts that are local, foreign, IPv6 or the server's own.
- `WsCap` stands for what sinks, kernel and network buffer. Its real value is
  larger, and unknown; the runs take it small enough to fill, or large enough
  not to, as their question needs.

`certstore` and `naming` check for deadlock. The other runs do not: tasks end, users and clients are
finitely many, so that a run of the system really may stop.

### Fairness

tokio polls every task that can go on, and `select!` chooses at random among its
ready branches, so steps of the programs' own tasks are weakly fair, each task or
branch by itself. Taking the
write lock of `clients` is strongly fair (`SF`): a tokio `RwLock` serves its
waiters in order, so a stream of lookups cannot overtake a writer for ever.
Timers fire: `Timeout` of `HttpForward` is fair. np's connect returns, with a
connection or an error, and a failed websocket is noticed at both ends
(`NpRun`); `Receive` and `RecvFails` are strongly fair, because `recv` takes
messages in their order and no number of dispatches in between keeps an answer
or the end of the websocket from its turn. `Dispatched`, `PortReleased` and
np's local request (`NpFetched`) are not fair. In `CertStore` the updater's own steps are weakly fair; an order, an
update of the record, a validation and a finalisation are strongly fair: the CA
and the DNS may fail any number of times, but not for ever. Nothing is assumed of
crashes, write errors or the clock. Not fair are: anything users, the network or the local service do;
`TaskTimeout`, whose timer starts anew in every round of the loop; and taking
new lookups. Writes to a user's or a local service's socket are assumed not to
block for ever.

## 5. The proofs

`RegistryProofs` proves, for any finite sets of clients and hostnames and any
set of lookups, from `RegistryAssumption` alone:

| Theorem | Statement |
|---|---|
| `TypeCorrect` | `Spec => []TypeOK`, with both counters natural numbers |
| `TableCorrect` | the inductive invariant `TableInv` |
| `HostnamesExclusive`, `ClaimsExact` | `NoTwoOwners`, `NoOrphanClaims` |
| `RepliesCorrect` | `RepliesHold` |
| `CountersCorrect` | `ConnectionsExact` |
| `LookupsCorrect` | `LookupLinearizable` |
| `RegistryImplementsOwnership` | `Spec => ImplementsOwnership` |

None of the properties is inductive. `NoTwoOwners` needs that a hostname being
claimed is in `claimed` and in nobody's hostnames, which is what
`NoOrphanClaims` says of intermediate states through `Held`; both need the life
cycle (who is in `clients` at which position of its task, and that a client not
yet serving has no hostnames) and the place of `subject` (in `hostnames` or not
half way through an operation). `TableInv` is the conjunction of these parts,
and each action is a step of its proof. The counters are cardinalities, so each
of their steps adds one element to a finite set, removes one or leaves it alone.
For lookups `ScanInv` says that a scan has seen the present owner of its
hostname, and that this owner is still to be visited unless the scan has seen
the hostname free: an owner can only change by the hostname being free. The
refinement maps the hostname's owner to the registered client that has it;
`ClaimAdd` is the abstract claim, `HttpCloseRemove` the release,
`DeregisterRemove` the departure, and every other step stutters.

`HttpForwardProofs` proves, for any set of requests and any capacity of the
websocket:

| Theorem | Statement |
|---|---|
| `HttpTypeCorrect` | `Spec => []TypeOK` |
| `AnswersCorrect` | `AnswersTruthful` |
| `LateResponsesCorrect` | `LateResponsesHarmless` |
| `ExecutedOnceCorrect` | `Spec => ExecutedOnce` |

Its inductive invariant `Inv` follows a request on its way. `ToNp`: a request in
the websocket is there once, np has not seen it, and its sender is in
`http_requests`. `AtNp`: so is the sender of the one np works at. `FromNp`: a
response on its way back is the only one of its request, says what np did with
it, and is still expected. `Tasks`: what a task's position says about the entry,
the oneshot and `fetched`. A late response is harmless because neither the
timeout nor an abort removes the entry: the very fact that lets `http_requests`
grow.

`PortTunnelProofs` proves, for any set of users, any number of chunks and any
capacities of the websocket and of both programs' channels, with or without
breaks of the websocket:

| Theorem | Statement |
|---|---|
| `Invariant`, `TypeCorrect` | the inductive invariant `Inv`; `Spec => []TypeOK` |
| `InOrder`, `Complete` | `DataInOrder`, `NoTruncation` |

To know that the chunk a task writes is the next one, `Inv` has to know where
every chunk is. `Pipe` says it without counting messages in a queue shared with
other connections: the first of a connection's chunks in the websocket is the
one that the receiving end needs next (`Base`: written, queued, or waiting for
room), each later one follows the one before it (`Chained`), and the last is the
one read last (`Filled`). The close message counts as the chunk after the last,
so that a close that arrives in its turn has everything before it: this is
`NoTruncation`. `Down(u)` and `Up(u)` put these together for the two directions.
They hold while the receiver listens, since a task that has left its loop lets
its channel go with what is in it.

The directions differ in the set-up (`Setup`). np has a connection's writer
before it answers `PortConnected`, and the server reads from the user after that
answer, so a chunk from the server always finds its channel (`NpFirst`,
`HasWriter`). In the other direction it may not: np's local service can speak
before the server has registered the writer, and the session then ends. `UpChain`
therefore promises nothing of the websocket once `handle_socket` has left its
loop, and with it `DataInOrder` needs no more: what was delivered stays a prefix.
`Listening` and `Once` say that a connection is announced once.

`NpRunProofs` proves, for any number of tunnels, HTTP or TCP, retries and
sessions:

| Theorem | Statement |
|---|---|
| `Invariant`, `TypeCorrect` | the inductive invariant `Inv`; `Spec => []TypeOK` |
| `Forwarded` | `ForwardedIsServed` |

`ForwardedIsServed` is stated for np's read loop; `Serves` says the same from the
connect on, since the server answers while np still opens tunnels. It is kept by
`Started`: a session owns nothing before its connect, so that a name owned by
np's session was opened in it, and by `registered` shrinking only together with
the connection. A refusal to register twice is harmless for the same reason.

`CertStoreProofs` proves, for any validity, margins and configurations that
`CertAssumption` allows:

| Theorem | Statement |
|---|---|
| `Invariant`, `TypeCorrect` | the inductive invariant `Inv`; `Spec => []TypeOK` |
| `TokenStands` | `ChallengeStands` |
| `Margin`, `Served` | `MarginKept`, `HttpsServed` |
| `DiskBacks` | `DiskBacksMemory` |

`ChallengeStands` needs `OneRequest`: the updater has one request under way, so
that no other one overwrites its token. `MarginKept` is disturbed by the end of a
round, which may only be called good if both certificates are: that is
`RootFirst`: the loop has left the first domain only with a certificate that was
not due, and since then it has lost no more days than the round is old (`age`).
`lastOk` therefore counts from the beginning of the round. `DiskBacksMemory` is about `Loaded`,
which searches the files; `FilesNamed` (a file holds only the domain it is named
after) and `SavesNew` reduce it to the one file in `Backed`. `OnlyRunning` empties
memory with the process.

`NamingProofs` proves, for any clients, tunnels, servers and spellings, from the
named assumptions of `Naming`:

| Theorem | Statement |
|---|---|
| `Invariant`, `TypeCorrect` | the inductive invariant `Inv`; `Spec => []TypeOK` |
| `HttpWorks`, `TcpWorks` | `HttpReaches`, `TcpReaches` |

Its invariant goes the way of a name: `Claimed` says that what a client holds at
the server is in lower case, neither the site's nor the API's name and no other
client's; `Answered` and `Remembered` that the answer on its way and np's table
repeat what the server has. The lemmas under it are about names as sequences:
lower case once is enough, stripping the domain leaves at least one label, and
one valid label before the domain is in lower case when both are and is neither
the domain nor the API's name (`FullNameRouted`). The proof is where the two
assumptions on the operator come from: with `DOMAIN` in upper case no registered
name is found, and a generated name equal to `API_SUBDOMAIN` goes to the API.

Every inductive invariant was an invariant of the component's runs before it was
proved. Only model-checked are `RedirectsLand`, which covers the redirect of the
site and not that of the API, and liveness (`ClosingLeaves`, `FlowingDataArrives`,
`FlowingSessionEnds`, `ReleasedPortCloses`, `ClosedConnectionsEnd`,
`AnsweredIfServed`, `FreeNamesRestored`, `ComesBack`, `RenewalRecovers`), which is
under fairness and out of the prover's reach.

## 6. Not modelled

- Every hostname of `Registry` is valid; `Naming` has the validation, with the
  registry in one step. In `PortTunnel` and `HttpForward` np stops where it would connect again; `NpRun` goes on from
  there.
- Tunnels without a configured name, which get a random one in every session.
- Clients other than np: `Naming` has the ports np sends, which it parses as 16
  bits, so that the cut of a wider one in `Addr::from_address` (`libnp/src/lib.rs:68`)
  is never met.
- Bytes, headers, URLs and protobuf encoding: data the properties do not look at.
- `http_requests_total`, which only grows.
- Several ports of one client: they share nothing but the websocket, the
  handler's loop and `port_writers`, which two connections of one port share too.
- Characters: `ValidLabels` is the set of labels `is_valid` accepts, `ParseOk` what
  the parser of an address lets through; how they are recognised is not modelled.
- Several servers with one `CERTS_DIR` or one zone; accounts and their files.
- Binding of listeners, `stop`, templates, telemetry, reading of files, arguments
  and environment: straight-line set-up or I/O without state of its own.
