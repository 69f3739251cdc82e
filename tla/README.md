# UPTP in TLA+

UPTP connects networks through libp2p streams. A **gateway** (a long-running
service with a web console) or an **agent** (a library and small clients) can

* map a local TCP or UDP port to a resource behind another gateway (*portmap*),
* take the traffic of whole networks off a TUN device and dial it through the
  SOCKS5 service of another gateway (*proxy*),
* and, as the other end of both, dial targets for its peers.

This directory holds TLA+ models of the parts that carry this logic, TLC
configurations that check them on small instances, and TLAPS proofs of what
matters most for every instance. `PROJECT.json` is the index: which definition
models which lines, what every run checks, which hazards the properties are for,
which changes of the code each property would notice.

To check a run: `tlc -config Portmap.cfg MCPortmap` (module and cfg of every run
are in the table below). To check proofs: `tlapm PortmapProofs.tla`, and likewise
`ProxyRouterProofs`, `Socks5Proofs`, `AccessProofs`, `PortmapAppsProofs`,
`ProxyClientProofs`, `AgentProofs` and `GatewayProofs`.

## 1. Inventory

| component | state | operations | talks to |
|---|---|---|---|
| **Relay** `portmap/portmap.go` | listener map under `connMtx`; per connection: nbio connection with its session (the stream), stream handle, `onConnOpen`/`handleUptpStream` and `io.Copy` goroutines | `AddListener`, `DeleteListener`, accept loop, `onConnOpen` + `relayHandshake`, `handleUptpStream`, `onConnData`, `onConnClose`, `Close` | callbacks into gateway/agent for the handshake; the peer's relay over a stream |
| **Portmap applications** `gateway/gateway.go` (`addApp`, `updateApp`, `deleteApp`, `Run`), `gateway/portmap_app.go` | table id -> application, its copy in leveldb | the three handlers, load at start | Relay (listeners), peer's authorization |
| **Portmap resources** `gateway/portmap_resource.go` | table id -> target, copy in leveldb | add, update, delete, lookup at handshake and authorization | Relay, Authorization |
| **Authorization** `gateway/authorize.go` | none | one request and answer on a stream, 10 s deadline | resources, proxy service |
| **Proxy router** `gateway/proxy_router.go` | AVL tree of address ranges, `RWMutex` | `addRoute`, `delRoute`, `get` | called by the proxy client (HTTP handlers) and by every dial of the TUN stack |
| **Proxy client** `gateway/proxy_client.go` | outbounds by id with copy in leveldb, dialers, system routes | load, add, update, delete outbound, `CheckPeer`, start and stop of the TUN stack | Proxy router, SOCKS5 client, TUN stack, netlink |
| **Proxy service** `gateway/proxy_service.go` | one record with its copy in leveldb | get, update | SOCKS5 server, Authorization |
| **SOCKS5** `socks5/*.go` | the server's session per peer in the peerstore; per request one stream and one target connection | negotiation, authentication, connect, packet connections, tunnelling | Proxy service, p2p engine (drops the session on disconnect) |
| **Sessions and token** `gateway/gateway.go` | login sessions with timers, the access token, the password | login, logout, middleware, get and draw token | web console, agents |
| **Agent** `agent/*.go` | running flag, database, engine, relay, applications, proxy gateways, the TUN stack's dialer | start, close, add, update, delete application, add and delete gateway, start and stop the TUN proxy | Relay, SOCKS5 client, P2P engine |
| **TUN stack** `tun_stack/*.go` | device, stack, running flag | start, stop | Proxy client |
| **Daemon and upgrade** `gateway/cmd/daemon.go`, `gateway/cmd/main.go`, `gateway/upgrade.go` | worker process, binary and its `.bak` | run, stop, upgrade, revert | file system, service manager |
| **Pure functions** `getCidrIntRange`, `packetReadWriter`, `CompareVersion` | - | network ranges, packet framing, version comparison | |
| P2P engine, bootstrap, API plumbing, logging, installer, clients | - | - | - |

What is hard in them:

* *Relay*: every relayed connection is served by up to four goroutines and two
  poller callbacks on two nodes, which learn of each other's failures only
  through `SetSession`, `Close` and the stream. Handshake, answer and payload
  share one stream without framing. The accept loop performs a whole network
  handshake before it accepts again.
* *Applications*: a table, its database copy and the listeners are changed one
  after the other, without a lock around the three, by requests that may overlap;
  each step can fail, and the process can die between any two.
* *Router*: one tree, touched under a lock by some of its methods and without it
  by others.
* *Proxy client*: outbound, dialer, tree and system route are four copies of one
  fact, changed in sequence, with errors that are not passed on.
* *SOCKS5*: two state machines that must agree on the method, across a server
  that remembers peers.
* *Resources, token, configuration*: checked in one step and changed in a later one,
  in memory and in the database, by requests that overlap, and by peers.
* *Agent*: a start of many parts that can fail in the middle and leaves behind what it
  has opened; a close that resets some of them.
* *Daemon, upgrade*: file operations with a crash between any two, upgrades that
  overlap, a stop that races the restart of the worker.

What makes them correct:

* *Relay*: the outer peers see exactly each other's bytes, in order, and nothing
  of the handshake; nothing is relayed before the peer accepted; every stream
  handle and connection is released on every path; one end's close reaches the
  other end; the listener stays available.
* *Applications*: at rest, running applications and listeners correspond one to
  one; an acknowledged change survives a crash; a restart repairs whatever else
  happened.
* *Router*: ranges never overlap, lookups find the range of an address, both are
  atomic for the callers.
* *Proxy client*: an outbound is routed if and only if its dialer gets the traffic.
* *SOCKS5*: a client and a server that both follow the code agree on the method,
  and every stream is closed.
* *Sessions*: no session lasts for ever. *Token*: what the administrator was shown is
  what peers are compared with. *Resources*: an acknowledged addition is served, an
  acknowledged deletion is not. *Configuration*: the proxy dials as it says.
* *Agent*: no engine without an owner; running applications have listeners, and
  listeners applications; what was added stays.
* *Daemon, upgrade*: a whole binary always remains; a success leaves one that can be
  started; one worker at a time, which is replaced when it ends.

The hazards are listed in `PROJECT.json` at the lines where they bite.

## 2. Modules

| module | what it is |
|---|---|
| `Portmap` | the relay end to end: both nodes, one listener, any number of connections |
| `PortmapProofs` | inductive invariant of `Portmap` and its consequences |
| `RouteTable` | abstract: a table of ranges that never overlap, changed and read atomically |
| `ProxyRouter` | the tree with its locking; shown to implement `RouteTable` where its callers do not tear it |
| `ProxyRouterProofs` | inductive invariant of `ProxyRouter`, and the refinement |
| `Cidr` | `getCidrIntRange` in arithmetic of `W` bits, and the networks it can be given |
| `PortmapApps` | the application handlers, table, database, listeners, start and crash |
| `PortmapAppsProofs` | inductive invariant of `PortmapApps` and its consequences |
| `ProxyClient` | outbounds with their database copy, routes and TUN stack, on top of `RouteTable` |
| `ProxyClientProofs` | inductive invariant of `ProxyClient` and its consequences |
| `Socks5` | dials, the stream handler and the server's memory of peers |
| `Socks5Proofs` | inductive invariants of `Socks5` and their consequences |
| `Access` | what a gateway keeps for its administrator and its peers: sessions, access token, resources with authorization, proxy configuration |
| `AccessProofs` | inductive invariant of `Access` and its consequences |
| `Agent` | the agent's start and close, applications, proxy gateways |
| `AgentProofs` | inductive invariant of `Agent` and its consequences |
| `Upgrade` | daemon, worker and self-upgrade on the directory that holds the binary |
| `Wire` | `packetReadWriter` and `CompareVersion` as functions on sequences |
| `GatewayFunctions` | `Cidr` and `Wire` called on inputs, and the reference definitions their results are compared with |
| `GatewayProofs` | inductive invariant of `Upgrade` and its consequences; the functions, for every input |
| `MCPortmap`, `MCProxyRouter`, `MCPortmapApps`, `MCProxyClient`, `MCSocks5`, `MCAccess`, `MCAgent`, `MCUpgrade` | instances for TLC |
| `MCFunctions` | `GatewayFunctions` on every input of a bounded size |

### Portmap

State is kept per *end* `<<side, connection>>`: side `"cl"` accepted the
connection, side `"sv"` dialled the target. After the handshake both run the same
callbacks and the same copy loop, so these are written once.

| variable | code |
|---|---|
| `ext`, `sent`, `got` | the application or target: open or closed, chunks it sent, chunks written to it |
| `lost` | history: chunks for it that were parsed away with the response |
| `conn`, `armed`, `sess`, `onclose` | `nbio.Conn`: open, in the poller, its session, its OnClose callback |
| `read`, `poll` | `onConnData`: chunks read, and the moment between loading the session and writing |
| `end`, `buf`, `link` | `network.Stream`: the handle of each side, what has arrived, whether it broke |
| `opener`, `handler`, `copier` | program counters of `onConnOpen`+`relayHandshake`, `handleUptpStream`, the `io.Copy` goroutines |

Every I/O call is a step of its own, with its error path. A write to a stream
whose other side has closed may succeed (the data is dropped) or fail. A read
returns any non-empty run of the writes that have arrived: responses that arrive
together with payload are a case the code meets. `json.Unmarshal` accepts white space
behind a value and nothing else: with the constant `Blank`, the chunks that are all white
space, `ResponseOk` takes the response and drops what came with it, and `ResponseBad` is
an error response or one followed by other payload. A
write is never split between two reads (handshakes and responses are below 1 KB),
and the stream neither reorders nor loses in the middle: libp2p guarantees that.

`HandshakeIOFails` leaves the stream open, because that is what `return nil, err`
does to the deferred `Reset`. Closing before the connection is in the poller does
not call `onConnClose`; closing after does, once, later.

Not in it: UDP (nbio emulates sessions with a timeout), `Portmap.Close`, the
kernel's buffers (`onConnData` handles a chunk at a time).

### ProxyRouter, RouteTable, Cidr

The variable `data` holds the items of the tree. Its shape is abstracted: a walk
is at *some* node of the subtree it has reached (`sub`, its keys), so a walk of
the model takes every path of every search tree with these keys, the AVL tree's
included. Any number of writers call it. Of the `Get` and the `Put` that `addRoute` does
outside the mutex, a `Get` beside another writer may miss a key that is there, since the
tree may be rotated under the search; and once a route is added or removed between the
`Get` that found a range and the `Put` that replaces its dialer, the history variable
`torn` is set. The `Put` then works on a tree that is no longer the one it looked at, and
the properties say nothing from there on.

`RouteTable` says what the callers rely on. `addRoute` takes effect at its `Put`,
`get` at the node it returns or when it runs out of nodes; everything else is a
stutter. The refinement mapping is the identity on `data` and `answer`, and
`ImplementsRouteTable` is the specification of `RouteTable` for the steps up to `torn`.

`Cidr` keeps the width: shifts and sums are modulo `2^W`, an IPv6 network has
`4*W` bits and no IPv4 address, which the code reads as 0.

### PortmapApps

An application is its endpoint and its Running flag. `PortOf` forgets the address of an
endpoint: `FindAppWithPort`, which decides whom an accepted connection is for, compares
network and port only. Each handler is a sequence
of steps: read the old application, ask the peer (whose answer is free), remove
the old listener, look up and bind, register, save and answer. `AddListener` is
two steps because it holds `connMtx` only for reading: two of them may overlap,
while `DeleteListener` waits for both. `Save` changes the table first and may then
fail to write it. `Crash` may happen at any step, and stands also for the fatal
error of Go's runtime on a concurrent map write. `Run` starts the running
applications one by one and stores the ones it cannot start as stopped. Random
IDs are taken to be distinct. `known`, `ack` and `calm` are history variables: `calm`
says that since the start requests came one at a time and that the applications kept
endpoints of their own, which is what `ListenersAgree` takes. That a connection is for the
application that listens there takes ports of their own as well (`OwnPorts`).

### ProxyClient

An outbound is its network, its peer and its Open flag. The router is its abstract
specification: `addRoute` and the removals are the actions `Add`, `Replace` and
`Remove` of `RouteTable`, which `ProxyRouter` implements until two handlers tear it. With
two handlers at once that is optimistic (see section 4), and the properties about
routes only speak of times without overlap.

| variable | code |
|---|---|
| `outbounds`, `db` | `socks5ProxyManager.outbounds` and its copy in leveldb |
| `routes`, `sys`, `tun` | the router; networks routed to the TUN device; the TUN stack |
| `proc`, `todo` | the process, and what `Start` has still to do |
| `leftover` | those of them whose removal failed: `RouteDel` may, and nobody sees its error |
| `pc`, `job` | where each HTTP handler is, and its request |
| `ack`, `entered`, `noise` | history: what was acknowledged about each outbound; the networks it had since the start; how much disturbance there was since the start |

`updateOutbound` removes the old route, asks the peer, stores, starts the TUN stack
(also for an outbound that is not open) and adds the new route, and any of these
may fail, with everything before it in force. `deleteOutbound` removes the router's
range and leaves the system's route. The changes of router and system route are one
step: nothing looks between them. `startTunStack` keeps the device `"held"` when
its address cannot be set, because `tunstack.Stop` returns at once. The panic on an
unknown ID, which the HTTP server recovers, is a failed request. `Stop` and a crash
are one action: the routes live in the process and on its device.

### Socks5

Every dial is a stream of its own, from a peer to the one server.

| variable | code |
|---|---|
| `dial` | whose dial it is, and whether `dialContext` or `DialUDP`; any of the constant `Dials` |
| `client` | program counter of the dial, then the connection it returned |
| `server`, `needAuth` | program counter of `handler` with what it calls; what `preCheckFunc` told it |
| `target`, `forward` | the connection or UDP socket for the request; the goroutines that copy |
| `known` | peers with a session in the peerstore |
| `end`, `buf`, `lost` | the stream's two handles, what has arrived, whether it failed |
| `drops`, `events` | lost connections, and those of them the engine has not handled yet |

The parsers of the socks5 library read exactly one message, so a message is an
item of `buf` that is written and read as a whole. Payload is left out but for
the packets that `handleUDPPackConnRequest` writes where `DialUDP` expects a reply
(`PacketIn`; one unread packet at a time, and no packet passes for a reply).
`Reset`, and the loss of the connection, close both handles and drop what is under
way; `Close` closes one handle, and the other side can still read what has arrived.

Three things follow the code rather than the protocol: a failed authentication
closes the stream on neither side (`ReadStatus`, `WriteDenied`); an I/O error of
the negotiation that `shouldLogError` ignores lets the handler go on to read a
request (`NegotiateIOFails`); and `handleUDPPackConnRequest` writes no success
reply (`DialTarget` goes from `"listen"` to `"packet"`). The session is stored
(`PutSession`) and removed (`RemovePeer`) by different goroutines in either order.

Peers in `Foreign` do not run `client.go`: they write any message at any time without
waiting for an answer (`ForeignWrite`, at most `MaxAhead` unread ones), and they may stop
reading, so that a write of the server fails while what they wrote can still be read (the
handle is `"deaf"`), close, or reset (`ForeignStops`). A message out of place may be taken
for the one expected, its bytes being whatever the peer makes them, or be refused
(`ServerRefuses`).

Left out: errors of `SplitHostPort`, `LookupPort` and `ParseAddress`, which the
callers' addresses do not cause; unknown commands, which `client.go` does not send
(from a foreign peer one is a request refused, without the reply);
`CmdConnectUDP`, which takes the path of `CmdConnect` with another dialer.

### Access

A handler is a job: what it is about to do, and with what. Each step is one call that
holds a mutex or reaches the database, and handlers interleave between them; a request
that only reads, or does everything in one such call, is one action. `up` and `Crash`
make every step restartable. `Run` fills the memory from the database before it serves.

| variable | code |
|---|---|
| `sessions`, `timers` | `Gateway.sessions`; the `AfterFunc`s that have not run |
| `token`, `drawn`, `told` | the token in the database; whether two draws overlapped; until then, the tokens other than 0 that `getGatewayInfo` answered |
| `res`, `resDb` | `PortmapResMgr.resources` and its copy in the database |
| `added`, `gone` | history: resources added, and deleted, for certain |
| `cfg`, `cfgDb`, `outbound`, `torn` | the configuration in memory and saved; the one `SetOutboundProxy` was given last; whether an update failed or met another one |

`authMiddleware` is the guard `Admitted`: some session exists, since the model does not
say whose request it is. Every route but `/login` and the static files goes through it.
`Authorized` and `Resolves` are what `handlePortmapAuth` and `handlePortmapHandshake`
compute; they differ for ID 0, which the first accepts. A token may be drawn as 0:
`getGatewayInfo` then draws a second one, `getToken` of a peer does not. A resource is
its ID; an update that fails validation is one that never reached the table. Whether a
password matches is a choice, so `handleLogin` is one step and `handleChangePassword` not an
action.

### Agent

The user interface calls the agent one call at a time, so each call is one action with
its outcomes. `start` is three: failing before or inside `NewP2PEngine`
(`StartFails`), and `start` with its portmap part succeeding, failing silently or left
out, and its list of gateways loaded or not. What a failed start has opened stays open,
and the next start finds the database locked. `ds` is the DHT's database: `NewP2PEngine`
opens it and nothing closes it, so that a process gets one engine in its life.
`close` keeps `running`, the managers and the dialer; the managers then hold a closed
database (`handles`). Calls that dereference a nil pointer end the process: that is
`Exit`, and their guards exclude the nil. A manager whose load failed goes on empty
(`unloaded`), and what its saves remove from the database is `lost`; an addition that was
acknowledged stays in `ack` until it is deleted, whatever becomes of it. `startPortmap` saves the table once for
each application it cannot start, and each save may fail. `updateAPP` moves an application without
deleting the old listener (`left` remembers where). Endpoints have fixed ports here;
port 0 is in `PortmapApps`.

### Upgrade

File 0 is the installed binary; upgrade `k` writes file `k`, which is `whole` once it
has been copied and `exec` once its name was changed to be executable. The names are
numbers, 0 for `bin` and one more for each `.bak` behind it. `dir` is the file under each
name and `last` the name of file 0, the one whose workers upgrade. `os.Executable` reads `/proc/self/exe`, which
follows the renames of the file a process runs: so `download(k, w)`, which stands for the
request up to that call, gives an upgrade not
`bin` but the name that its worker's file has by then (`path`), and a second upgrade by the
same worker moves `bin.bak` to `bin.bak.bak` and writes `bin.bak`. A copy goes on into the
file it opened (`out`) even after another upgrade has renamed it; `os.Create` on a name
that another upgrade has filled meanwhile truncates that file (`createTruncates`, and
`"cut"` is the copy that loses its beginning by that); `chmod` hits whatever has the name
by then. `stale` remembers that an upgrade renamed a file that is not its worker's: the
name it had asked for was another one's by then.
Every step of `upgradeMyself` that changes the directory is an action; the worker that
carries it out may be killed between any two, and the locals of an upgrade go with it
(`Drops`, `Ends`). `late` holds the workers that were started after `Stop` had looked. `checkAndRevert` reverts nothing, and
`Run` removes no `.bak`, because `os.IsExist` of a `nil` error is false. The daemon starts
workers by the name it asked for when it was itself started, which is `bin`. The daemon's
`Stop` sets `stopped` without the mutex and kills with it, two steps between which
`run` may go on. A worker whose `Run` failed is `"stuck"`: it waits for a signal.
Only workers of the installed binary upgrade: the version on offer does not change.

### Wire

Bytes are digits to the base `B`. `WriteAll` writes packets one after the other and
keeps apart those that `Write` refuses. `ReadAll` reads a stream that ends anywhere,
packet by packet, and says how the last call ended, the index out of range included that
a packet longer than the buffer causes. `io.ReadFull` reports an ordinary end, and not an
unexpected one, when no byte at all follows, which is also the case behind a header whose
payload is lost; `FramesExact` says so. A version is a sequence of components with their
spelling and their value.

## 3. Runs

| run | instance | shows |
|---|---|---|
| `portmap` | 1 connection, 2 chunks each way of which the first is white space, the stream may break at any moment | `PayloadIntegrity`, `AcceptedBeforeRelay`, `StreamOwned`, `ConnOwned`, `RefusedByFirstWord`; under fairness `EndReleasesBoth`, `Delivery` |
| `portmap_accept` | 2 connections on one listener, sound streams, no payload | `EveryConnectionSettles` |
| `portmap_leak` | 1 connection | **violated**: `FailedHandshakeResets` |
| `functions` | all networks of 4-bit addresses in 3 notations; up to 3 packets of up to 9 bytes to the base 3, every cut and buffer size; all pairs of versions of up to 3 components out of 0, 1, 2, 01 and x | `RangeIsNetwork`, `FramesExact`, `UpgradeIsNewer` |
| `router` | 2 writers, 1 reader, all networks of 2-bit addresses, 2 dialers | `Disjoint`, `WalkKeepsTarget`, `ImplementsRouteTable` |
| `apps` | 2 requests at a time, 2 applications, 3 endpoints: one application moves between two ports, or rests; the other has the port of the first on another address, or port 0, for which the system may choose an endpoint that the first one then asks for | `SocketsRegistered`, `ListenersAgree`, `AckedSurvives`, `RestartRepairs` |
| `outbounds` | 2 outbounds, 3 addresses: one changes its peer, the other has a network inside the first one's or apart from it; 2 requests at a time | `DialsOwner`, `SysRoutesOwned`, `AckedRouted`, `AckedDurable` |
| `socks5` | 2 dials: one of the trusted peer, beside one of the same peer or an untrusted one, of either kind, or of a foreign one; 1 lost connection | `OnlyTrusted`, `ConnectFailsForCause`; under fairness `EveryDialEnds`, `EndReleasesBoth` |
| `socks5_packet` | as `socks5` | **violated**: `PacketFailsForCause` |
| `agent` | 2 applications, 2 endpoints, 2 gateways, one of which may be in the list twice; at most 2 entries in both tables together | `EngineOwned`, `ListenersAgree`, `AckedKept` |
| `upgrade` | 2 worker processes, 3 upgrades, names up to `bin.bak.bak.bak` | `BinaryKept`, `SuccessRunnable`, `OneWorker`; under fairness `WorkerReplaced` |
| `access` | 2 handlers, 2 sessions, tokens 0, 1 and 2, 2 resources, 2 configurations | `TokenKept`, `AckedServed`, `ConfigAgrees`; under fairness `SessionEnds`, with logins and logouts while the other timer runs |

`TypeOK` of every module is proved (section 5); `portmap` and `socks5` check it as
well.

**Bounds.** Connections share nothing but the accept loop, so one connection shows
everything about the relay except blocking, and two (MaxSend 0) show that. Two
chunks are the least that can be swapped, duplicated or lost in the middle, and the least
in which white space that goes with the response is followed by payload. Four
addresses give every relation of two networks (equal, nested at either end,
touching, apart) and a tree of up to four ranges; 4-bit words have every prefix
length and both shift limits. Two overlapping requests are the least that race;
a third could only repeat the role of one. Dials share only the session of their
peer: two show one dial storing or losing the session under another, and a single
loss reaches every step of both. Dials of two peers that are not trusted share nothing, so
that one of the two is always the trusted peer's (`Dials`, of which the theorems assume
only the type). One unread message of a foreign peer is enough (`MaxAhead`): it writes the
next as soon as the server has read one, waiting for no answer. The bounds in guards are
`MaxSend`, `MaxDrops`, `MaxAhead`, `MaxNoise` (between two starts, requests overlap once and
none follows), `MaxProxys` and `MaxEntries` (the agent's lists: with two entries a save of
one must keep the other, of the same or of the other table, and a list may have a gateway
twice), `MaxUpgrades`, and the one unread packet of `PacketIn`; everything else is finite by
itself. Two workers are needed to see one started while another lives. Three upgrades are
the least in which one overlaps another that works on the remains of a third. Two
handlers on two resources show a save of one meeting a change of the other. Sessions
share the map and each has its timer: two show a login and a logout beside the timer of
another. For the safety properties the bounds matter to TLC only: the theorems of
section 5 have none.

**Fairness** (`Portmap!Fairness`). Weak fairness of each goroutine and of the
poller: the Go scheduler runs every runnable goroutine, nbio delivers events,
`DialTimeout` ends after 5 s and the stream's reads end when data, a close or a
break arrives. Nothing is assumed of the application, the target or the network:
they may stay silent, and a stream need not break. What is assumed silently is
that the peer runs this code: a peer that keeps a stream open and never answers
blocks the accept loop, since the read of the response has no deadline.

In `Socks5!Fairness` the same goes for the dial, the handler, the copying
goroutines and the engine's event loop; a dial of a target ends after 30 s and the
packet loop after two minutes without a packet. `EveryDialEnds` rests on that
timeout for `DialUDP`.

In `Upgrade!Spec` only the daemon's loop is fair: a goroutine that nothing blocks but
its worker. Workers, upgrades and the service manager may do nothing.
`Access!Fairness` is that of each session's timer, which Go's runtime fires while the
process lives; requests need not come.

**Deadlock** is not checked in the relay, the router, the SOCKS5 service and the
functions: a connection that has ended and a router whose callers are done rightly
stop, and a function is called once.

## 4. Findings

1. `relayHandshake` (portmap.go:209, 215) leaks the stream when the handshake's
   write or read fails: `return nil, err` clears the named result that the
   deferred function tests. (`portmap_leak`)
2. `DialUDP` (client.go:262) has no case for the `MethodNone` with which the server
   greets a peer it remembers, and the server never sends the success reply it
   waits for (server.go:216): a trusted peer's packet dial fails with nothing
   wrong. (`socks5_packet`)

Seen while modelling, and reflected in the conditions of properties rather than in
runs of their own:

* Payload of white space that the one `Read` of the response returns with it is parsed
  away by `json.Unmarshal` (portmap.go:218): the connection goes on without it. Hence `lost`
  in `PayloadIntegrity` and `Delivery`.
* `addRoute` (proxy_router.go:39, 52) reads and writes the tree outside its mutex: when a
  second handler adds or removes a route between the two, ranges may overlap. Hence `torn`
  in `Disjoint`, `WalkKeepsTarget` and `ImplementsRouteTable`.
* `FindAppWithPort` (portmap_app.go:111) does not look at the address: of two applications
  on one port of two addresses, either gets the connections of both. Hence `OwnPorts`.
* A negotiation write that fails because the peer has stopped reading does not end the
  handler (server.go:94): it goes on to read a request, and serves a peer that has sent one
  without being accepted. Hence the second case of `OnlyTrusted`.
* Two applications on one endpoint share a listener that the deletion of either closes;
  overlapping `updateApp` and `deleteApp` of one application leave a listener without an
  owner until the next start. Hence `calm` in `ListenersAgree`.
* `DeleteOutbound` (proxy_client.go:302) leaves the system's route; an error of `RouteDel`
  is dropped (gateway.go:1435), which leaves it too (`leftover`); a refused `addRoute`
  (proxy_client.go:323) goes unnoticed; `tunstack.Stop` (engine.go:62) does nothing.
* Two requests that find no token each draw one, and each is told its own
  (gateway.go:1213). Hence `drawn` in `TokenKept`.
* An update of a resource that was deleted meanwhile brings it back (gateway.go:1117); a
  deletion whose save failed is answered with 404 when it is repeated, and the resource
  is back after a restart. Hence the conditions on `gone`.
* `handlePortmapAuth` authorizes ID 0 (authorize.go:86), which no handshake resolves. A
  logout without the Authorization header clears the cookie and keeps the session
  (gateway.go:377). A session lasts 15 minutes where the comment says an hour
  (gateway.go:427).
* The agent does not start again after `close` in the same process, nor after a start
  that failed half way: `running` stays set, or a database stays locked (agent.go:148,
  engine.go:72). After a load that failed, the next save overwrites what was stored. Hence
  `lost` in `AckedKept`.
* `checkAndRevert` (daemon.go:117) and the removal of the old binary (gateway.go:86)
  test `os.IsExist(nil)` and never act. `os.Executable` follows the rename (upgrade.go:97),
  so that a retry of an upgrade that failed works on `bin.bak`: it answers success while
  `bin` stays missing or partial, which is why `SuccessRunnable` speaks of `bin` only when
  no upgrade failed. Upgrades that overlap may rename a file that is not their worker's over
  the good copy. Hence `stale`. A worker started after
  `Stop` looked for one outlives the daemon, and the restarted service starts another beside
  it. Hence `late` in `OneWorker`.

## 5. Proofs

For every set of connections, every number of chunks and every choice of streams
that may break, **`PortmapProofs`** proves `TypeOK`, `PayloadIntegrity`,
`AcceptedBeforeRelay`, `StreamOwned`, `ConnOwned` and `RefusedByFirstWord`.
None of them is inductive. `Inv` adds, for each connection,

* `Phase`: how the program counters of the two nodes constrain each other;
* `Control`: which control message may be on the stream in which phase;
* `Polled`: when a connection is in the poller and who may have closed it;
* `Flow`: what was parsed away, what has been written, what is on the stream and what
  `onConnData` holds are one consecutive run of chunks (`Continues`), or the connection is
  closed and the run ends early: this is where ordering comes from; what was parsed away is
  white space;
* `Owned`: the ownership of handles and connections as in the properties.

A step of one connection leaves the invariant of every other one alone
(`Frame`, `FrameInv`), so each action is proved for its own connection only.
The assumptions are `MaxSendAssumption`, `FragileAssumption` and `BlankAssumption`.

**`ProxyRouterProofs`** proves, for every set of addresses, networks, dialers, readers and
writers: `TypeOK`, `Disjoint`, `WalkKeepsTarget` and `ImplementsRouteTable`, so that what
is promised holds of every behaviour up to a route that is added or removed between
another handler's `Get` and `Put`. `Inv` adds `Nonempty` (ranges and requests are not
empty), `Control` (a walk excludes other walks and readers) and `StillThere` (until `torn`,
the range `addRoute` has found is still there when it replaces the dialer). Assumptions:
`AddrAssumption`, `NetsAssumption`, `CallersAssumption`, `DialersAssumption`.

**`Socks5Proofs`** proves `TypeOK`, `OnlyTrusted` and `ConnectFailsForCause` for every
set of peers and dials, every choice of trusted and of foreign ones, any number of messages
ahead and any number of lost connections.
For the first two, `Inv` adds that only trusted peers have a session, and for each stream
of an untrusted peer that runs `client.go` (`Kept`) that it needs authentication and is
`Before` its stream exists, `Dead` (both handles closed, so that the handler, which does go on after an I/O
error of the negotiation, finds no request to read), or `Live`, client and handler in
lock step up to the refusal. Of a foreign peer only the handler's place is known (`Apart`):
it stays in the negotiation, or the peer has stopped reading. For the third, `ServedInv`
says of each `dialContext` of a
trusted peer that its stream is lost, or its target refused, or it has not begun, or the
two are in lock step (`Talking`) up to the reply, which the client still finds when the
handler has closed (`Answered`), or it is connected. Both branches of the negotiation are
in `Talking`, so that it does not matter when sessions come and go. Assumptions:
`TrustedAssumption`, `ForeignAssumption`, `DialsAssumption`, `MaxDropsAssumption`,
`MaxAheadAssumption`; that
trusted peers run this code is part of `ForeignAssumption`.

**`AccessProofs`** proves `TypeOK`, `TokenKept`, `AckedServed` and `ConfigAgrees` for
every set of handlers, sessions, tokens, resources and configurations. `Inv` adds

* `JobInv`: no handler is at work in a process that is down;
* `TokenInv`: a handler about to draw a token knows that there is none, or that it is 0,
  so that its draw replaces no token that was told;
* `ResInv`: what was added is in the database too, what is gone is in neither, and no
  update of something gone is under way, which is what could bring it back;
* `CfgInv`: unless `torn`, at most one update is on its way to `SetOutboundProxy`, and it
  brings what memory and database have.

The actions of one part leave the invariants of the others alone (`TokenFrame`,
`ResFrame`, `CfgFrame`), so `InvStep` has one step per action and under it only the parts
it disturbs. Assumptions: `TokenAssumption`, `IDAssumption`, `ConfigAssumption`.

**`PortmapAppsProofs`** proves `TypeOK`, `SocketsRegistered`, `AckedSurvives`,
`ListenersAgree` and the action property `RestartRepairs`, for every set of handlers,
applications and endpoints. Only `SocketsRegistered` is nearly inductive. `Inv` adds

* `JobInv`: what a handler has at hand at each step;
* `KnownInv`: an ID that was never stored is nowhere, and one handler at most is about to
  add it, so that no request about it can meet the addition;
* `AckInv`: what was acknowledged is in the database too, and no handler under way is
  about to undo it. A `Save` writes the whole table, so each handler's save must keep
  what the others were acknowledged;
* `BootInv`: while `Run` works, the listeners are those of the applications it is done
  with (`Agree`), which gives `RestartRepairs` at its last step, whatever was before;
* `CalmInv`: while `calm`, one handler at most is at work, and the listeners agree for
  all applications but the one it is changing, step by step.

Assumptions: `NilAssumption` (no application is `Nil`) and `ChoiceAssumption`; of `PortOf`
nothing is assumed.

**`ProxyClientProofs`** proves `TypeOK`, `AckedDurable`, `DialsOwner`, `SysRoutesOwned` and
`AckedRouted`, for every set of handlers, outbounds, addresses and peers and whatever
networks users enter. `Inv` adds

* `JobInv`, `EnteredInv`: what a handler has at hand; networks in use were entered;
* `AckInv`: what was acknowledged is in the table as well as in the database, since any
  handler may save the table (`AckOf`); and a handler that was alone with its outbound
  knows what both have of it, while those who share one know that nothing is promised
  (`HandlerAck`);
* `BootInv`: `Start` has routed the outbounds it is done with, and nothing else;
* `CalmInv`: without disturbance one handler at most is at work, and `RoutesOf` says at
  each of its steps which outbounds own the routes: all (`"get"`), all but its own
  (`"check"` to `"route"`), all but its own and whatever begins where the deleted network
  did (`"forget"`).

Every step of a handler is shown to be `Works`: it moves one handler, changes the table
at its outbound only and saves it as a whole or not at all. From that alone the handlers
of other outbounds are not disturbed (`OthersKeep`), so that each action is proved for
its own handler, outbound and routes (`WorkKeeps`). With networks apart, neither
`addRoute` nor a removal touches the route of another outbound (`addRouteUnmixed`,
`RemoveUnmixed`). Doing the proof showed that `SysRoutesOwned` needs no networks apart,
and it is stated and checked without that condition. Assumptions: `AddrAssumption`,
`ChoiceAssumption`, `MaxNoiseAssumption`, `NamesAssumption`.

**`AgentProofs`** proves `TypeOK`, `EngineOwned`, `ListenersAgree` and `AckedKept`, for
every set of applications, endpoints and gateways. `Inv` adds `HeldInv` (a relay comes
with a table and goes before the database; managers of the open database have their
data) and `PortsInv`. `AckedKept` is inductive with these: it says of the database that it
has what was acknowledged and is not `lost`, and of a manager that it has it too if its
load succeeded, so that each save of such a manager keeps it. The
lemmas on lists say that adding a gateway keeps the others and deleting one keeps all but
it. Assumptions: `NilAssumption`, `BoundsAssumption`.

**`GatewayProofs`** proves `TypeOK`, `BinaryKept`, `SuccessRunnable` and `OneWorker` of
`Upgrade`, for every number of workers and upgrades. `Inv` adds

* `AloneInv`: one upgrade at most is between its rename and its create of `bin`;
* `NameInv`: which file `bin` is at which step of which upgrade, and that one that was
  copied is whole;
* `FilesInv`, `ByInv`: a file has one name; upgrades under way have a worker that runs the
  installed binary;
* `SoundInv`: unless `stale`, the installed binary has the highest name in use, and each
  upgrade works on a lower name of its own;
* `WorkerInv`: beside those in `late`, the only worker is the one `run` waits for.

`OneWorker` follows since its set has at most one member. Assumptions: `NoneAssumption`,
`MaxUpgradesAssumption`.

It also proves `RangeIsNetwork`, `FramesExact` and `UpgradeIsNewer` for every width of the
words, every base of the bytes and every input, so for the code's 32-bit words, 256 and
packets of any length, where the run has 4 bits and bytes to the base 3. The invariant of
`Calls` (`CallInv`) only says that the input is one of the function's; the work is in
lemmas about the functions, and these need induction. The library's induction theorems
have an operator as a parameter, which the provers do not instantiate, but the
well-ordering of the natural numbers (`WFMin`, `NatLessThanWellFounded`) is first-order.
`Least`, `SetInduction` and `UptoInduction` follow for *sets* of numbers, and from these
`Recursion`: a definition whose value at an argument depends on arguments of lower rank
only has a solution. That makes the loops of `WriteAll`, `ReadAll` and `CompareVersion`
well defined (`WriteLoop`, `ReadLoop`, `CompareLoop`). Then:

* `RangeExact`: powers of two multiply because subsets of two disjoint intervals are pairs
  of subsets (`PowerIsCardinality`, `PowerSum`); so the shifted mask is
  `Word - 2^s` for every shift, by nothing and by the full width too (`ShiftedMask`), and
  the sum stays below `Word` (`RangeEnds`). With these, `RangesNest`: every range is a
  nonempty interval of addresses, which is `NetsAssumption` of `ProxyRouter` for the
  networks the code can be given, and two ranges that meet lie one in the other.
* `OfferExact`: the loop skips equal components (`Skipped`) and decides at the first
  difference.
* `TransferExact`: the packets that were not refused, written alone, make the same stream
  (`WrittenAlone`), each behind the other with its length in front (`Layout`); and by
  induction from the last packet to the first, `ReadFrom` says what the reads from behind
  packet `k` on return (`ReadStep` has the cases: end, part of a header, larger than the
  buffer, part of a packet, a whole one).

Assumptions: `WAssumption` (words have a bit), `BAssumption` (a byte has two values),
`TransfersAssumption` and `ReleasesAssumption` (the types of the inputs).

The assumptions on `Nil`, `None` and `Unsure` say that the value for "nothing" is not one
of the values it is absent from, as a nil pointer is no object.

**Only model-checked**: liveness (`EndReleasesBoth`, `Delivery`,
`EveryConnectionSettles`, `EveryDialEnds`, `WorkerReplaced`, `SessionEnds`), since
TLAPS 1.4.5 does not prove fairness properties.

## 6. Not modelled

UDP session emulation belongs to nbio; gVisor's stack, libp2p, leveldb and netlink are
external and appear only as what the code relies on. `Portmap.Close` is modelled for the
listeners (`Agent!close`), not against open connections. The default password, its
change and the gateway's name are single records. `stream/var_length_packet.go`,
`totp/` and `setDNS`, `setProxy`, `StopServe` are called by nothing. The installer,
logging, the API plumbing, the bootstrap node and the graphical clients have no
behaviour of their own worth a model.

## 7. Plan

Every safety property that a passing run checks is proved. What is left is
`Portmap.Close` while connections are open, and the administrator's password.

Runs stay few: a new run takes the place of one whose question it also answers.
