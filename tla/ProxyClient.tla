----------------------------- MODULE ProxyClient -----------------------------
(***************************************************************************)
(* The proxy client of a gateway: the outbounds of gateway/proxy_client.go *)
(* with their copy in leveldb, the HTTP handlers of gateway/gateway.go     *)
(* that change them, the proxy router and the system's routes that make    *)
(* them effective, and the TUN stack that carries their traffic.           *)
(*                                                                         *)
(* An outbound is reduced to its network, its peer and its Open flag.  The *)
(* router is the table it implements (RouteTable; see ProxyRouter).        *)
(* Whether a peer accepts the token is the peer's choice.                  *)
(***************************************************************************)
EXTENDS Naturals

CONSTANTS
    Handlers,  \* HTTP requests served at the same time
    IDs,       \* the random IDs of outbounds
    Addr,      \* the addresses
    Peers,     \* the peers, each standing for the dialer to it as well
    NoDialer,  \* no route for an address
    Nil,       \* no outbound, no request
    Unsure,    \* nothing was acknowledged about an outbound
    Choice,    \* for each outbound, the networks and peers its user may enter
    MaxNoise   \* how much noise there may be between two starts

Net == {n \in [min : Addr, max : Addr] : n.min <= n.max}

ASSUME AddrAssumption == Addr \subseteq Nat
ASSUME MaxNoiseAssumption == MaxNoise \in Nat \ {0}
ASSUME ChoiceAssumption == Choice \in [IDs -> SUBSET (Net \X Peers)]

Outbound == [net : Net, peer : Peers, open : BOOLEAN]

ASSUME NamesAssumption == Nil \notin Outbound /\ Unsure \notin Outbound \cup {Nil}

Table == [IDs -> Outbound \cup {Nil}]
Empty == [i \in IDs |-> Nil]

Job == [op : {"add", "update", "delete"}, id : IDs, ob : Outbound \cup {Nil},
        old : Outbound \cup {Nil}, alone : BOOLEAN]

VARIABLES
    proc,      \* the process: "down", "boot" (Start) or "up" (serving)
    todo,      \* the outbounds Start has not handled yet
    outbounds, \* socks5ProxyManager.outbounds
    db,        \* its copy in the database
    routes,    \* the router's table
    sys,       \* the networks the system routes to the TUN device
    leftover,  \* those of them whose removal failed
    tun,       \* the TUN stack: "off", "on", or the device "held" by a stack
               \* that was neither started nor stopped
    pc,        \* where each handler is
    job,       \* its request: what it does (op) to which outbound (id), the
               \* outbound as the request has it (ob) and as it was found (old),
               \* and whether no other request was about it meanwhile (alone)
    ack,       \* what was acknowledged about each outbound
    entered,   \* the networks each outbound had since the start
    noise      \* how many requests, since the start, overlapped an earlier one or
               \* came after such a request or after a delete that was not saved

base == <<proc, todo, outbounds, db>>
net  == <<routes, sys, leftover, tun>>
hist == <<ack, entered, noise>>
vars == <<proc, todo, outbounds, db, routes, sys, leftover, tun, pc, job, ack, entered, noise>>

Router == INSTANCE RouteTable WITH Readers <- {}, Dialers <- Peers, answer <- <<>>

TypeOK ==
    /\ proc \in {"down", "boot", "up"}
    /\ todo \subseteq IDs
    /\ outbounds \in Table
    /\ db \in Table
    /\ routes \subseteq Router!Route
    /\ sys \subseteq Net /\ leftover \subseteq Net
    /\ tun \in {"off", "on", "held"}
    /\ pc \in [Handlers -> {"idle", "get", "unroute", "check", "store", "tun", "route", "forget"}]
    /\ job \in [Handlers -> Job \cup {Nil}]
    /\ ack \in [IDs -> Outbound \cup {Nil, Unsure}]
    /\ entered \subseteq IDs \X Net
    /\ noise \in 0 .. MaxNoise

Init ==
    /\ proc = "down"
    /\ todo = {}
    /\ outbounds = Empty
    /\ db = Empty
    /\ routes = {}
    /\ sys = {} /\ leftover = {}
    /\ tun = "off"
    /\ pc = [h \in Handlers |-> "idle"]
    /\ job = [h \in Handlers |-> Nil]
    /\ ack = Empty
    /\ entered = {}
    /\ noise = 0

Open(o) == o # Nil /\ o.open
Closed(o) == [o EXCEPT !.open = FALSE]
Goto(h, l) == pc' = [pc EXCEPT ![h] = l]

-----------------------------------------------------------------------------
(* The router, the system's routes, the TUN stack and the table.            *)

RouteOf(o) == [min |-> o.net.min, max |-> o.net.max, dialer |-> o.peer]

\* proxyRouter.addRoute.  Its result is dropped: a network that overlaps the
\* range of another one gets no dialer, and nobody is told.
addRoute(o) ==
    LET r == RouteOf(o)
    IN  \/ Router!Add(r)
        \/ Router!Replace(r)
        \/ /\ \E s \in routes : ~Router!Apart(r, s) /\ (s.min # r.min \/ s.max # r.max)
           /\ UNCHANGED routes

\* netlink.RouteAdd (external): an error, for whatever reason, is only logged.
RouteAdd(n) == (sys' = sys \cup {n} \/ UNCHANGED sys) /\ UNCHANGED leftover

\* netlink.RouteDel (external): updateOutbound drops its error.
RouteDel(n) ==
    \/ sys' = sys \ {n} /\ leftover' = leftover \ {n}
    \/ leftover' = leftover \cup (sys \cap {n}) /\ UNCHANGED sys

\* startTunStack.  If the device cannot be given its address, tunstack.Stop
\* should close it, but returns at once since _running is never set.  The
\* device is then in use, and no later Start succeeds.
startTunStack(ok) ==
    \/ tun = "on" /\ ok /\ UNCHANGED tun
    \/ tun = "off" /\ ok /\ tun' = "on"
    \/ tun = "off" /\ ~ok /\ tun' \in {"off", "held"}
    \/ tun = "held" /\ ~ok /\ UNCHANGED tun

\* socks5ProxyManager, under its mutex: the table is changed, then saved as a
\* whole.  The save may fail; the table stays changed.
saveOutbounds(t, ok) == outbounds' = t /\ db' = IF ok THEN t ELSE db

-----------------------------------------------------------------------------
(* Start: load the table and route the outbounds that are open.             *)

loadOutbounds ==
    /\ proc = "down"
    /\ proc' = "boot"
    /\ outbounds' = db
    /\ todo' = {i \in IDs : Open(db[i])}
    /\ entered' = {<<i, db[i].net>> : i \in {j \in IDs : db[j] # Nil}}
    /\ noise' = 0
    /\ UNCHANGED <<db, net, pc, job, ack>>

\* Faulty variant: the outbound stays without a route.
StartNothing(i) ==
    /\ proc = "boot"
    /\ i \in todo
    /\ startTunStack(TRUE)
    /\ todo' = todo \ {i}
    /\ UNCHANGED <<proc, outbounds, db, routes, sys, leftover, pc, job, hist>>

StartOutbound(i) ==
    /\ proc = "boot"
    /\ i \in todo
    /\ startTunStack(TRUE)
    /\ addRoute(outbounds[i])
    /\ RouteAdd(outbounds[i].net)
    /\ todo' = todo \ {i}
    /\ UNCHANGED <<proc, outbounds, db, pc, job, hist>>

\* The TUN stack does not start: the outbound is stored as closed.
StartOutboundFails(i) ==
    /\ proc = "boot"
    /\ i \in todo
    /\ startTunStack(FALSE)
    /\ \E ok \in BOOLEAN : saveOutbounds([outbounds EXCEPT ![i] = Closed(@)], ok)
    /\ todo' = todo \ {i}
    /\ UNCHANGED <<proc, routes, sys, leftover, pc, job, hist>>

Serve ==
    /\ proc = "boot"
    /\ todo = {}
    /\ proc' = "up"
    /\ UNCHANGED <<todo, outbounds, db, net, pc, job, hist>>

\* The process stops or dies.  The device goes with it, and with the device its
\* routes; nothing but the database remains.
Stop ==
    /\ proc # "down"
    /\ proc' = "down"
    /\ todo' = {}
    /\ outbounds' = Empty
    /\ routes' = {} /\ sys' = {} /\ leftover' = {} /\ tun' = "off"
    /\ pc' = [h \in Handlers |-> "idle"]
    /\ job' = [h \in Handlers |-> Nil]
    /\ entered' = {}
    /\ noise' = 0
    /\ UNCHANGED <<db, ack>>

-----------------------------------------------------------------------------
(* The handlers.                                                            *)

Active(g) == pc[g] # "idle"
About(g, i) == Active(g) /\ job[g].id = i

Begin(h, op, i, o, l) ==
    /\ proc = "up"
    /\ ~Active(h)
    /\ LET new == [op |-> op, id |-> i, ob |-> o, old |-> Nil,
                   alone |-> \A g \in Handlers : ~About(g, i)]
       IN  job' = [g \in Handlers |-> IF g = h THEN new
                                      ELSE IF About(g, i) THEN [job[g] EXCEPT !.alone = FALSE]
                                      ELSE job[g]]
    /\ \/ noise = 0 /\ (\A g \in Handlers : ~Active(g)) /\ UNCHANGED noise
       \/ /\ noise > 0 \/ \E g \in Handlers : Active(g)
          /\ noise < MaxNoise
          /\ noise' = noise + 1
    /\ Goto(h, l)
    /\ UNCHANGED <<base, net, entered>>

\* The ID is random: no other outbound had it since the start.
addOutbound(h, i, o) ==
    /\ ack[i] = Nil /\ outbounds[i] = Nil
    /\ \A g \in Handlers : ~About(g, i)
    /\ \A x \in entered : x[1] # i
    /\ Begin(h, "add", i, o, "check")
    /\ UNCHANGED ack

updateOutbound(h, i, o) ==
    /\ outbounds[i] # Nil
    /\ Begin(h, "update", i, o, "get")
    /\ ack' = [ack EXCEPT ![i] = Unsure]

deleteOutbound(h, i) ==
    /\ outbounds[i] # Nil
    /\ Begin(h, "delete", i, Nil, "get")
    /\ ack' = [ack EXCEPT ![i] = Unsure]

Finish(h) == Goto(h, "idle") /\ job' = [job EXCEPT ![h] = Nil]

\* Nothing is promised about the outbound.
Doubt(h) == ack' = [ack EXCEPT ![job[h].id] = Unsure]

\* The answer is an error.
Fail(h) == Finish(h) /\ UNCHANGED ack

\* The answer is "ok".
Succeed(h) ==
    /\ Finish(h)
    /\ ack' = IF job[h].alone THEN [ack EXCEPT ![job[h].id] = job[h].ob] ELSE ack

\* An outbound that is not there ends the request: the handler panics, and the
\* HTTP server recovers.
GetOutbound(h) ==
    /\ pc[h] = "get"
    /\ LET old == outbounds[job[h].id]
       IN  \/ old = Nil /\ Fail(h)
           \/ /\ old # Nil
              /\ job' = [job EXCEPT ![h].old = old]
              /\ Goto(h, IF job[h].op = "delete" THEN "store"
                         ELSE IF old.open THEN "unroute" ELSE "check")
              /\ UNCHANGED ack
    /\ UNCHANGED <<base, net, entered, noise>>

\* Faulty variant: the system keeps its route.
KeepSysRoute(h) ==
    /\ pc[h] = "unroute"
    /\ Router!Remove(job[h].old.net.min)
    /\ Goto(h, "check")
    /\ UNCHANGED <<base, sys, leftover, tun, job, hist>>

\* The router forgets the range that begins where the network does; the system
\* forgets the network, or does not.
DeleteOutboundRoute(h) ==
    /\ pc[h] = "unroute"
    /\ Router!Remove(job[h].old.net.min)
    /\ RouteDel(job[h].old.net)
    /\ Goto(h, "check")
    /\ UNCHANGED <<base, tun, job, hist>>

\* The peer does not answer, or refuses, or the network cannot be parsed.
CheckPeerFails(h) ==
    /\ pc[h] = "check"
    /\ Fail(h)
    /\ UNCHANGED <<base, net, entered, noise>>

CheckPeer(h) ==
    /\ pc[h] = "check"
    /\ Goto(h, "store")
    /\ UNCHANGED <<base, net, job, hist>>

\* An outbound that is added and not open is finished when it is stored.
Done(h) == job[h].op = "add" /\ ~job[h].ob.open

\* Faulty variant: the table is changed in memory only.
StoreUnsaved(h) ==
    /\ pc[h] = "store"
    /\ job[h].op # "delete"
    /\ outbounds' = [outbounds EXCEPT ![job[h].id] = job[h].ob]
    /\ entered' = entered \cup {<<job[h].id, job[h].ob.net>>}
    /\ \/ Done(h) /\ Succeed(h)
       \/ ~Done(h) /\ Goto(h, "tun") /\ UNCHANGED job /\ Doubt(h)
    /\ UNCHANGED <<proc, todo, db, net, noise>>

\* socks5ProxyManager.AddOutbound and UpdateOutbound.
Store(h) ==
    /\ pc[h] = "store"
    /\ job[h].op # "delete"
    /\ entered' = entered \cup {<<job[h].id, job[h].ob.net>>}
    /\ \E ok \in BOOLEAN :
          /\ saveOutbounds([outbounds EXCEPT ![job[h].id] = job[h].ob], ok)
          /\ \/ ~ok /\ Finish(h) /\ Doubt(h)
             \/ ok /\ Done(h) /\ Succeed(h)
             \/ ok /\ ~Done(h) /\ Goto(h, "tun") /\ UNCHANGED job /\ Doubt(h)
    /\ UNCHANGED <<proc, todo, net, noise>>

\* socks5ProxyManager.DeleteOutbound.
StoreDeleted(h) ==
    /\ pc[h] = "store"
    /\ job[h].op = "delete"
    /\ LET old == outbounds[job[h].id]
       IN  \/ old = Nil /\ Succeed(h) /\ UNCHANGED <<outbounds, db, noise>>
           \/ /\ old # Nil
              /\ \E ok \in BOOLEAN :
                    /\ saveOutbounds([outbounds EXCEPT ![job[h].id] = Nil], ok)
                    /\ IF ok THEN /\ job' = [job EXCEPT ![h].old = old]
                                  /\ Goto(h, "forget")
                                  /\ UNCHANGED ack
                       ELSE Fail(h)
                    /\ noise' = IF ok \/ noise > 0 THEN noise ELSE 1
    /\ UNCHANGED <<proc, todo, net, entered>>

\* Faulty variant: the route of a deleted outbound stays in the router.
ForgetNothing(h) ==
    /\ pc[h] = "forget"
    /\ Succeed(h)
    /\ UNCHANGED <<base, net, entered, noise>>

\* DeleteOutbound removes the outbound's range from the router, open or not, and
\* leaves the system's route.
Forget(h) ==
    /\ pc[h] = "forget"
    /\ Router!Remove(job[h].old.net.min)
    /\ Succeed(h)
    /\ UNCHANGED <<base, sys, leftover, tun, entered, noise>>

StartTun(h) ==
    /\ pc[h] = "tun"
    /\ startTunStack(TRUE)
    /\ IF job[h].ob.open THEN Goto(h, "route") /\ UNCHANGED <<job, ack>> ELSE Succeed(h)
    /\ UNCHANGED <<base, routes, sys, leftover, entered, noise>>

StartTunFails(h) ==
    /\ pc[h] = "tun"
    /\ startTunStack(FALSE)
    /\ Fail(h)
    /\ UNCHANGED <<base, routes, sys, leftover, entered, noise>>

addOutboundRoute(h) ==
    /\ pc[h] = "route"
    /\ addRoute(job[h].ob)
    /\ RouteAdd(job[h].ob.net)
    /\ Succeed(h)
    /\ UNCHANGED <<base, tun, entered, noise>>

-----------------------------------------------------------------------------
Request(h) ==
    \E i \in IDs :
        \/ deleteOutbound(h, i)
        \/ \E c \in Choice[i], open \in BOOLEAN :
              LET o == [net |-> c[1], peer |-> c[2], open |-> open]
              IN  addOutbound(h, i, o) \/ updateOutbound(h, i, o)

HandlerStep(h) ==
    \/ GetOutbound(h) \/ DeleteOutboundRoute(h) \/ CheckPeer(h) \/ CheckPeerFails(h)
    \/ Store(h) \/ StoreDeleted(h) \/ Forget(h)
    \/ StartTun(h) \/ StartTunFails(h) \/ addOutboundRoute(h)

Next ==
    \/ loadOutbounds \/ Serve \/ Stop
    \/ \E i \in IDs : StartOutbound(i) \/ StartOutboundFails(i)
    \/ \E h \in Handlers : Request(h) \/ HandlerStep(h)

Spec == Init /\ [][Next]_vars

-----------------------------------------------------------------------------
\* The dialer for the traffic to an address: what router.get finds.
DialContext(a) == {r.dialer : r \in {s \in routes : Router!Covers(s, a)}}

\* No request is being served, and none since the start was disturbed.
Quiet == proc = "up" /\ noise = 0 /\ \A h \in Handlers : ~Active(h)

\* Networks of different outbounds were apart since the start.
Unmixed == \A x, y \in entered : x[1] # y[1] => Router!Apart(x[2], y[2])

\* Traffic goes where an outbound that is open sends it, and nowhere else: after
\* requests one at a time, with whatever errors of peers, TUN stack, system
\* routes and saves of additions and updates, and with networks that overlap or
\* are the same, no route of a closed, changed or deleted outbound is left in
\* the router.  A restart makes it true again after any requests at all.
DialsOwner ==
    Quiet => \A a \in Addr : \A d \in DialContext(a) :
                 \E i \in IDs : /\ Open(outbounds[i])
                                /\ Router!Covers(outbounds[i].net, a)
                                /\ outbounds[i].peer = d

\* The system routes a network to the TUN device only for an outbound that is
\* open.  Two things leave a route behind: deleting an outbound, and a removal
\* that fails when it is closed or changed, whose error nobody sees.
SysRoutesOwned ==
    Quiet =>
        \A n \in sys \ leftover :
            \E i \in IDs : /\ <<i, n>> \in entered
                          /\ \/ outbounds[i] = Nil
                             \/ outbounds[i].open /\ outbounds[i].net = n

\* An outbound that is open and was acknowledged, now or before a restart, has
\* its route, with its own dialer.  (After an error it may be open without one.)
AckedRouted ==
    Quiet /\ Unmixed =>
        \A i \in IDs : Open(outbounds[i]) /\ ack[i] # Unsure => RouteOf(outbounds[i]) \in routes

\* What was acknowledged is in the database, also while other requests, about
\* other outbounds, are served, fail or are cut off by the end of the process;
\* at most Start has closed the outbound.
AckedDurable ==
    \A i \in IDs : ack[i] # Unsure => db[i] = ack[i] \/ (ack[i] # Nil /\ db[i] = Closed(ack[i]))
=============================================================================
