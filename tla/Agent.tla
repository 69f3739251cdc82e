-------------------------------- MODULE Agent --------------------------------
(***************************************************************************)
(* The agent of agent/agent.go and agent/proxy.go: one process with a      *)
(* database, a p2p engine, a port-mapping relay with its applications, and *)
(* a list of proxy gateways.  The user interface calls it, one call at a   *)
(* time.  A call that finds no engine, relay or manager dereferences a nil *)
(* pointer and ends the process (Exit).                                    *)
(*                                                                         *)
(* An application is the endpoint it listens on and its Running flag; a    *)
(* proxy gateway is a model value.  What the peer answers to an            *)
(* authorization, and whether a file, a socket or the database fails, is   *)
(* not the agent's choice.                                                 *)
(***************************************************************************)
EXTENDS Naturals, Sequences, SequencesExt, FiniteSets

CONSTANTS
    IDs,        \* the random IDs of applications
    Endpoints,  \* the endpoints applications listen on
    Gateways,   \* the proxy gateways
    Nil,        \* a nil pointer, no application, no dialer
    MaxProxys,  \* the length of the list of gateways
    MaxEntries  \* how many applications and gateways there are at a time

ASSUME BoundsAssumption == MaxProxys \in Nat \ {0} /\ MaxEntries \in Nat

App == [ep : Endpoints, running : BOOLEAN]
Table == [IDs -> App \cup {Nil}]
Empty == [i \in IDs |-> Nil]
GatewayList == BoundedSeq(Gateways, MaxProxys)

ASSUME NilAssumption == Nil \notin App

VARIABLES
    running,    \* ag.running
    db,         \* the database is open, and ag.db is it
    ds,         \* the DHT's database was opened, which nothing closes
    p2p,        \* ag.p2p is not nil
    alive,      \* an engine was created and is not closed
    pm,         \* ag.pm is not nil
    listeners,  \* the endpoints in its map of listeners
    am,         \* ag.am.apps, Nil without a manager
    proxys,     \* ag.proxyMgr.proxys, Nil without a manager
    handles,    \* the managers ("apps", "proxys") whose database is the open one
    dialer,     \* the gateway that the TUN stack dials
    store,      \* the database: the applications and the gateways saved last
    ack,        \* the applications and gateways whose addition was acknowledged
    unloaded,   \* the managers that went on empty after their load failed
    lost,       \* what the saves of such managers removed from the database
    left,       \* endpoints that running applications were moved away from
    calm        \* every load succeeded, and the applications kept ports of their own

vars == <<running, db, ds, p2p, alive, pm, listeners, am, proxys, handles, dialer, store, ack,
          unloaded, lost, left, calm>>
history == <<ack, unloaded, lost>>
engine == <<running, db, ds, p2p, alive, pm, handles>>

TypeOK ==
    /\ running \in BOOLEAN /\ db \in BOOLEAN /\ pm \in BOOLEAN /\ calm \in BOOLEAN
    /\ ds \in BOOLEAN /\ p2p \in BOOLEAN /\ alive \in BOOLEAN
    /\ listeners \subseteq Endpoints /\ left \subseteq Endpoints
    /\ am \in Table \cup {Nil}
    /\ proxys \in GatewayList \cup {Nil}
    /\ handles \subseteq {"apps", "proxys"}
    /\ dialer \in Gateways \cup {Nil}
    /\ store \in [apps : Table, proxys : GatewayList]
    /\ unloaded \subseteq {"apps", "proxys"}
    /\ ack \in [apps : SUBSET IDs, proxys : SUBSET Gateways]
    /\ lost \in [apps : SUBSET IDs, proxys : SUBSET Gateways]

Init ==
    /\ running = FALSE /\ db = FALSE /\ pm = FALSE
    /\ ds = FALSE /\ p2p = FALSE /\ alive = FALSE
    /\ listeners = {} /\ left = {}
    /\ am = Nil /\ proxys = Nil /\ handles = {} /\ dialer = Nil
    /\ store = [apps |-> Empty, proxys |-> <<>>]
    /\ ack = [apps |-> {}, proxys |-> {}]
    /\ lost = [apps |-> {}, proxys |-> {}]
    /\ unloaded = {}
    /\ calm = TRUE

\* The user may add one more.
Room ==
    LET apps == {i \in IDs : am # Nil /\ am[i] # Nil}
        list == IF proxys = Nil THEN 0 ELSE Len(proxys)
    IN  Cardinality(apps) + list < MaxEntries

Running(a) == a # Nil /\ a.running
Stopped(a) == [a EXCEPT !.running = FALSE]

\* No application has the endpoint of one that runs.
OwnPorts(t) == \A i, j \in IDs : Running(t[i]) /\ t[j] # Nil /\ i # j => t[i].ep # t[j].ep

-----------------------------------------------------------------------------
(* start and close.                                                         *)

\* leveldb.OpenFile (external) takes a lock that another open database holds.
OpenFile == ~db

\* OpenFile succeeds; the uuid file or NewP2PEngine fails, before or after it
\* opened the DHT's database.  Nothing is closed.
StartFails ==
    /\ ~running
    /\ OpenFile
    /\ db' = TRUE
    /\ ds' \in {ds, TRUE}
    /\ p2p' = FALSE
    /\ UNCHANGED <<running, alive, pm, listeners, am, proxys, handles, dialer, store, history, left, calm>>

\* The DHT's database is locked while it is open, so that a process gets no
\* second engine.
NewP2PEngine ==
    /\ ~ds
    /\ ds' = TRUE
    /\ p2p' = TRUE
    /\ alive' = TRUE

\* The stored table with some of its applications stopped.
StopAll(those) == [i \in IDs |-> IF i \in those THEN Stopped(store.apps[i]) ELSE store.apps[i]]

\* startPortmap: the table is loaded, and the running applications get their
\* listeners; one whose listener cannot be opened is stopped and the table is
\* saved, once for each of them: the last save that succeeds leaves those that
\* were stopped until then.
startPortmap(failed) ==
    /\ am' = StopAll(failed)
    /\ pm' = TRUE
    /\ listeners' = {am'[i].ep : i \in {j \in IDs : Running(am'[j])}}
    /\ \E saved \in SUBSET failed : store' = [store EXCEPT !.apps = StopAll(saved)]

\* The table cannot be loaded: the error is dropped, the manager is empty and
\* there is no relay.
startPortmapFails == am' = Empty /\ UNCHANGED <<pm, listeners, store>>

loadProxys(ok) == proxys' = IF ok THEN store.proxys ELSE <<>>

\* With or without portmap, and with the list of gateways loaded or not:
\* without it the start fails with everything open and an empty list.
start(withPortmap, appsOk, proxysOk) ==
    /\ ~running
    /\ OpenFile
    /\ db' = TRUE
    /\ NewP2PEngine
    /\ \/ /\ withPortmap /\ appsOk
          /\ \E failed \in SUBSET {i \in IDs : Running(store.apps[i])} : startPortmap(failed)
       \/ withPortmap /\ ~appsOk /\ startPortmapFails
       \/ ~withPortmap /\ UNCHANGED <<pm, am, listeners, store>>
    /\ loadProxys(proxysOk)
    /\ handles' = {"proxys"} \cup (IF withPortmap THEN {"apps"} ELSE {})
    /\ running' = proxysOk
    /\ left' = {}
    /\ calm' = /\ withPortmap => appsOk /\ OwnPorts(store.apps)
               /\ proxysOk
    /\ unloaded' = (IF proxysOk THEN {} ELSE {"proxys"})
                    \cup (IF withPortmap THEN IF appsOk THEN {} ELSE {"apps"}
                          ELSE unloaded \cap {"apps"})
    /\ UNCHANGED <<dialer, ack, lost>>

\* Faulty variant: the engine is dropped and not closed.
closeKeepsEngine ==
    /\ db' = FALSE /\ pm' = FALSE /\ p2p' = FALSE /\ handles' = {}
    /\ listeners' = IF pm THEN {} ELSE listeners
    /\ UNCHANGED <<running, ds, alive, am, proxys, dialer, store, history, left, calm>>

\* close keeps running, the managers and the dialer.
close ==
    /\ db' = FALSE /\ pm' = FALSE /\ p2p' = FALSE /\ handles' = {}
    /\ alive' = (alive /\ ~p2p)
    /\ listeners' = IF pm THEN {} ELSE listeners
    /\ UNCHANGED <<running, ds, am, proxys, dialer, store, history, left, calm>>

\* The process ends.
Exit ==
    /\ running' = FALSE /\ db' = FALSE /\ pm' = FALSE
    /\ ds' = FALSE /\ p2p' = FALSE /\ alive' = FALSE
    /\ listeners' = {} /\ left' = {}
    /\ am' = Nil /\ proxys' = Nil /\ handles' = {} /\ dialer' = Nil
    /\ calm' = TRUE /\ unloaded' = {}
    /\ UNCHANGED <<store, ack, lost>>

-----------------------------------------------------------------------------
(* Applications.                                                            *)

\* The applications missing from the table that overwrites what could not be
\* loaded.
AppsOverwritten(t) ==
    {i \in IDs : /\ t[i] = Nil
                 /\ i \in lost.apps \/ ("apps" \in unloaded /\ store.apps[i] # Nil)}

\* Faulty variant: the table is not written to the database.
SaveNoApps(t, saved) ==
    /\ saved => "apps" \in handles
    /\ am' = t
    /\ calm' = (calm /\ OwnPorts(t))
    /\ UNCHANGED <<store, lost>>

\* PortmapAppMgr stores the changed table; the save may fail, and does when
\* the manager's database is closed.  The table of a manager that could not
\* load overwrites what is stored.
SaveApps(t, saved) ==
    /\ saved => "apps" \in handles
    /\ am' = t
    /\ store' = IF saved THEN [store EXCEPT !.apps = t] ELSE store
    /\ lost' = IF saved THEN [lost EXCEPT !.apps = AppsOverwritten(t)] ELSE lost
    /\ calm' = (calm /\ OwnPorts(t))

\* AddListener: an existing listener is used, a new one may fail to bind.
AddListener(a, bound) ==
    /\ a.ep \in listeners => bound
    /\ listeners' = IF bound THEN listeners \cup {a.ep} ELSE listeners

\* ResourceAuthorize was answered by the peer.
addApp(i, a) ==
    /\ p2p /\ am # Nil /\ Room
    /\ i \notin ack.apps /\ am[i] = Nil /\ store.apps[i] = Nil
    /\ \E bound, saved \in BOOLEAN :
          /\ IF a.running THEN pm /\ AddListener(a, bound) ELSE bound /\ UNCHANGED listeners
          /\ SaveApps([am EXCEPT ![i] = IF bound THEN a ELSE Stopped(a)], saved)
          /\ ack' = IF saved THEN [ack EXCEPT !.apps = @ \cup {i}] ELSE ack
    /\ UNCHANGED <<engine, proxys, dialer, unloaded, left>>

\* The application found is overwritten with the request before the two are
\* compared, so that the listener of the old endpoint is never deleted.
updateAPP(i, a) ==
    /\ am # Nil /\ pm
    /\ am[i] # Nil
    /\ \E bound, saved \in BOOLEAN :
          /\ IF a.running THEN AddListener(a, bound) ELSE bound /\ listeners' = listeners \ {a.ep}
          /\ SaveApps([am EXCEPT ![i] = IF bound THEN a ELSE Stopped(a)], saved)
    /\ left' = IF Running(am[i]) /\ am[i].ep # a.ep THEN left \cup {am[i].ep} ELSE left
    /\ UNCHANGED <<engine, proxys, dialer, ack, unloaded>>

\* Faulty variant: the listener stays.
delAppKeepsListener(i) ==
    /\ running /\ pm
    /\ \E saved \in BOOLEAN : SaveApps([am EXCEPT ![i] = Nil], saved)
    /\ ack' = [ack EXCEPT !.apps = @ \ {i}]
    /\ UNCHANGED <<engine, listeners, proxys, dialer, unloaded, left>>

\* The user interface passes the application as it is stored.
delApp(i) ==
    /\ running /\ pm
    /\ am[i] # Nil
    /\ listeners' = listeners \ {am[i].ep}
    /\ \E saved \in BOOLEAN : SaveApps([am EXCEPT ![i] = Nil], saved)
    /\ ack' = [ack EXCEPT !.apps = @ \ {i}]
    /\ UNCHANGED <<engine, proxys, dialer, unloaded, left>>

-----------------------------------------------------------------------------
(* Proxy gateways and the TUN stack.                                        *)

\* There is a gateway of this index, counted from 1.
getProxyByIndex(index) == proxys # Nil /\ index <= Len(proxys)

\* The gateways missing from the list that overwrites what could not be loaded.
ProxysOverwritten(l) ==
    {g \in Gateways : /\ ~Contains(l, g)
                      /\ g \in lost.proxys \/ ("proxys" \in unloaded /\ Contains(store.proxys, g))}

\* saveProxys: the list is stored as a whole, or stays changed in memory only.
saveProxys(l, saved) ==
    /\ saved => "proxys" \in handles
    /\ proxys' = l
    /\ store' = IF saved THEN [store EXCEPT !.proxys = l] ELSE store
    /\ lost' = IF saved THEN [lost EXCEPT !.proxys = ProxysOverwritten(l)] ELSE lost

addProxy(g, saved) == saveProxys(Append(proxys, g), saved)
delProxyByIndex(index, saved) == saveProxys(RemoveAt(proxys, index), saved)

\* The gateway has authorized the token.
addProxyGateway(g) ==
    /\ p2p /\ proxys # Nil
    /\ Len(proxys) < MaxProxys /\ Room
    /\ \E saved \in BOOLEAN :
          /\ addProxy(g, saved)
          /\ ack' = IF saved THEN [ack EXCEPT !.proxys = @ \cup {g}] ELSE ack
    /\ UNCHANGED <<engine, listeners, am, dialer, unloaded, left, calm>>

\* Nothing is done past the end of the list.
delProxyGateway(index) ==
    /\ getProxyByIndex(index)
    /\ \E saved \in BOOLEAN : delProxyByIndex(index, saved)
    /\ ack' = [ack EXCEPT !.proxys = @ \ {proxys[index]}]
    /\ UNCHANGED <<engine, listeners, am, dialer, unloaded, left, calm>>

\* startTun2socks succeeds.
startTunProxy(index) ==
    /\ getProxyByIndex(index)
    /\ p2p
    /\ dialer' = proxys[index]
    /\ UNCHANGED <<engine, listeners, am, proxys, store, history, left, calm>>

\* tunstack.Stop does nothing: its flag _running is never set.
stopTunProxy ==
    /\ dialer' = Nil
    /\ UNCHANGED <<engine, listeners, am, proxys, store, history, left, calm>>

-----------------------------------------------------------------------------
Next ==
    \/ StartFails \/ close \/ Exit \/ stopTunProxy
    \/ \E withPortmap, appsOk, proxysOk \in BOOLEAN : start(withPortmap, appsOk, proxysOk)
    \/ \E i \in IDs : delApp(i) \/ \E a \in App : addApp(i, a) \/ updateAPP(i, a)
    \/ \E g \in Gateways : addProxyGateway(g)
    \/ \E index \in 1 .. MaxProxys : delProxyGateway(index) \/ startTunProxy(index)

Spec == Init /\ [][Next]_vars

-----------------------------------------------------------------------------
\* A start may fail half way and be retried, and close may come at any time: an
\* engine that is alive is the one the agent holds and can close, and its agent
\* has its database open (start, close).
EngineOwned == alive => p2p /\ db

\* As long as the applications have ports of their own, an application that is
\* shown as running has its listener, however it came to run (startPortmap,
\* addApp, updateAPP).  The only listeners without a running application are
\* those of endpoints that updateAPP moved an application away from: stopping
\* and deleting leave none.
ListenersAgree ==
    calm /\ pm => /\ \A i \in IDs : Running(am[i]) => am[i].ep \in listeners
                  /\ \A e \in listeners : e \in left \/ \E i \in IDs : Running(am[i]) /\ am[i].ep = e

\* What was added and acknowledged is in the database after any number of
\* failed saves, closes, restarts and loads, until it is deleted, and in the
\* manager that loaded it.  There is one way to lose it: a load fails, start
\* drops the error or leaves everything open (startPortmap, loadProxys), the
\* empty manager goes on, and a later addition saves its table or list over
\* what was stored (lost).  Until that save a restart brings everything back.
AckedKept ==
    /\ \A i \in ack.apps \ lost.apps :
          /\ store.apps[i] # Nil
          /\ "apps" \in handles \ unloaded => am[i] # Nil
    /\ \A g \in ack.proxys \ lost.proxys :
          /\ Contains(store.proxys, g)
          /\ "proxys" \in handles \ unloaded => Contains(proxys, g)
=============================================================================
