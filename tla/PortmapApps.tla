----------------------------- MODULE PortmapApps -----------------------------
(***************************************************************************)
(* The portmap applications of a gateway: the HTTP handlers addApp,        *)
(* updateApp and deleteApp of gateway/gateway.go, the application table of *)
(* gateway/portmap_app.go with its copy in leveldb, the relay listeners of *)
(* portmap/portmap.go that serve the applications, and the start of the    *)
(* gateway, which opens the listeners of the running applications again.   *)
(*                                                                         *)
(* An application is reduced to the endpoint it listens on (network, local *)
(* address and port) and to its Running flag.  Whether its peer authorizes *)
(* the resource is the peer's choice.                                      *)
(***************************************************************************)
CONSTANTS
    Handlers,   \* HTTP requests served at the same time
    IDs,        \* the random IDs of applications
    Nil,        \* no application, no request
    AnyPort,    \* the endpoint with port 0
    Endpoints,  \* the endpoints that can be bound
    PortOf,     \* the network and the port of an endpoint, without its address
    Choice      \* for each application, the settings its user may enter

ASSUME NamesAssumption == AnyPort \notin Endpoints
ASSUME PortAssumption ==
    /\ DOMAIN PortOf = Endpoints \cup {AnyPort}
    /\ \A e \in Endpoints : PortOf[e] # PortOf[AnyPort]

App == [ep : Endpoints \cup {AnyPort}, running : BOOLEAN]

ASSUME ChoiceAssumption == Choice \in [IDs -> SUBSET App]

Table == [IDs -> App \cup {Nil}]
Empty == [i \in IDs |-> Nil]

Job == [op : {"add", "update", "delete"}, id : IDs, app : App \cup {Nil},
        old : App \cup {Nil}, sock : Endpoints \cup {Nil}]

ASSUME NilAssumption == Nil \notin App

VARIABLES
    proc,       \* the gateway process: "down", "boot" (Run) or "up" (serving)
    todo,       \* the applications Run has not started yet
    apps,       \* PortmapAppMgr.apps
    db,         \* its copy in the database
    listeners,  \* the endpoints in Portmap.listeners
    bound,      \* the endpoints whose socket the process holds
    pc,         \* where each handler is
    job,        \* its request: what it does (op) to which application (id), the
                \* application as the request has it (app) and as it was found
                \* (old), and the endpoint of the listener at hand (sock), the
                \* last two only as long as they are needed
    known,      \* the IDs of the applications stored so far
    ack,        \* what the last acknowledged request did to each application, if
                \* no other request was at work on it
    calm        \* since the start of the process requests came one at a time, and
                \* the applications kept endpoints of their own

vars == <<proc, todo, apps, db, listeners, bound, pc, job, known, ack, calm>>

TypeOK ==
    /\ proc \in {"down", "boot", "up"}
    /\ todo \subseteq IDs
    /\ apps \in Table
    /\ db \in Table
    /\ listeners \subseteq Endpoints
    /\ bound \subseteq Endpoints
    /\ pc \in [Handlers -> {"idle", "delete", "add", "register", "save"}]
    /\ job \in [Handlers -> Job \cup {Nil}]
    /\ known \subseteq IDs
    /\ ack \in [IDs -> {"none", "added", "deleted"}]
    /\ calm \in BOOLEAN

Init ==
    /\ proc = "down"
    /\ todo = {}
    /\ apps = Empty
    /\ db = Empty
    /\ listeners = {}
    /\ bound = {}
    /\ pc = [h \in Handlers |-> "idle"]
    /\ job = [h \in Handlers |-> Nil]
    /\ known = {}
    /\ ack = [i \in IDs |-> "none"]
    /\ calm = TRUE

Running(a) == a # Nil /\ a.running
Stopped(a) == [a EXCEPT !.running = FALSE]
\* No two applications are on one endpoint, and none that runs is on port 0.
OwnEndpoints(t) == \A i, j \in IDs : Running(t[i]) /\ t[j] # Nil =>
                   (i = j \/ t[i].ep # t[j].ep) /\ t[i].ep # AnyPort

Goto(h, l) == pc' = [pc EXCEPT ![h] = l]

\* The handler answers its request.
Return(h) == Goto(h, "idle") /\ job' = [job EXCEPT ![h] = Nil]

-----------------------------------------------------------------------------
(* Portmap.listeners and the sockets.                                       *)

\* net.Listen (external): the endpoint, or any free one for port 0.
CanBind(ep, e) == e \in Endpoints \ bound /\ (e = ep \/ ep = AnyPort)

\* AddListener holds connMtx for reading from its lookup to its store, and
\* DeleteListener waits for it.
ConnMtxFree == \A h \in Handlers : pc[h] # "register"

DeleteListener(ep) ==
    /\ ConnMtxFree
    /\ listeners' = listeners \ {ep}
    /\ bound' = bound \ (listeners \cap {ep})

\* PortmapAppMgr, under its mutex: the table is changed, then saved as a
\* whole.  The save may fail; the table stays changed.
Save(t, ok) == apps' = t /\ db' = IF ok THEN t ELSE db

-----------------------------------------------------------------------------
(* Run: load the table and start the applications that were running.        *)

LoadPortmapApps ==
    /\ proc = "down"
    /\ proc' = "boot"
    /\ apps' = db
    /\ todo' = {i \in IDs : Running(db[i])}
    /\ calm' = OwnEndpoints(db)
    /\ UNCHANGED <<db, listeners, bound, pc, job, known, ack>>

\* Faulty variant: the listener is not opened again.
BootNothing(i) ==
    /\ proc = "boot"
    /\ i \in todo
    /\ todo' = todo \ {i}
    /\ UNCHANGED <<proc, apps, db, listeners, bound, pc, job, known, ack, calm>>

\* AddListener succeeds: the listener is there, or its socket can be bound.
BootListen(i) ==
    /\ proc = "boot"
    /\ i \in todo
    /\ \/ apps[i].ep \in listeners /\ UNCHANGED <<listeners, bound>>
       \/ /\ apps[i].ep \notin listeners
          /\ \E e \in Endpoints :
                /\ CanBind(apps[i].ep, e)
                /\ bound' = bound \cup {e}
                /\ listeners' = listeners \cup {e}
    /\ todo' = todo \ {i}
    /\ UNCHANGED <<proc, apps, db, pc, job, known, ack, calm>>

\* It fails: the application is stored as stopped.
BootListenFails(i) ==
    /\ proc = "boot"
    /\ i \in todo
    /\ apps[i].ep \notin listeners
    /\ \E ok \in BOOLEAN : Save([apps EXCEPT ![i] = Stopped(@)], ok)
    /\ todo' = todo \ {i}
    /\ UNCHANGED <<proc, listeners, bound, pc, job, known, ack, calm>>

Serve ==
    /\ proc = "boot"
    /\ todo = {}
    /\ proc' = "up"
    /\ UNCHANGED <<todo, apps, db, listeners, bound, pc, job, known, ack, calm>>

\* The process dies, or leaves after Stop; nothing but the database remains.
Crash ==
    /\ proc # "down"
    /\ proc' = "down"
    /\ todo' = {}
    /\ apps' = Empty
    /\ listeners' = {}
    /\ bound' = {}
    /\ pc' = [h \in Handlers |-> "idle"]
    /\ job' = [h \in Handlers |-> Nil]
    /\ calm' = TRUE
    /\ UNCHANGED <<db, known, ack>>

-----------------------------------------------------------------------------
(* The handlers.                                                            *)

\* A request arrives: operation o on application i, found in the table as old,
\* to be stored as a.
Begin(h, o, i, a, old, l) ==
    /\ proc = "up"
    /\ pc[h] = "idle"
    /\ job' = [job EXCEPT ![h] = [op |-> o, id |-> i, app |-> a, old |-> old, sock |-> Nil]]
    /\ Goto(h, l)
    /\ calm' = (calm /\ \A g \in Handlers : pc[g] = "idle")
    /\ UNCHANGED <<proc, todo, apps, db, listeners, bound, known>>

\* The peer authorizes the resource; a request it refuses changes nothing.  The
\* ID is drawn after the authorization.
addApp(h, i, a) ==
    /\ i \notin known
    /\ \A g \in Handlers : pc[g] # "idle" => job[g].id # i
    /\ Begin(h, "add", i, a, Nil, "add")
    /\ UNCHANGED ack

\* GetPortmapApp: the update of an application that is not there changes
\* nothing, its delete goes on.
updateApp(h, i, a) ==
    /\ apps[i] # Nil
    /\ Begin(h, "update", i, a, apps[i], "delete")
    /\ UNCHANGED ack

deleteApp(h, i) ==
    /\ i \in known
    /\ Begin(h, "delete", i, Nil, apps[i], "delete")
    /\ ack' = [ack EXCEPT ![i] = IF @ = "deleted" THEN @ ELSE "none"]

\* An update that names another peer or resource is authorized after
\* GetPortmapApp, and may be refused.
Refused(h) ==
    /\ pc[h] = "delete"
    /\ job[h].op = "update"
    /\ Return(h)
    /\ UNCHANGED <<proc, todo, apps, db, listeners, bound, known, ack, calm>>

\* Faulty variant: the listener of the new configuration is removed.
RemoveNewListener(h) ==
    /\ pc[h] = "delete"
    /\ IF Running(job[h].old) /\ job[h].app # Nil THEN DeleteListener(job[h].app.ep)
                                                  ELSE UNCHANGED <<listeners, bound>>
    /\ job' = [job EXCEPT ![h].old = Nil]
    /\ Goto(h, IF job[h].op = "delete" THEN "save" ELSE "add")
    /\ UNCHANGED <<proc, todo, apps, db, known, ack, calm>>

\* Remove the listener of the application as it was.
RemoveListener(h) ==
    /\ pc[h] = "delete"
    /\ IF Running(job[h].old) THEN DeleteListener(job[h].old.ep)
                              ELSE UNCHANGED <<listeners, bound>>
    /\ job' = [job EXCEPT ![h].old = Nil]
    /\ Goto(h, IF job[h].op = "delete" THEN "save" ELSE "add")
    /\ UNCHANGED <<proc, todo, apps, db, known, ack, calm>>

\* AddListener, if the application is to run: an existing listener is used,
\* else a socket is bound.
Listen(h) ==
    /\ pc[h] = "add"
    /\ Running(job[h].app)
    /\ \/ /\ job[h].app.ep \in listeners
          /\ job' = [job EXCEPT ![h].sock = job[h].app.ep]
          /\ UNCHANGED bound
       \/ /\ job[h].app.ep \notin listeners
          /\ \E e \in Endpoints :
                /\ CanBind(job[h].app.ep, e)
                /\ bound' = bound \cup {e}
                /\ job' = [job EXCEPT ![h].sock = e]
    /\ Goto(h, "register")
    /\ UNCHANGED <<proc, todo, apps, db, listeners, known, ack, calm>>

\* The socket cannot be bound: the application will not run.
ListenFails(h) ==
    /\ pc[h] = "add"
    /\ Running(job[h].app)
    /\ job[h].app.ep \notin listeners
    /\ job' = [job EXCEPT ![h].app = Stopped(@)]
    /\ Goto(h, "save")
    /\ UNCHANGED <<proc, todo, apps, db, listeners, bound, known, ack, calm>>

SkipListen(h) ==
    /\ pc[h] = "add"
    /\ ~Running(job[h].app)
    /\ Goto(h, "save")
    /\ UNCHANGED <<proc, todo, apps, db, listeners, bound, job, known, ack, calm>>

\* Faulty variant: a new listener is not stored in the map.
RegisterNothing(h) ==
    /\ pc[h] = "register"
    /\ Goto(h, "save")
    /\ UNCHANGED <<proc, todo, apps, db, listeners, bound, job, known, ack, calm>>

Register(h) ==
    /\ pc[h] = "register"
    /\ listeners' = listeners \cup {job[h].sock}
    /\ job' = [job EXCEPT ![h].sock = Nil]
    /\ Goto(h, "save")
    /\ UNCHANGED <<proc, todo, apps, db, bound, known, ack, calm>>

Acknowledge(h, ok) ==
    LET alone == \A g \in Handlers \ {h} : pc[g] = "idle" \/ job[g].id # job[h].id
    IN  /\ ack' = [ack EXCEPT ![job[h].id] =
                        CASE ok /\ alone /\ job[h].op = "add"    -> "added"
                          [] ok /\ alone /\ job[h].op = "delete" -> "deleted"
                          [] OTHER                               -> @]
        /\ calm' = (calm /\ OwnEndpoints(apps'))

\* Faulty variant: the table is changed in memory only.
StoreUnsaved(h) ==
    /\ pc[h] = "save"
    /\ \E ok \in BOOLEAN :
          /\ apps' = [apps EXCEPT ![job[h].id] = job[h].app]
          /\ Acknowledge(h, ok)
    /\ known' = known \cup {job[h].id}
    /\ Return(h)
    /\ UNCHANGED <<proc, todo, db, listeners, bound>>

\* UpdatePortmapApp or DelPortmapApp, and the answer.
Store(h) ==
    /\ pc[h] = "save"
    /\ \E ok \in BOOLEAN :
          /\ Save([apps EXCEPT ![job[h].id] = job[h].app], ok)
          /\ Acknowledge(h, ok)
    /\ known' = known \cup {job[h].id}
    /\ Return(h)
    /\ UNCHANGED <<proc, todo, listeners, bound>>

-----------------------------------------------------------------------------
HandlerStep(h) ==
    \/ \E i \in IDs :
          \/ deleteApp(h, i)
          \/ \E a \in Choice[i] : addApp(h, i, a) \/ updateApp(h, i, a)
    \/ Refused(h) \/ RemoveListener(h)
    \/ Listen(h) \/ ListenFails(h) \/ SkipListen(h) \/ Register(h) \/ Store(h)

Next ==
    \/ LoadPortmapApps \/ Serve \/ Crash
    \/ \E i \in IDs : BootListen(i) \/ BootListenFails(i)
    \/ \E h \in Handlers : HandlerStep(h)

Spec == Init /\ [][Next]_vars

-----------------------------------------------------------------------------
\* FindAppWithPort, with which a relay asks whom a connection is for: it takes
\* any application of the network and the port, on whatever local address,
\* running or not.
FindAppWithPort(e) == {i \in IDs : apps[i] # Nil /\ PortOf[apps[i].ep] = PortOf[e]}

Served == \A i \in IDs : Running(apps[i]) => apps[i].ep \in listeners

Wanted == \A e \in listeners : \E i \in IDs : Running(apps[i]) /\ apps[i].ep = e

\* No application has the port of one that runs, on this address or another.
OwnPorts == \A i, j \in IDs : Running(apps[i]) /\ apps[j] # Nil /\ i # j =>
                PortOf[apps[i].ep] # PortOf[apps[j].ep]

\* A connection to a listener finds an application, and only one that listens
\* there.
Directed == \A e \in listeners :
    FindAppWithPort(e) # {} /\ \A i \in FindAppWithPort(e) : Running(apps[i]) /\ apps[i].ep = e

Quiet == proc = "up" /\ \A h \in Handlers : pc[h] = "idle"

\* As long as requests come one at a time and the applications have endpoints of
\* their own: when no request is being served, every application that is shown
\* as running has its listener ("if the application is set to run, add a
\* listener", addApp), and no listener outlives its application ("if the running
\* state changes, update the listener", updateApp).  A connection is for the
\* application that listens where it was accepted only if the applications
\* differ in their ports: two on one port of two addresses are confused
\* (FindAppWithPort).
ListenersAgree == calm /\ Quiet => Served /\ Wanted /\ (OwnPorts => Directed)

\* No socket is lost: each one the process holds is in the map, or about to be
\* stored there by the AddListener that has opened it.
SocketsRegistered ==
    /\ listeners \subseteq bound
    /\ \A e \in bound : e \in listeners \/ \E h \in Handlers : pc[h] = "register" /\ job[h].sock = e

\* An acknowledged request survives a restart: what was added is in the table,
\* what was deleted is not (savePortmap, LoadPortmapApps).
AckedSurvives ==
    proc # "down" => \A i \in IDs : /\ ack[i] = "added" => apps[i] # Nil
                                    /\ ack[i] = "deleted" => apps[i] = Nil

\* A restart repairs what requests served at the same time have left behind:
\* Run leaves exactly the listeners of the running applications, provided that
\* these have endpoints of their own, and connections find them if they have
\* ports of their own.
RestartRepairs ==
    [][proc = "boot" /\ proc' = "up" =>
        (OwnEndpoints(apps) => Served /\ Wanted /\ (OwnPorts => Directed))']_vars
=============================================================================
