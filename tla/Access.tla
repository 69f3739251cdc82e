------------------------------- MODULE Access -------------------------------
(***************************************************************************)
(* What the gateway of gateway/gateway.go keeps for its administrator and  *)
(* for its peers: login sessions, the access token, the resources that     *)
(* peers may map (portmap_resource.go) with the answers to their requests  *)
(* (authorize.go), and the configuration of the proxy service              *)
(* (proxy_service.go).                                                     *)
(*                                                                         *)
(* Every HTTP request and every stream has a handler of its own.  A        *)
(* handler takes its steps between those of the others; each step is one   *)
(* call that holds a mutex or reaches the database.  The process may end   *)
(* at any time and is started again (Run).                                 *)
(*                                                                         *)
(* Whether a password matches is a choice, and so is the outcome of a save.*)
(***************************************************************************)
EXTENDS Naturals, FiniteSets

CONSTANTS
    Handlers,   \* the handlers that run at once
    Sessions,   \* the session tokens (uuids)
    Tokens,     \* the values of rand.Uint64() for the access token, 0 included
    IDs,        \* the IDs of resources, drawn at random
    Configs,    \* configurations of the proxy service
    NoConfig,   \* the zero value of the configuration
    Trial,      \* Gateway.trial
    TrialID,    \* 666666, the resource that a gateway on trial always has
    None        \* nothing

ASSUME TokenAssumption == 0 \in Tokens /\ None \notin Tokens
ASSUME IDAssumption == IDs \subseteq Nat \ {0, TrialID} /\ Trial \in BOOLEAN
ASSUME ConfigAssumption == NoConfig \in Configs

VARIABLES
    up,         \* the process runs
    sessions,   \* Gateway.sessions
    timers,     \* the sessions whose AfterFunc has not run yet
    token,      \* the access token in the database, or None
    drawn,      \* two handlers drew a token at the same time
    told,       \* until then, the tokens other than 0 that getGatewayInfo has answered
    res, resDb,             \* the resources, in memory and in the database
    added, gone,            \* the resources that were added, and deleted, for certain
    cfg, cfgDb, outbound,   \* the configuration, as saved, and as SetOutboundProxy has it
    torn,       \* an update of the configuration failed or met another one
    job         \* what each handler is about to do

process == <<up, sessions, timers>>
tokenVars == <<token, told, drawn>>
resVars == <<res, resDb, added, gone>>
cfgVars == <<cfg, cfgDb, outbound, torn>>
vars == <<process, tokenVars, resVars, cfgVars, job>>

Job(at, arg) == [at |-> at, arg |-> arg]
Idle == Job("idle", None)
Jobs == {Idle}
        \cup {Job(at, by) : at \in {"draw", "redraw"}, by \in {"info", "peer"}}
        \cup {Job(at, id) : at \in {"update", "delete"}, id \in IDs}
        \cup {Job("outbound", c) : c \in Configs}

TypeOK ==
    /\ up \in BOOLEAN /\ drawn \in BOOLEAN /\ torn \in BOOLEAN
    /\ sessions \subseteq timers /\ timers \subseteq Sessions
    /\ token \in Tokens \cup {None} /\ told \subseteq Tokens \ {0}
    /\ \A s \in {res, resDb, added, gone} : s \subseteq IDs
    /\ \A c \in {cfg, cfgDb, outbound} : c \in Configs
    /\ job \in [Handlers -> Jobs]

Init ==
    /\ up = FALSE /\ sessions = {} /\ timers = {}
    /\ token = None /\ told = {} /\ drawn = FALSE
    /\ res = {} /\ resDb = {} /\ added = {} /\ gone = {}
    /\ cfg = NoConfig /\ cfgDb = NoConfig /\ outbound = NoConfig /\ torn = FALSE
    /\ job = [h \in Handlers |-> Idle]

Free(h) == up /\ job[h] = Idle
Goto(h, j) == job' = [job EXCEPT ![h] = j]
Others(h, ats) == {g \in Handlers \ {h} : job[g].at \in ats}

-----------------------------------------------------------------------------
(* The process.                                                             *)

loadRes == res' = resDb
loadConfig == cfg' = cfgDb

\* Run loads the resources and the configuration before anything is served.
Run ==
    /\ ~up
    /\ up' = TRUE
    /\ loadRes
    /\ loadConfig
    /\ outbound' = cfg'
    /\ UNCHANGED <<sessions, timers, tokenVars, resDb, added, gone, cfgDb, torn, job>>

\* The process ends: what is in memory is lost, the requests under way too.
Crash ==
    /\ up
    /\ up' = FALSE
    /\ sessions' = {} /\ timers' = {}
    /\ res' = {} /\ cfg' = NoConfig /\ outbound' = NoConfig /\ torn' = FALSE
    /\ job' = [h \in Handlers |-> Idle]
    /\ UNCHANGED <<tokenVars, resDb, added, gone, cfgDb>>

-----------------------------------------------------------------------------
(* Sessions.                                                                *)

\* Faulty variant: the timer of an earlier session is taken for that of all.
handleLoginOneTimer(s) ==
    /\ up /\ s \notin timers
    /\ sessions' = sessions \cup {s}
    /\ timers' = IF timers = {} THEN {s} ELSE timers
    /\ UNCHANGED <<up, tokenVars, resVars, cfgVars, job>>

\* handleLogin finds the password in the database and correct, stores the new
\* session and starts the timer that removes it.
handleLogin(s) ==
    /\ up /\ s \notin timers
    /\ sessions' = sessions \cup {s}
    /\ timers' = timers \cup {s}
    /\ UNCHANGED <<up, tokenVars, resVars, cfgVars, job>>

\* handleLogout with the token in the Authorization header; without the header
\* the cookie is cleared and the session stays.
handleLogout(s) ==
    /\ up /\ s \in sessions
    /\ sessions' = sessions \ {s}
    /\ UNCHANGED <<up, timers, tokenVars, resVars, cfgVars, job>>

\* The function that handleLogin gave to time.AfterFunc runs.
Expire(s) ==
    /\ s \in timers
    /\ sessions' = sessions \ {s}
    /\ timers' = timers \ {s}
    /\ UNCHANGED <<up, tokenVars, resVars, cfgVars, job>>

\* authMiddleware lets a request through that names a session.
Admitted(h) == Free(h) /\ sessions # {}

-----------------------------------------------------------------------------
(* The access token: the administrator asks for it (getGatewayInfo), and     *)
(* peers are compared with it (proxyAuth, handleProxyAuth).                  *)

Tell(ts) == told' = IF drawn' THEN {} ELSE told \cup (ts \ {0})

\* getToken finds a token; getGatewayInfo replaces one that is 0.
getToken(h, by) ==
    /\ IF by = "info" THEN Admitted(h) ELSE Free(h)
    /\ UNCHANGED <<process, token, drawn, resVars, cfgVars>>
    /\ \/ token = None /\ Goto(h, Job("draw", by)) /\ UNCHANGED told
       \/ token = 0 /\ by = "info" /\ Goto(h, Job("redraw", by)) /\ UNCHANGED told
       \/ token \notin {None, 0} /\ by = "info" /\ Tell({token}) /\ UNCHANGED job

\* Faulty variant: the new token is not written to the database.
setTokenUnsaved(h, t) ==
    /\ UNCHANGED token
    /\ drawn' = (drawn \/ Others(h, {"draw", "redraw"}) # {})

setToken(h, t) ==
    /\ token' = t
    /\ drawn' = (drawn \/ Others(h, {"draw", "redraw"}) # {})

\* getToken, or getGatewayInfo for a second time, draws and stores a token.
DrawToken(h, t) ==
    LET j == job[h] IN
    /\ j.at \in {"draw", "redraw"}
    /\ setToken(h, t)
    /\ IF t = 0 /\ j = Job("draw", "info") THEN Goto(h, Job("redraw", "info")) ELSE Goto(h, Idle)
    /\ Tell(IF j.arg = "info" /\ job'[h] = Idle THEN {t} ELSE {})
    /\ UNCHANGED <<process, resVars, cfgVars>>

\* The save fails: the request is answered with the error.
DrawTokenFails(h) ==
    /\ job[h].at \in {"draw", "redraw"}
    /\ Goto(h, Idle)
    /\ UNCHANGED <<process, tokenVars, resVars, cfgVars>>

\* proxyAuth, and handleProxyAuth likewise: the peer has the token t.
proxyAuth(t) == token = t

-----------------------------------------------------------------------------
(* Resources.                                                               *)

\* Faulty variant: the resources are stored only when there is one more.
savePortmapGrown(rs, saved) ==
    /\ res' = rs
    /\ resDb' = IF saved /\ resDb \subseteq rs THEN rs ELSE resDb

\* savePortmap stores all resources, under the mutex that the change holds.
savePortmap(rs, saved) ==
    /\ res' = rs
    /\ resDb' = IF saved THEN rs ELSE resDb

AddPortmapRes(id, saved) == savePortmap(res \cup {id}, saved)
UpdatePortmapRes(id, saved) == savePortmap(res \cup {id}, saved)
DelPortmapApp(id, saved) == savePortmap(res \ {id}, saved)

\* The ID is new.
addResource(h, id) ==
    /\ Admitted(h)
    /\ id \notin res \cup resDb \cup added \cup gone
    /\ \E saved \in BOOLEAN :
          /\ AddPortmapRes(id, saved)
          /\ added' = IF saved THEN added \cup {id} ELSE added
    /\ UNCHANGED <<process, tokenVars, gone, cfgVars, job>>

\* updateResource and deleteResource: GetAppByID finds the resource.
GetAppByID(h, id, at) ==
    /\ Admitted(h)
    /\ id \in res
    /\ Goto(h, Job(at, id))
    /\ UNCHANGED <<process, tokenVars, resVars, cfgVars>>

\* UpdatePortmapRes stores the resource, whether or not it is still there.
updateResource(h) ==
    /\ job[h].at = "update"
    /\ \E saved \in BOOLEAN : UpdatePortmapRes(job[h].arg, saved)
    /\ Goto(h, Idle)
    /\ UNCHANGED <<process, tokenVars, added, gone, cfgVars>>

\* DelPortmapApp.  When the save fails the resource is back after a restart; an
\* update that found the resource before it was deleted brings it back.
deleteResource(h) ==
    LET id == job[h].arg
        alone == \A g \in Handlers : job[g] # Job("update", id)
    IN
    /\ job[h].at = "delete"
    /\ \E saved \in BOOLEAN :
          /\ DelPortmapApp(id, saved)
          /\ gone' = IF saved /\ alone THEN gone \cup {id} ELSE gone
    /\ added' = added \ {id}
    /\ Goto(h, Idle)
    /\ UNCHANGED <<process, tokenVars, cfgVars>>

\* handlePortmapAuth compares the ID it was asked for with that of the resource
\* it found, which is 0 when there is none.
Authorized(id) == (Trial /\ id = TrialID) \/ (IF id \in res THEN id ELSE 0) = id

\* handlePortmapHandshake refuses a resource whose ID is 0.
Resolves(id) == (Trial /\ id = TrialID) \/ (IF id \in res THEN id ELSE 0) # 0

-----------------------------------------------------------------------------
(* The configuration of the proxy service.                                  *)

Updating == {h \in Handlers : job[h].at = "outbound"}

\* set changes the configuration and saves it, under the mutex.
set(c, saved) ==
    /\ cfg' = c
    /\ cfgDb' = IF saved THEN c ELSE cfgDb

\* When the save fails the answer is an error, and SetOutboundProxy is not called.
updateProxyConfig(h, c) ==
    /\ Admitted(h)
    /\ \E saved \in BOOLEAN :
          /\ set(c, saved)
          /\ Goto(h, IF saved THEN Job("outbound", c) ELSE Idle)
          /\ torn' = (~saved \/ Updating # {})
    /\ UNCHANGED <<process, tokenVars, resVars, outbound>>

\* Faulty variant: an outbound proxy that is set is never taken away.
SetOutboundOnly(h) ==
    /\ job[h].at = "outbound"
    /\ outbound' = IF job[h].arg = NoConfig THEN outbound ELSE job[h].arg
    /\ Goto(h, Idle)
    /\ UNCHANGED <<process, tokenVars, resVars, cfg, cfgDb, torn>>

SetOutboundProxy(h) ==
    /\ job[h].at = "outbound"
    /\ outbound' = job[h].arg
    /\ Goto(h, Idle)
    /\ UNCHANGED <<process, tokenVars, resVars, cfg, cfgDb, torn>>

-----------------------------------------------------------------------------
HandlerStep(h) ==
    \/ DrawTokenFails(h) \/ updateResource(h) \/ deleteResource(h)
    \/ SetOutboundProxy(h)
    \/ \E by \in {"info", "peer"} : getToken(h, by)
    \/ \E t \in Tokens : DrawToken(h, t)
    \/ \E id \in IDs : addResource(h, id) \/ GetAppByID(h, id, "update") \/ GetAppByID(h, id, "delete")
    \/ \E c \in Configs : updateProxyConfig(h, c)

Next ==
    \/ Run \/ Crash
    \/ \E s \in Sessions : handleLogin(s) \/ handleLogout(s) \/ Expire(s)
    \/ \E h \in Handlers : HandlerStep(h)

\* A timer that was started runs its function, as long as the process lives.
Fairness == \A s \in Sessions : WF_vars(Expire(s))

Spec == Init /\ [][Next]_vars /\ Fairness

-----------------------------------------------------------------------------
\* No session lasts for ever, however many others are opened, closed by a logout
\* and expire meanwhile: every login starts a timer of its own, which removes its
\* own session only (handleLogin, handleLogout).
SessionEnds == \A s \in Sessions : s \in sessions ~> s \notin sessions

\* A token that the administrator was shown, and has given to peers, is the one
\* that peers are compared with, over failed saves and restarts, unless two
\* requests drew one at once (getToken, getGatewayInfo).
TokenKept == ~drawn => \A t \in told : proxyAuth(t)

\* A resource whose addition was acknowledged is authorized and resolved until
\* its deletion is asked for; one whose deletion was acknowledged, with no update
\* under way, is neither, over failed saves of others and restarts.
AckedServed ==
    /\ up => \A id \in added : Authorized(id) /\ Resolves(id)
    /\ up => \A id \in gone : ~Authorized(id) /\ ~Resolves(id)

\* When no update is under way, and the last one was saved and met no other, the
\* proxy dials as the configuration in memory and in the database says.
ConfigAgrees == up /\ ~torn /\ Updating = {} => cfg = outbound /\ cfg = cfgDb
=============================================================================
