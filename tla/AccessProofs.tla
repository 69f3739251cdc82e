----------------------------- MODULE AccessProofs -----------------------------
(***************************************************************************)
(* Proofs of the safety properties of Access, for any number of handlers,  *)
(* sessions, tokens, resources and configurations, with any saves failing  *)
(* and any number of restarts.                                             *)
(***************************************************************************)
EXTENDS Access, TLAPS

\* Requests are served by a process that runs.
JobInv == ~up => \A h \in Handlers : job[h] = Idle

\* A handler that is about to draw a token knows that there is none (or that it
\* is 0), unless two handlers drew at once.
TokenInv ==
    ~drawn => /\ \A h \in Handlers : job[h].at = "draw" => token = None
              /\ \A h \in Handlers : job[h].at = "redraw" => token = 0
              /\ told \subseteq {token}

\* What was added is saved, and in memory while the process runs; what was
\* deleted is neither, and no update of it is under way.
ResInv ==
    /\ added \subseteq resDb /\ gone \cap resDb = {}
    /\ up => added \subseteq res /\ gone \cap res = {}
    /\ \A h \in Handlers : job[h].at = "update" => job[h].arg \notin gone

\* Unless an update failed or met another one, there is at most one, and it is
\* about to make the outbound proxy agree with the configuration.
CfgInv ==
    up /\ ~torn => /\ cfg = cfgDb
                   /\ \A h \in Handlers : job[h].at = "outbound" => job[h].arg = cfg
                   /\ \A g, h \in Handlers :
                          job[g].at = "outbound" /\ job[h].at = "outbound" => g = h
                   /\ (\A h \in Handlers : job[h].at # "outbound") => outbound = cfg

Inv == TypeOK /\ JobInv /\ TokenInv /\ ResInv /\ CfgInv

-----------------------------------------------------------------------------
\* Every handler's job is a record with its two fields.
LEMMA JobFields ==
    ASSUME NEW at, NEW arg
    PROVE  Job(at, arg).at = at /\ Job(at, arg).arg = arg
  BY DEF Job

\* What a handler may be about to do.
LEMMA JobMembers ==
    /\ Idle \in Jobs
    /\ \A at \in {"draw", "redraw"}, by \in {"info", "peer"} : Job(at, by) \in Jobs
    /\ \A at \in {"update", "delete"}, id \in IDs : Job(at, id) \in Jobs
    /\ \A c \in Configs : Job("outbound", c) \in Jobs
  BY DEF Jobs

\* The argument of a job is of the kind that its step needs.
LEMMA JobArg ==
    ASSUME NEW j \in Jobs
    PROVE  /\ j.at \in {"update", "delete"} => j.arg \in IDs
           /\ j.at = "outbound" => j.arg \in Configs
           /\ j.at = "idle" => j = Idle
           /\ j.at \in {"idle", "draw", "redraw", "update", "delete", "outbound"}
  BY DEF Jobs, Job, Idle

-----------------------------------------------------------------------------
(* Type correctness.                                                        *)

LEMMA TypeInit == Init => TypeOK
  <1> SUFFICES ASSUME Init PROVE TypeOK
    OBVIOUS
  <1>1. job \in [Handlers -> Jobs]
    BY JobMembers DEF Init
  <1>2. QED
    BY <1>1, ConfigAssumption DEF Init, TypeOK

\* A handler goes to another of its steps.
LEMMA GotoType ==
    ASSUME TypeOK, NEW h \in Handlers, NEW j \in Jobs, Goto(h, j)
    PROVE  /\ job' \in [Handlers -> Jobs]
           /\ job'[h] = j
           /\ \A g \in Handlers \ {h} : job'[g] = job[g]
  BY DEF TypeOK, Goto

LEMMA TypeStep == TypeOK /\ [Next]_vars => TypeOK'
  <1> SUFFICES ASSUME TypeOK, [Next]_vars PROVE TypeOK'
    OBVIOUS
  <1> USE JobMembers
  <1>1. CASE Run
    BY <1>1 DEF Run, loadRes, loadConfig, TypeOK, tokenVars
  <1>2. CASE Crash
    BY <1>2, ConfigAssumption DEF Crash, TypeOK, tokenVars
  <1>3. ASSUME NEW s \in Sessions, handleLogin(s) \/ handleLogout(s) \/ Expire(s) PROVE TypeOK'
    BY <1>3 DEF handleLogin, handleLogout, Expire, TypeOK, tokenVars, resVars, cfgVars
  <1>4. ASSUME NEW h \in Handlers, HandlerStep(h) PROVE TypeOK'
    <2>1. CASE DrawTokenFails(h)
      <3>1. job' \in [Handlers -> Jobs]
        BY <2>1, GotoType DEF DrawTokenFails
      <3>2. QED
        BY <3>1, <2>1 DEF DrawTokenFails, TypeOK, process, tokenVars, resVars, cfgVars
    <2>2. CASE updateResource(h)
      <3>1. job' \in [Handlers -> Jobs]
        BY <2>2, GotoType DEF updateResource
      <3>2. job[h].arg \in IDs
        BY <2>2, JobArg DEF updateResource, TypeOK
      <3>3. QED
        BY <3>1, <3>2, <2>2 DEF updateResource, UpdatePortmapRes, savePortmap, TypeOK, process, tokenVars, cfgVars
    <2>3. CASE deleteResource(h)
      <3>1. job' \in [Handlers -> Jobs]
        BY <2>3, GotoType DEF deleteResource
      <3>2. job[h].arg \in IDs
        BY <2>3, JobArg DEF deleteResource, TypeOK
      <3>3. QED
        BY <3>1, <3>2, <2>3 DEF deleteResource, DelPortmapApp, savePortmap, TypeOK, process, tokenVars, cfgVars
    <2>4. CASE SetOutboundProxy(h)
      <3>1. job' \in [Handlers -> Jobs]
        BY <2>4, GotoType DEF SetOutboundProxy
      <3>2. job[h].arg \in Configs
        BY <2>4, JobArg DEF SetOutboundProxy, TypeOK
      <3>3. QED
        BY <3>1, <3>2, <2>4 DEF SetOutboundProxy, TypeOK, process, tokenVars, resVars
    <2>5. ASSUME NEW by \in {"info", "peer"}, getToken(h, by) PROVE TypeOK'
      <3>1. job' \in [Handlers -> Jobs]
        BY <2>5, GotoType DEF getToken, TypeOK
      <3>2. QED
        BY <3>1, <2>5 DEF getToken, Tell, TypeOK, process, resVars, cfgVars
    <2>6. ASSUME NEW t \in Tokens, DrawToken(h, t) PROVE TypeOK'
      <3>1. job' \in [Handlers -> Jobs]
        BY <2>6, GotoType DEF DrawToken
      <3>2. QED
        BY <3>1, <2>6 DEF DrawToken, setToken, Tell, TypeOK, process, resVars, cfgVars
    <2>7. ASSUME NEW id \in IDs, addResource(h, id) PROVE TypeOK'
      BY <2>7 DEF addResource, AddPortmapRes, savePortmap, TypeOK, process, tokenVars, cfgVars
    <2>8. ASSUME NEW id \in IDs, NEW at \in {"update", "delete"}, GetAppByID(h, id, at) PROVE TypeOK'
      <3>1. job' \in [Handlers -> Jobs]
        BY <2>8, GotoType DEF GetAppByID
      <3>2. QED
        BY <3>1, <2>8 DEF GetAppByID, TypeOK, process, tokenVars, resVars, cfgVars
    <2>9. ASSUME NEW c \in Configs, updateProxyConfig(h, c) PROVE TypeOK'
      <3>1. job' \in [Handlers -> Jobs]
        BY <2>9, GotoType DEF updateProxyConfig
      <3>2. QED
        BY <3>1, <2>9 DEF updateProxyConfig, set, TypeOK, process, tokenVars, resVars
    <2>10. QED
      BY <1>4, <2>1, <2>2, <2>3, <2>4, <2>5, <2>6, <2>7, <2>8, <2>9 DEF HandlerStep
  <1>5. CASE UNCHANGED vars
    BY <1>5 DEF TypeOK, vars, process, tokenVars, resVars, cfgVars
  <1>6. QED
    BY <1>1, <1>2, <1>3, <1>4, <1>5 DEF Next

-----------------------------------------------------------------------------
(* The invariant.  A step that leaves a part of the state alone keeps the    *)
(* part of the invariant that is about it.                                   *)

LEMMA TokenFrame ==
    ASSUME TokenInv, UNCHANGED tokenVars,
           \A g \in Handlers : job'[g].at \in {"draw", "redraw"} => job'[g] = job[g]
    PROVE  TokenInv'
  BY DEF TokenInv, tokenVars

LEMMA ResFrame ==
    ASSUME ResInv, UNCHANGED <<up, resVars>>,
           \A g \in Handlers : job'[g].at = "update" => job'[g] = job[g]
    PROVE  ResInv'
  BY DEF ResInv, resVars

LEMMA CfgFrame ==
    ASSUME CfgInv, UNCHANGED <<up, cfgVars>>,
           \A g \in Handlers : "outbound" \in {job[g].at, job'[g].at} => job'[g] = job[g]
    PROVE  CfgInv'
  BY DEF CfgInv, cfgVars

\* The steps of a handler that is at work are steps of a process that runs.
LEMMA AtWork ==
    ASSUME TypeOK, JobInv, NEW h \in Handlers, job[h].at # "idle"
    PROVE  up
  BY JobFields DEF JobInv, Idle

LEMMA InvInit == Init => Inv
  <1> SUFFICES ASSUME Init PROVE Inv
    OBVIOUS
  <1>1. TypeOK
    BY TypeInit
  <1>2. JobInv
    BY DEF Init, JobInv
  <1>3. \A h \in Handlers : job[h].at = "idle"
    BY JobFields DEF Init, Idle
  <1>4. TokenInv /\ ResInv /\ CfgInv
    BY <1>3 DEF Init, TokenInv, ResInv, CfgInv
  <1>5. QED
    BY <1>1, <1>2, <1>4 DEF Inv

LEMMA InvStep == Inv /\ [Next]_vars => Inv'
  <1> SUFFICES ASSUME Inv, [Next]_vars PROVE Inv'
    OBVIOUS
  <1>t. TypeOK /\ JobInv /\ TokenInv /\ ResInv /\ CfgInv
    BY DEF Inv
  <1>p. TypeOK'
    BY <1>t, TypeStep
  <1>i. Idle.at = "idle"
    BY JobFields DEF Idle
  <1> SUFFICES JobInv' /\ TokenInv' /\ ResInv' /\ CfgInv'
    BY <1>p DEF Inv
  <1>1. CASE Run
    <2>1. \A h \in Handlers : job'[h] = Idle /\ job[h] = Idle
      BY <1>1, <1>t DEF Run, JobInv
    <2>2. JobInv' /\ TokenInv'
      BY <1>1, <1>t, <2>1, <1>i, TokenFrame DEF Run, JobInv
    <2>3. ResInv'
      BY <1>1, <1>t, <1>i, <2>1 DEF Run, loadRes, ResInv
    <2>4. CfgInv'
      BY <1>1, <1>t, <1>i, <2>1 DEF Run, loadConfig, CfgInv
    <2>5. QED
      BY <2>2, <2>3, <2>4
  <1>2. CASE Crash
    <2>1. \A h \in Handlers : job'[h] = Idle
      BY <1>2 DEF Crash
    <2>2. JobInv' /\ TokenInv'
      BY <1>2, <1>t, <2>1, <1>i, TokenFrame DEF Crash, JobInv
    <2>3. ResInv' /\ CfgInv'
      BY <1>2, <1>t, <1>i, <2>1 DEF Crash, ResInv, CfgInv
    <2>4. QED
      BY <2>2, <2>3
  <1>3. ASSUME NEW s \in Sessions, handleLogin(s) \/ handleLogout(s) \/ Expire(s)
        PROVE  JobInv' /\ TokenInv' /\ ResInv' /\ CfgInv'
    <2>1. UNCHANGED <<up, job, tokenVars, resVars, cfgVars>>
      BY <1>3 DEF handleLogin, handleLogout, Expire
    <2>2. QED
      BY <2>1, <1>t, TokenFrame, ResFrame, CfgFrame DEF JobInv
  <1>4. ASSUME NEW h \in Handlers, HandlerStep(h)
        PROVE  JobInv' /\ TokenInv' /\ ResInv' /\ CfgInv'
    <2>1. CASE DrawTokenFails(h)
      <3>1. up /\ up' = up /\ JobInv'
        BY <1>t, <2>1, AtWork DEF DrawTokenFails, JobInv, process, Free, Admitted
      <3>2. /\ job[h].at # "outbound" /\ job'[h].at = "idle"
            /\ \A g \in Handlers \ {h} : job'[g] = job[g]
        BY <1>t, <1>i, <2>1, GotoType, JobMembers, JobFields DEF DrawTokenFails, Free, Admitted
      <3>3. TokenInv'
        BY <1>t, <2>1, <3>1, <3>2, TokenFrame DEF DrawTokenFails
      <3>4. ResInv'
        BY <1>t, <2>1, <3>1, <3>2, ResFrame DEF DrawTokenFails
      <3>5. CfgInv'
        BY <1>t, <2>1, <3>1, <3>2, CfgFrame DEF DrawTokenFails
      <3>6. QED
        BY <3>1, <3>3, <3>4, <3>5
    <2>2. CASE updateResource(h)
      <3>1. up /\ up' = up /\ JobInv'
        BY <1>t, <2>2, AtWork DEF updateResource, JobInv, process, Free, Admitted
      <3>2. /\ job[h].at = "update" /\ job'[h].at = "idle"
            /\ \A g \in Handlers \ {h} : job'[g] = job[g]
        BY <1>t, <1>i, <2>2, GotoType, JobMembers, JobFields DEF updateResource, Free, Admitted
      <3>3. TokenInv'
        BY <1>t, <2>2, <3>1, <3>2, TokenFrame DEF updateResource
      <3>4. ResInv'
        BY <1>t, <2>2, <3>1, <3>2 DEF updateResource, UpdatePortmapRes, savePortmap, ResInv
      <3>5. CfgInv'
        BY <1>t, <2>2, <3>1, <3>2, CfgFrame DEF updateResource
      <3>6. QED
        BY <3>1, <3>3, <3>4, <3>5
    <2>3. CASE deleteResource(h)
      <3>1. up /\ up' = up /\ JobInv'
        BY <1>t, <2>3, AtWork DEF deleteResource, JobInv, process, Free, Admitted
      <3>2. /\ job[h].at = "delete" /\ job'[h].at = "idle"
            /\ \A g \in Handlers \ {h} : job'[g] = job[g]
        BY <1>t, <1>i, <2>3, GotoType, JobMembers, JobFields DEF deleteResource, Free, Admitted
      <3>3. TokenInv'
        BY <1>t, <2>3, <3>1, <3>2, TokenFrame DEF deleteResource
      <3>4. ResInv'
        <4>1. \A g \in Handlers : job'[g].at = "update" => job'[g] = job[g]
          BY <3>2
        <4>2. job[h].arg \in gone' => \/ job[h].arg \in gone
                                      \/ \A g \in Handlers : job[g] # Job("update", job[h].arg)
          BY <2>3 DEF deleteResource
        <4>3. \A g \in Handlers : job[g].at = "update" => job[g] = Job("update", job[g].arg)
          BY <1>t, JobFields DEF TypeOK, Jobs, Idle, Job
        <4>4. \A g \in Handlers : job'[g].at = "update" => job'[g].arg \notin gone'
          BY <1>t, <2>3, <4>1, <4>2, <4>3 DEF deleteResource, ResInv
        <4>5. added' \subseteq resDb' /\ gone' \cap resDb' = {} /\ added' \subseteq res' /\ gone' \cap res' = {}
          BY <1>t, <2>3, <3>1 DEF deleteResource, DelPortmapApp, savePortmap, ResInv
        <4>6. QED
          BY <4>4, <4>5 DEF ResInv
      <3>5. CfgInv'
        BY <1>t, <2>3, <3>1, <3>2, CfgFrame DEF deleteResource
      <3>6. QED
        BY <3>1, <3>3, <3>4, <3>5
    <2>4. CASE SetOutboundProxy(h)
      <3>1. up /\ up' = up /\ JobInv'
        BY <1>t, <2>4, AtWork DEF SetOutboundProxy, JobInv, process, Free, Admitted
      <3>2. /\ job[h].at = "outbound" /\ job'[h].at = "idle"
            /\ \A g \in Handlers \ {h} : job'[g] = job[g]
        BY <1>t, <1>i, <2>4, GotoType, JobMembers, JobFields DEF SetOutboundProxy, Free, Admitted
      <3>3. TokenInv'
        BY <1>t, <2>4, <3>1, <3>2, TokenFrame DEF SetOutboundProxy
      <3>4. ResInv'
        BY <1>t, <2>4, <3>1, <3>2, ResFrame DEF SetOutboundProxy
      <3>5. CfgInv'
        BY <1>t, <2>4, <3>1, <3>2 DEF SetOutboundProxy, CfgInv
      <3>6. QED
        BY <3>1, <3>3, <3>4, <3>5
    <2>5. ASSUME NEW by \in {"info", "peer"}, getToken(h, by)
           PROVE  JobInv' /\ TokenInv' /\ ResInv' /\ CfgInv'
      <3>1. up /\ up' = up /\ JobInv'
        BY <1>t, <2>5, AtWork DEF getToken, JobInv, process, Free, Admitted
      <3>2. /\ job[h].at = "idle"
            /\ \/ token = None /\ told' = told /\ job'[h].at = "draw"
               \/ token = 0 /\ told' = told /\ job'[h].at = "redraw"
               \/ token # None /\ (~drawn => told' = told \cup {token}) /\ job'[h].at = "idle"
            /\ \A g \in Handlers \ {h} : job'[g] = job[g]
        BY <1>t, <1>i, <2>5, GotoType, JobMembers, JobFields DEF getToken, Tell, Free, Admitted
      <3>3. TokenInv'
        BY <1>t, <2>5, <3>2 DEF getToken, TokenInv
      <3>4. ResInv'
        BY <1>t, <2>5, <3>1, <3>2, ResFrame DEF getToken
      <3>5. CfgInv'
        BY <1>t, <2>5, <3>1, <3>2, CfgFrame DEF getToken
      <3>6. QED
        BY <3>1, <3>3, <3>4, <3>5
    <2>6. ASSUME NEW t \in Tokens, DrawToken(h, t)
           PROVE  JobInv' /\ TokenInv' /\ ResInv' /\ CfgInv'
      <3>1. up /\ up' = up /\ JobInv'
        BY <1>t, <2>6, AtWork DEF DrawToken, JobInv, process, Free, Admitted
      <3>2. /\ job[h].at \in {"draw", "redraw"}
            /\ job'[h].at \in {"redraw", "idle"} /\ (job'[h].at = "redraw" => t = 0)
            /\ ~drawn' => told' \in {told, told \cup ({t} \ {0})}
            /\ \A g \in Handlers \ {h} : job'[g] = job[g]
        BY <1>t, <1>i, <2>6, GotoType, JobMembers, JobFields DEF DrawToken, Tell, Free, Admitted
      <3>3. TokenInv'
        <4> SUFFICES ASSUME ~drawn' PROVE TokenInv'
          BY DEF TokenInv
        <4>1. ~drawn /\ token' = t /\ \A g \in Handlers \ {h} : job[g].at \notin {"draw", "redraw"}
          BY <2>6 DEF DrawToken, setToken, Others
        <4>2. told = {}
          BY <1>t, <3>2, <4>1, TokenAssumption DEF TokenInv, TypeOK
        <4>3. QED
          BY <3>2, <4>1, <4>2 DEF TokenInv
      <3>4. ResInv'
        BY <1>t, <2>6, <3>1, <3>2, ResFrame DEF DrawToken
      <3>5. CfgInv'
        BY <1>t, <2>6, <3>1, <3>2, CfgFrame DEF DrawToken
      <3>6. QED
        BY <3>1, <3>3, <3>4, <3>5
    <2>7. ASSUME NEW id \in IDs, addResource(h, id)
           PROVE  JobInv' /\ TokenInv' /\ ResInv' /\ CfgInv'
      <3>1. up /\ up' = up /\ JobInv'
        BY <1>t, <2>7, AtWork DEF addResource, JobInv, process, Free, Admitted
      <3>2. /\ job'[h] = job[h]
            /\ \A g \in Handlers \ {h} : job'[g] = job[g]
        BY <1>t, <1>i, <2>7, GotoType, JobMembers, JobFields DEF addResource, Free, Admitted
      <3>3. TokenInv'
        BY <1>t, <2>7, <3>1, <3>2, TokenFrame DEF addResource
      <3>4. ResInv'
        BY <1>t, <2>7, <3>1, <3>2 DEF addResource, AddPortmapRes, savePortmap, ResInv
      <3>5. CfgInv'
        BY <1>t, <2>7, <3>1, <3>2, CfgFrame DEF addResource
      <3>6. QED
        BY <3>1, <3>3, <3>4, <3>5
    <2>8. ASSUME NEW id \in IDs, NEW at \in {"update", "delete"}, GetAppByID(h, id, at)
           PROVE  JobInv' /\ TokenInv' /\ ResInv' /\ CfgInv'
      <3>1. up /\ up' = up /\ JobInv'
        BY <1>t, <2>8, AtWork DEF GetAppByID, JobInv, process, Free, Admitted
      <3>2. /\ job[h].at = "idle" /\ job'[h].at = at /\ job'[h].arg = id
            /\ \A g \in Handlers \ {h} : job'[g] = job[g]
        BY <1>t, <1>i, <2>8, GotoType, JobMembers, JobFields DEF GetAppByID, Free, Admitted
      <3>3. TokenInv'
        BY <1>t, <2>8, <3>1, <3>2, TokenFrame DEF GetAppByID
      <3>4. ResInv'
        BY <1>t, <2>8, <3>1, <3>2 DEF GetAppByID, resVars, ResInv
      <3>5. CfgInv'
        BY <1>t, <2>8, <3>1, <3>2, CfgFrame DEF GetAppByID
      <3>6. QED
        BY <3>1, <3>3, <3>4, <3>5
    <2>9. ASSUME NEW c \in Configs, updateProxyConfig(h, c)
           PROVE  JobInv' /\ TokenInv' /\ ResInv' /\ CfgInv'
      <3>1. up /\ up' = up /\ JobInv'
        BY <1>t, <2>9, AtWork DEF updateProxyConfig, JobInv, process, Free, Admitted
      <3>2. /\ job[h].at = "idle"
            /\ \/ job'[h].at = "idle"
               \/ job'[h].at = "outbound" /\ job'[h].arg = c
            /\ \A g \in Handlers \ {h} : job'[g] = job[g]
        BY <1>t, <1>i, <2>9, GotoType, JobMembers, JobFields DEF updateProxyConfig, Free, Admitted
      <3>3. TokenInv'
        BY <1>t, <2>9, <3>1, <3>2, TokenFrame DEF updateProxyConfig
      <3>4. ResInv'
        BY <1>t, <2>9, <3>1, <3>2, ResFrame DEF updateProxyConfig
      <3>5. CfgInv'
        <4>1. CASE torn'
          BY <4>1 DEF CfgInv
        <4>2. CASE ~torn'
          <5>1. /\ cfg' = c /\ cfgDb' = c
                /\ \A g \in Handlers : job[g].at # "outbound"
                /\ job'[h] = Job("outbound", c)
            BY <1>t, <2>9, <4>2, GotoType, JobMembers DEF updateProxyConfig, set, Updating
          <5>2. QED
            BY <3>2, <5>1, JobFields DEF CfgInv
        <4>3. QED
          BY <4>1, <4>2
      <3>6. QED
        BY <3>1, <3>3, <3>4, <3>5
    <2>10. QED
      BY <1>4, <2>1, <2>2, <2>3, <2>4, <2>5, <2>6, <2>7, <2>8, <2>9 DEF HandlerStep
  <1>5. CASE UNCHANGED vars
    BY <1>5, <1>t, TokenFrame, ResFrame, CfgFrame DEF vars, process, JobInv
  <1>6. QED
    BY <1>1, <1>2, <1>3, <1>4, <1>5 DEF Next

\* The invariant holds in every state that Access reaches.
THEOREM Invariant == Spec => []Inv
  BY InvInit, InvStep, PTL DEF Spec

-----------------------------------------------------------------------------
\* The state of the gateway has its types, and every session its timer.
THEOREM Typed == Spec => []TypeOK
  <1>1. Inv => TypeOK
    BY DEF Inv
  <1>2. QED
    BY <1>1, Invariant, PTL

\* A token that getGatewayInfo has shown keeps being accepted, over failed saves
\* and restarts, unless two requests drew one at once.
THEOREM ShownTokenAccepted == Spec => []TokenKept
  <1>1. Inv => TokenKept
    BY DEF Inv, TokenInv, TokenKept, proxyAuth
  <1>2. QED
    BY <1>1, Invariant, PTL

\* Acknowledged additions of resources are served and acknowledged deletions are
\* not, over failed saves and restarts.
THEOREM AcknowledgedServed == Spec => []AckedServed
  <1>1. Inv => AckedServed
    BY IDAssumption DEF Inv, TypeOK, ResInv, AckedServed, Authorized, Resolves
  <1>2. QED
    BY <1>1, Invariant, PTL

\* The outbound proxy follows the configuration, in memory and in the database,
\* after updates that were saved and met no other.
THEOREM ConfigFollowed == Spec => []ConfigAgrees
  <1>1. Inv => ConfigAgrees
    BY DEF Inv, CfgInv, ConfigAgrees, Updating
  <1>2. QED
    BY <1>1, Invariant, PTL
=============================================================================
