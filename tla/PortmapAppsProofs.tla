-------------------------- MODULE PortmapAppsProofs --------------------------
(***************************************************************************)
(* Proofs of the safety properties of PortmapApps, for any number of       *)
(* handlers, applications and endpoints, whatever settings users may enter *)
(* and whichever calls fail.                                               *)
(***************************************************************************)
EXTENDS PortmapApps, TLAPS

Busy(h) == pc[h] # "idle"

\* What a handler at work has at hand at each of its steps.
JobInv ==
    \A h \in Handlers : Busy(h) =>
        /\ proc = "up"
        /\ job[h] \in Job
        /\ job[h].op = "delete" <=> job[h].app = Nil
        /\ pc[h] = "delete" => job[h].op # "add"
        /\ pc[h] \in {"add", "register"} => job[h].op # "delete"
        /\ pc[h] = "register" => Running(job[h].app) /\ job[h].sock \in bound

\* An ID is known once its application was stored; until then one handler at
\* most is about to add it, and nothing else is there of it.
KnownInv ==
    /\ \A i \in IDs \ known : apps[i] = Nil /\ db[i] = Nil /\ ack[i] = "none"
    /\ \A h \in Handlers : Busy(h) => (job[h].op = "add" <=> job[h].id \notin known)
    /\ \A g, h \in Handlers : Busy(g) /\ Busy(h) /\ job[g].op = "add" /\ job[g].id = job[h].id => g = h

\* What was acknowledged is in the database as well, and no handler is about to
\* undo it.
AckInv ==
    \A i \in IDs :
        /\ ack[i] = "added" =>
              /\ db[i] # Nil /\ (proc # "down" => apps[i] # Nil)
              /\ \A h \in Handlers : Busy(h) /\ job[h].op = "delete" => job[h].id # i
        /\ ack[i] = "deleted" =>
              /\ db[i] = Nil /\ (proc # "down" => apps[i] = Nil)
              /\ \A h \in Handlers : Busy(h) /\ job[h].op # "delete" => job[h].id # i

\* The listeners are those of the running applications in S, and some that X
\* allows.
Agree(S, X) ==
    /\ \A i \in S : Running(apps[i]) => apps[i].ep \in listeners \cup {AnyPort}
    /\ \A e \in listeners :
          \/ e \in X
          \/ \E i \in S : Running(apps[i]) /\ apps[i].ep \in {e, AnyPort}

\* While Run works through the applications, the listeners are those of the
\* applications it is done with.
BootInv ==
    /\ proc = "down" => listeners = {}
    /\ proc = "boot" => /\ \A i \in todo : Running(apps[i])
                        /\ Agree(IDs \ todo, {})

\* The listeners that the application of a handler's request allows.
Own(a) == IF ~Running(a) THEN {} ELSE IF a.ep = AnyPort THEN Endpoints ELSE {a.ep}

\* As long as requests come one at a time and the applications have ports of
\* their own, the listeners of all applications agree but for the one that a
\* handler is changing.
CalmInv ==
    calm => /\ proc # "down" => OwnEndpoints(apps)
            /\ \A g, h \in Handlers : Busy(g) /\ Busy(h) => g = h
            /\ Quiet => Agree(IDs, {})
            /\ \A h \in Handlers :
                  /\ pc[h] = "delete" => job[h].old = apps[job[h].id] /\ Agree(IDs, {})
                  /\ pc[h] \in {"add", "register"} => Agree(IDs \ {job[h].id}, {})
                  /\ pc[h] = "register" => job[h].sock \in Own(job[h].app)
                  /\ pc[h] = "save" =>
                        /\ Agree(IDs \ {job[h].id}, Own(job[h].app))
                        /\ Running(job[h].app) => job[h].app.ep \in listeners \cup {AnyPort}

Inv == TypeOK /\ JobInv /\ KnownInv /\ SocketsRegistered /\ AckInv /\ BootInv /\ CalmInv

-----------------------------------------------------------------------------
(* What the steps of a handler do to pc and job.                            *)

Labels == {"idle", "delete", "add", "register", "save"}

\* Handler h is at l, and no other handler has moved.
Moved(h, l) ==
    /\ pc' \in [Handlers -> Labels] /\ job' \in [Handlers -> Job \cup {Nil}]
    /\ pc'[h] = l
    /\ \A g \in Handlers \ {h} : pc'[g] = pc[g] /\ job'[g] = job[g]

\* Its request is still the same one.
SameJob(h) ==
    /\ job'[h] \in Job
    /\ job'[h].op = job[h].op /\ job'[h].id = job[h].id

\* An application that is stopped is still one.
LEMMA StoppedApp ==
    ASSUME NEW a \in App
    PROVE  Stopped(a) \in App /\ Stopped(a) # Nil /\ ~Running(Stopped(a)) /\ Stopped(a).ep = a.ep
  BY NilAssumption DEF Stopped, App, Running

LEMMA JobFields ==
    ASSUME NEW j \in Job
    PROVE  /\ j.op \in {"add", "update", "delete"} /\ j.id \in IDs
           /\ j.app \in App \cup {Nil} /\ j.old \in App \cup {Nil}
           /\ j.sock \in Endpoints \cup {Nil}
  BY DEF Job

LEMMA BeginMoves ==
    ASSUME TypeOK, NEW h \in Handlers, NEW i \in IDs,
           NEW o \in {"add", "update", "delete"}, NEW l \in Labels,
           NEW a \in App \cup {Nil}, NEW old \in App \cup {Nil},
           Begin(h, o, i, a, old, l)
    PROVE  /\ Moved(h, l) /\ job'[h] \in Job
           /\ job'[h].op = o /\ job'[h].id = i /\ job'[h].app = a /\ job'[h].old = old
  <1> DEFINE j == [op |-> o, id |-> i, app |-> a, old |-> old, sock |-> Nil]
  <1>1. j \in Job /\ j.op = o /\ j.id = i /\ j.app = a /\ j.old = old
    BY DEF Job
  <1>2. job' = [job EXCEPT ![h] = j] /\ pc' = [pc EXCEPT ![h] = l]
    BY DEF Begin, Goto
  <1> HIDE DEF j
  <1>3. QED
    BY <1>1, <1>2 DEF TypeOK, Moved, Labels

LEMMA ReturnMoves ==
    ASSUME TypeOK, NEW h \in Handlers, Return(h)
    PROVE  Moved(h, "idle")
  BY DEF Return, Goto, TypeOK, Moved, Labels

\* A handler keeps its request and may change one of its other fields.
LEMMA JobMoves ==
    ASSUME TypeOK, NEW h \in Handlers, NEW l \in Labels, Goto(h, l),
           NEW j \in Job, job' = [job EXCEPT ![h] = j], j.op = job[h].op, j.id = job[h].id
    PROVE  Moved(h, l) /\ SameJob(h) /\ job'[h] = j
  BY DEF Goto, TypeOK, Moved, SameJob, Labels

\* The fields of a changed job.
LEMMA JobChange ==
    ASSUME NEW j \in Job
    PROVE  /\ \A x \in App \cup {Nil} :
                 /\ [j EXCEPT !.old = x] \in Job /\ [j EXCEPT !.old = x].op = j.op
                 /\ [j EXCEPT !.old = x].id = j.id /\ [j EXCEPT !.old = x].app = j.app
                 /\ [j EXCEPT !.old = x].sock = j.sock
           /\ \A x \in App \cup {Nil} :
                 /\ [j EXCEPT !.app = x] \in Job /\ [j EXCEPT !.app = x].op = j.op
                 /\ [j EXCEPT !.app = x].id = j.id /\ [j EXCEPT !.app = x].app = x
           /\ \A x \in Endpoints \cup {Nil} :
                 /\ [j EXCEPT !.sock = x] \in Job /\ [j EXCEPT !.sock = x].op = j.op
                 /\ [j EXCEPT !.sock = x].id = j.id /\ [j EXCEPT !.sock = x].app = j.app
                 /\ [j EXCEPT !.sock = x].sock = x
  BY DEF Job

LEMMA RemoveMoves ==
    ASSUME TypeOK, JobInv, NEW h \in Handlers, RemoveListener(h)
    PROVE  /\ Moved(h, IF job[h].op = "delete" THEN "save" ELSE "add")
           /\ SameJob(h) /\ job'[h].app = job[h].app
  <1>1. job[h] \in Job
    BY DEF RemoveListener, JobInv, Busy
  <1>2. PICK j \in Job : /\ j.op = job[h].op /\ j.id = job[h].id /\ j.app = job[h].app
                         /\ job' = [job EXCEPT ![h] = j]
    BY <1>1, JobChange, ZenonT(60) DEF RemoveListener
  <1>3. PICK l \in Labels : /\ l = (IF job[h].op = "delete" THEN "save" ELSE "add")
                            /\ Goto(h, l)
    BY DEF RemoveListener, Labels
  <1>4. Moved(h, l) /\ SameJob(h) /\ job'[h] = j
    BY <1>2, <1>3, JobMoves
  <1>5. QED
    BY <1>2, <1>3, <1>4

LEMMA ListenMoves ==
    ASSUME TypeOK, JobInv, NEW h \in Handlers, Listen(h)
    PROVE  \E e \in Endpoints :
              /\ Moved(h, "register") /\ SameJob(h)
              /\ job'[h].app = job[h].app /\ job'[h].sock = e
              /\ bound' = bound \cup {e} \/ (bound' = bound /\ e \in listeners)
              /\ job[h].app.ep \in {e, AnyPort}
  <1>1. job[h] \in Job
    BY DEF Listen, JobInv, Busy
  <1>2. PICK e \in Endpoints :
            /\ job' = [job EXCEPT ![h].sock = e]
            /\ bound' = bound \cup {e} \/ (bound' = bound /\ e \in listeners)
            /\ job[h].app.ep \in {e, AnyPort}
    <2>1. CASE job[h].app.ep \in listeners
      <3>1. job' = [job EXCEPT ![h].sock = job[h].app.ep] /\ bound' = bound
        BY <2>1 DEF Listen
      <3>2. job[h].app.ep \in Endpoints
        BY <2>1 DEF TypeOK
      <3>3. QED
        BY <2>1, <3>1, <3>2, Zenon
    <2>2. CASE job[h].app.ep \notin listeners
      BY <2>2 DEF Listen, CanBind
    <2>3. QED
      BY <2>1, <2>2
  <1>3. PICK j \in Job : /\ j.op = job[h].op /\ j.id = job[h].id /\ j.app = job[h].app
                         /\ j.sock = e /\ job' = [job EXCEPT ![h] = j]
    BY <1>1, <1>2, JobChange
  <1>4. Goto(h, "register") /\ "register" \in Labels
    BY DEF Listen, Labels
  <1>5. Moved(h, "register") /\ SameJob(h) /\ job'[h] = j
    BY <1>3, <1>4, JobMoves
  <1>6. QED
    BY <1>2, <1>3, <1>5

LEMMA ListenFailsMoves ==
    ASSUME TypeOK, JobInv, NEW h \in Handlers, ListenFails(h)
    PROVE  Moved(h, "save") /\ SameJob(h) /\ job'[h].app # Nil /\ ~Running(job'[h].app)
  <1>1. job[h] \in Job /\ job[h].app \in App
    BY JobFields DEF ListenFails, JobInv, Busy, Running
  <1>2. PICK a \in App : a = Stopped(job[h].app) /\ a # Nil /\ ~Running(a)
    BY <1>1, StoppedApp
  <1>3. job' = [job EXCEPT ![h].app = a]
    BY <1>2 DEF ListenFails, TypeOK
  <1>4. PICK j \in Job : /\ j.op = job[h].op /\ j.id = job[h].id /\ j.app = a
                         /\ job' = [job EXCEPT ![h] = j]
    BY <1>1, <1>3, JobChange
  <1>5. Goto(h, "save") /\ "save" \in Labels
    BY DEF ListenFails, Labels
  <1>6. Moved(h, "save") /\ SameJob(h) /\ job'[h] = j
    BY <1>4, <1>5, JobMoves
  <1>7. QED
    BY <1>2, <1>4, <1>6

LEMMA SkipMoves ==
    ASSUME TypeOK, JobInv, NEW h \in Handlers, SkipListen(h)
    PROVE  Moved(h, "save") /\ SameJob(h) /\ job' = job
  BY DEF SkipListen, Goto, JobInv, Busy, TypeOK, Moved, SameJob, Labels

LEMMA RegisterMoves ==
    ASSUME TypeOK, JobInv, NEW h \in Handlers, Register(h)
    PROVE  Moved(h, "save") /\ SameJob(h) /\ job'[h].app = job[h].app
  <1>1. job[h] \in Job
    BY DEF Register, JobInv, Busy
  <1>2. PICK j \in Job : /\ j.op = job[h].op /\ j.id = job[h].id /\ j.app = job[h].app
                         /\ job' = [job EXCEPT ![h] = j]
    BY <1>1, JobChange DEF Register
  <1>3. Goto(h, "save") /\ "save" \in Labels
    BY DEF Register, Labels
  <1>4. Moved(h, "save") /\ SameJob(h) /\ job'[h] = j
    BY <1>2, <1>3, JobMoves
  <1>5. QED
    BY <1>2, <1>4

LEMMA StoreMoves ==
    ASSUME TypeOK, JobInv, NEW h \in Handlers, Store(h)
    PROVE  /\ Moved(h, "idle") /\ job[h] \in Job
           /\ apps' \in Table /\ db' \in Table
           /\ apps'[job[h].id] = job[h].app
           /\ \A i \in IDs \ {job[h].id} : apps'[i] = apps[i]
           /\ db' \in {db, apps'}
  <1>1. job[h] \in Job /\ job[h].id \in IDs /\ job[h].app \in App \cup {Nil}
    BY JobFields DEF Store, JobInv, Busy
  <1>2. Moved(h, "idle")
    BY ReturnMoves DEF Store
  <1>3. apps' = [apps EXCEPT ![job[h].id] = job[h].app] /\ db' \in {db, apps'}
    BY DEF Store, Save
  <1>4. QED
    BY <1>1, <1>2, <1>3 DEF TypeOK, Table

-----------------------------------------------------------------------------
(* The start of the process, and its end.                                   *)

LEMMA InitInv == Init => Inv
  BY DEF Init, Inv, TypeOK, JobInv, KnownInv, SocketsRegistered, AckInv, BootInv, CalmInv,
         Busy, Quiet, Table, Empty

LEMMA LoadKeeps ==
    ASSUME Inv, LoadPortmapApps
    PROVE  Inv'
  <1> USE DEF Inv, LoadPortmapApps
  <1>i. \A h \in Handlers : pc[h] = "idle" /\ pc'[h] = "idle"
    BY DEF JobInv, Busy, TypeOK
  <1>1. TypeOK'
    <2>1. calm' \in BOOLEAN
      BY DEF OwnEndpoints
    <2>2. QED
      BY <2>1 DEF TypeOK
  <1>2. JobInv'
    BY <1>i DEF JobInv, Busy
  <1>3. KnownInv'
    BY <1>i DEF KnownInv, Busy
  <1>4. SocketsRegistered'
    BY <1>i DEF SocketsRegistered
  <1>5. AckInv'
    BY <1>i DEF AckInv, Busy
  <1>6. BootInv'
    BY DEF BootInv, Agree
  <1>7. CalmInv'
    BY <1>i DEF CalmInv, Busy, Quiet, OwnEndpoints
  <1>8. QED
    BY <1>1, <1>2, <1>3, <1>4, <1>5, <1>6, <1>7

\* BootListen, with the endpoint of the listener it has found or opened.
LEMMA BootListenEffect ==
    ASSUME TypeOK, SocketsRegistered, NEW i \in IDs, BootListen(i)
    PROVE  \E e \in Endpoints : /\ apps[i].ep \in {e, AnyPort}
                                /\ listeners' = listeners \cup {e}
                                /\ bound' = bound \cup {e}
  <1>1. CASE apps[i].ep \in listeners
    BY <1>1 DEF BootListen, TypeOK, SocketsRegistered
  <1>2. CASE apps[i].ep \notin listeners
    <2>1. PICK e \in Endpoints : /\ CanBind(apps[i].ep, e)
                                 /\ bound' = bound \cup {e}
                                 /\ listeners' = listeners \cup {e}
      BY <1>2 DEF BootListen
    <2>2. QED
      BY <2>1 DEF CanBind
  <1>3. QED
    BY <1>1, <1>2

LEMMA BootListenKeeps ==
    ASSUME Inv, NEW i \in IDs, BootListen(i)
    PROVE  Inv'
  <1> USE DEF Inv
  <1>i. \A h \in Handlers : pc[h] = "idle" /\ pc'[h] = "idle"
    BY DEF JobInv, Busy, TypeOK, BootListen
  <1>e. PICK e \in Endpoints : /\ apps[i].ep \in {e, AnyPort}
                               /\ listeners' = listeners \cup {e}
                               /\ bound' = bound \cup {e}
    BY BootListenEffect
  <1>f. /\ proc = "boot" /\ i \in todo /\ todo' = todo \ {i}
        /\ UNCHANGED <<proc, apps, db, pc, job, known, ack, calm>>
    BY DEF BootListen
  <1>1. TypeOK'
    BY <1>e, <1>f DEF TypeOK
  <1>2. JobInv'
    BY <1>i DEF JobInv, Busy
  <1>3. KnownInv'
    BY <1>f DEF KnownInv, Busy
  <1>4. SocketsRegistered'
    BY <1>e, <1>i DEF SocketsRegistered
  <1>5. AckInv'
    BY <1>f DEF AckInv, Busy
  <1>6. BootInv'
    BY <1>e, <1>f DEF BootInv, Agree
  <1>7. CalmInv'
    BY <1>i, <1>f DEF CalmInv, Busy, Quiet, OwnEndpoints
  <1>8. QED
    BY <1>1, <1>2, <1>3, <1>4, <1>5, <1>6, <1>7

LEMMA BootListenFailsKeeps ==
    ASSUME Inv, NEW i \in IDs, BootListenFails(i)
    PROVE  Inv'
  <1> USE DEF Inv
  <1>i. \A h \in Handlers : pc[h] = "idle" /\ pc'[h] = "idle"
    BY DEF JobInv, Busy, TypeOK, BootListenFails
  <1>f. /\ proc = "boot" /\ i \in todo /\ todo' = todo \ {i}
        /\ UNCHANGED <<proc, listeners, bound, pc, job, known, ack, calm>>
    BY DEF BootListenFails
  <1>r. Running(apps[i]) /\ apps[i] \in App
    BY <1>f DEF BootInv, TypeOK, Table, Running
  <1>s. PICK a \in App : a = Stopped(apps[i]) /\ a # Nil /\ ~Running(a) /\ a.ep = apps[i].ep
    BY <1>r, StoppedApp
  <1>a. /\ apps' \in Table /\ apps'[i] = a /\ \A j \in IDs \ {i} : apps'[j] = apps[j]
        /\ db' \in {db, apps'} /\ db' \in Table
    <2>1. apps' = [apps EXCEPT ![i] = a] /\ db' \in {db, apps'}
      BY <1>s DEF BootListenFails, Save
    <2>2. QED
      BY <2>1 DEF TypeOK, Table
  <1>1. TypeOK'
    BY <1>a, <1>f DEF TypeOK
  <1>2. JobInv'
    BY <1>i DEF JobInv, Busy
  <1>3. KnownInv'
    BY <1>a, <1>f, <1>i, <1>r DEF KnownInv, Busy, Running
  <1>4. SocketsRegistered'
    BY <1>f DEF SocketsRegistered
  <1>5. AckInv'
    BY <1>a, <1>f, <1>i, <1>r, <1>s DEF AckInv, Busy, Running
  <1>6. BootInv'
    <2>1. \A j \in todo' : Running(apps'[j])
      BY <1>a, <1>f DEF BootInv, TypeOK
    <2>2. \A j \in IDs \ todo' : Running(apps'[j]) => apps'[j].ep \in listeners' \cup {AnyPort}
      BY <1>a, <1>f, <1>s DEF BootInv, Agree
    <2>3. ASSUME NEW e \in listeners'
          PROVE  \E j \in IDs \ todo' : Running(apps'[j]) /\ apps'[j].ep \in {e, AnyPort}
      <3>1. PICK j \in IDs \ todo : Running(apps[j]) /\ apps[j].ep \in {e, AnyPort}
        BY <1>f, <2>3 DEF BootInv, Agree
      <3>2. j # i /\ apps'[j] = apps[j] /\ j \in IDs \ todo'
        BY <3>1, <1>a, <1>f
      <3>3. QED
        BY <3>1, <3>2
    <2>4. QED
      BY <2>1, <2>2, <2>3, <1>f DEF BootInv, Agree
  <1>7. CalmInv'
    <2>1. OwnEndpoints(apps) => OwnEndpoints(apps')
      BY <1>a, <1>s, <1>r DEF OwnEndpoints, Running
    <2>2. QED
      BY <2>1, <1>i, <1>f DEF CalmInv, Busy, Quiet
  <1>8. QED
    BY <1>1, <1>2, <1>3, <1>4, <1>5, <1>6, <1>7

LEMMA ServeKeeps ==
    ASSUME Inv, Serve
    PROVE  Inv'
  <1> USE DEF Inv, Serve
  <1>i. \A h \in Handlers : pc[h] = "idle" /\ pc'[h] = "idle"
    BY DEF JobInv, Busy, TypeOK
  <1>1. TypeOK'
    BY DEF TypeOK
  <1>2. JobInv'
    BY <1>i DEF JobInv, Busy
  <1>3. KnownInv'
    BY DEF KnownInv, Busy
  <1>4. SocketsRegistered'
    BY DEF SocketsRegistered
  <1>5. AckInv'
    BY DEF AckInv, Busy
  <1>6. BootInv'
    BY DEF BootInv
  <1>7. CalmInv'
    <2>1. Agree(IDs, {})'
      BY DEF BootInv, Agree
    <2>2. QED
      BY <2>1, <1>i DEF CalmInv, Busy, OwnEndpoints
  <1>8. QED
    BY <1>1, <1>2, <1>3, <1>4, <1>5, <1>6, <1>7

LEMMA CrashKeeps ==
    ASSUME Inv, Crash
    PROVE  Inv'
  <1> USE DEF Inv, Crash
  <1>i. \A h \in Handlers : pc'[h] = "idle"
    OBVIOUS
  <1>1. TypeOK'
    BY DEF TypeOK, Table, Empty
  <1>2. JobInv'
    BY <1>i DEF JobInv, Busy
  <1>3. KnownInv'
    BY <1>i DEF KnownInv, Busy, Empty
  <1>4. SocketsRegistered'
    BY DEF SocketsRegistered
  <1>5. AckInv'
    BY <1>i DEF AckInv, Busy
  <1>6. BootInv'
    BY DEF BootInv
  <1>7. CalmInv'
    BY <1>i DEF CalmInv, Busy, Quiet
  <1>8. QED
    BY <1>1, <1>2, <1>3, <1>4, <1>5, <1>6, <1>7

-----------------------------------------------------------------------------
(* A request arrives.                                                       *)

\* The parts of the invariant that do not depend on what the request asks for.
LEMMA BeginKeeps ==
    ASSUME Inv, NEW h \in Handlers, NEW i \in IDs,
           NEW o \in {"add", "update", "delete"}, NEW l \in {"add", "delete"},
           NEW a \in App \cup {Nil}, NEW old \in App \cup {Nil},
           Begin(h, o, i, a, old, l),
           o = "delete" <=> a = Nil, o = "add" <=> l = "add"
    PROVE  /\ Moved(h, l) /\ job'[h] \in Job
           /\ job'[h].op = o /\ job'[h].id = i /\ job'[h].app = a /\ job'[h].old = old
           /\ proc = "up" /\ ~Busy(h)
           /\ UNCHANGED <<proc, todo, apps, db, listeners, bound, known>>
           /\ calm' \in BOOLEAN
           /\ JobInv' /\ SocketsRegistered' /\ BootInv'
  <1> USE DEF Inv
  <1>m. /\ Moved(h, l) /\ job'[h] \in Job
        /\ job'[h].op = o /\ job'[h].id = i /\ job'[h].app = a /\ job'[h].old = old
    BY BeginMoves DEF Labels
  <1>f. /\ proc = "up" /\ ~Busy(h)
        /\ UNCHANGED <<proc, todo, apps, db, listeners, bound, known>>
    BY DEF Begin, Busy
  <1>c. calm' \in BOOLEAN
    BY DEF Begin
  <1>1. JobInv'
    <2> SUFFICES ASSUME NEW g \in Handlers, pc'[g] # "idle"
                 PROVE  /\ proc' = "up"
                        /\ job'[g] \in Job
                        /\ job'[g].op = "delete" <=> job'[g].app = Nil
                        /\ pc'[g] = "delete" => job'[g].op # "add"
                        /\ pc'[g] \in {"add", "register"} => job'[g].op # "delete"
                        /\ pc'[g] = "register" => Running(job'[g].app) /\ job'[g].sock \in bound'
      BY DEF JobInv, Busy
    <2>1. CASE g = h
      BY <2>1, <1>m, <1>f DEF Moved
    <2>2. CASE g # h
      BY <2>2, <1>m, <1>f DEF Moved, JobInv, Busy
    <2>3. QED
      BY <2>1, <2>2
  <1>2. SocketsRegistered'
    BY <1>m, <1>f DEF Moved, SocketsRegistered, Busy
  <1>3. BootInv'
    BY <1>f DEF BootInv
  <1>4. QED
    BY <1>m, <1>f, <1>c, <1>1, <1>2, <1>3

\* A request that comes when no other is being served finds the listeners in
\* agreement with the applications.
LEMMA BeginCalm ==
    ASSUME Inv, NEW h \in Handlers, NEW i \in IDs, NEW o, NEW l, NEW a, NEW old,
           Begin(h, o, i, a, old, l), calm'
    PROVE  /\ OwnEndpoints(apps) /\ Agree(IDs, {})
           /\ \A g \in Handlers : pc[g] = "idle"
  BY DEF Begin, Inv, CalmInv, Quiet

LEMMA addAppKeeps ==
    ASSUME Inv, NEW h \in Handlers, NEW i \in IDs, NEW a \in App, addApp(h, i, a)
    PROVE  Inv'
  <1> USE DEF Inv
  <1>b. Begin(h, "add", i, a, Nil, "add")
    BY DEF addApp
  <1>n. a # Nil
    BY NilAssumption
  <1>m. /\ Moved(h, "add") /\ job'[h] \in Job
        /\ job'[h].op = "add" /\ job'[h].id = i /\ job'[h].app = a
        /\ proc = "up" /\ ~Busy(h)
        /\ UNCHANGED <<proc, todo, apps, db, listeners, bound, known>>
        /\ calm' \in BOOLEAN
        /\ JobInv' /\ SocketsRegistered' /\ BootInv'
    BY <1>b, <1>n, BeginKeeps
  <1>f. i \notin known /\ ack' = ack /\ \A g \in Handlers : Busy(g) => job[g].id # i
    BY DEF addApp, Busy
  <1>1. TypeOK'
    BY <1>m, <1>f DEF TypeOK, Moved, Labels
  <1>2. KnownInv'
    BY <1>m, <1>f DEF KnownInv, Moved, Busy
  <1>3. AckInv'
    BY <1>m, <1>f DEF KnownInv, AckInv, Moved, Busy
  <1>4. CalmInv'
    <2> SUFFICES ASSUME calm' PROVE CalmInv'
      BY DEF CalmInv
    <2>1. OwnEndpoints(apps) /\ Agree(IDs, {}) /\ \A g \in Handlers : pc[g] = "idle"
      BY <1>b, BeginCalm
    <2>2. ~Running(apps[i])
      BY <1>f DEF KnownInv, Running
    <2>3. Agree(IDs \ {i}, {})'
      BY <2>1, <2>2, <1>m DEF Agree
    <2>4. \A g \in Handlers \ {h} : pc'[g] = "idle"
      BY <2>1, <1>m DEF Moved
    <2>5. Agree(IDs \ {job[h].id}, {})'
      BY <2>3, <1>m DEF Agree
    <2>6. pc'[h] = "add" /\ apps' = apps
      BY <1>m DEF Moved
    <2>7. QED
      BY <2>1, <2>4, <2>5, <2>6 DEF CalmInv, Busy, Quiet
  <1>5. QED
    BY <1>m, <1>1, <1>2, <1>3, <1>4

LEMMA updateAppKeeps ==
    ASSUME Inv, NEW h \in Handlers, NEW i \in IDs, NEW a \in App, updateApp(h, i, a)
    PROVE  Inv'
  <1> USE DEF Inv
  <1>b. Begin(h, "update", i, a, apps[i], "delete")
    BY DEF updateApp
  <1>n. a # Nil /\ apps[i] \in App \cup {Nil}
    BY NilAssumption DEF TypeOK, Table
  <1>m. /\ Moved(h, "delete") /\ job'[h] \in Job
        /\ job'[h].op = "update" /\ job'[h].id = i /\ job'[h].app = a /\ job'[h].old = apps[i]
        /\ proc = "up" /\ ~Busy(h)
        /\ UNCHANGED <<proc, todo, apps, db, listeners, bound, known>>
        /\ calm' \in BOOLEAN
        /\ JobInv' /\ SocketsRegistered' /\ BootInv'
    BY <1>b, <1>n, BeginKeeps
  <1>f. apps[i] # Nil /\ ack' = ack
    BY DEF updateApp
  <1>1. TypeOK'
    BY <1>m, <1>f DEF TypeOK, Moved, Labels
  <1>2. KnownInv'
    BY <1>m, <1>f DEF KnownInv, Moved, Busy
  <1>3. AckInv'
    BY <1>m, <1>f DEF KnownInv, AckInv, Moved, Busy
  <1>4. CalmInv'
    <2> SUFFICES ASSUME calm' PROVE CalmInv'
      BY DEF CalmInv
    <2>1. OwnEndpoints(apps) /\ Agree(IDs, {}) /\ \A g \in Handlers : pc[g] = "idle"
      BY <1>b, BeginCalm
    <2>2. Agree(IDs, {})'
      BY <2>1, <1>m DEF Agree
    <2>3. \A g \in Handlers \ {h} : pc'[g] = "idle"
      BY <2>1, <1>m DEF Moved
    <2>4. pc'[h] = "delete" /\ apps' = apps
      BY <1>m DEF Moved
    <2>5. QED
      BY <2>1, <2>2, <2>3, <2>4, <1>m DEF CalmInv, Busy, Quiet
  <1>5. QED
    BY <1>m, <1>1, <1>2, <1>3, <1>4

LEMMA deleteAppKeeps ==
    ASSUME Inv, NEW h \in Handlers, NEW i \in IDs, deleteApp(h, i)
    PROVE  Inv'
  <1> USE DEF Inv
  <1>b. Begin(h, "delete", i, Nil, apps[i], "delete")
    BY DEF deleteApp
  <1>n. apps[i] \in App \cup {Nil}
    BY DEF TypeOK, Table
  <1>m. /\ Moved(h, "delete") /\ job'[h] \in Job
        /\ job'[h].op = "delete" /\ job'[h].id = i /\ job'[h].old = apps[i]
        /\ proc = "up" /\ ~Busy(h)
        /\ UNCHANGED <<proc, todo, apps, db, listeners, bound, known>>
        /\ calm' \in BOOLEAN
        /\ JobInv' /\ SocketsRegistered' /\ BootInv'
    BY <1>b, <1>n, BeginKeeps
  <1>f. /\ i \in known
        /\ ack' \in [IDs -> {"none", "added", "deleted"}]
        /\ ack'[i] # "added" /\ (ack'[i] = "deleted" => ack[i] = "deleted")
        /\ \A j \in IDs \ {i} : ack'[j] = ack[j]
    BY DEF deleteApp, TypeOK
  <1>1. TypeOK'
    BY <1>m, <1>f DEF TypeOK, Moved, Labels
  <1>2. KnownInv'
    BY <1>m, <1>f DEF KnownInv, Moved, Busy
  <1>3. AckInv'
    BY <1>m, <1>f DEF AckInv, Moved, Busy
  <1>4. CalmInv'
    <2> SUFFICES ASSUME calm' PROVE CalmInv'
      BY DEF CalmInv
    <2>1. OwnEndpoints(apps) /\ Agree(IDs, {}) /\ \A g \in Handlers : pc[g] = "idle"
      BY <1>b, BeginCalm
    <2>2. Agree(IDs, {})'
      BY <2>1, <1>m DEF Agree
    <2>3. \A g \in Handlers \ {h} : pc'[g] = "idle"
      BY <2>1, <1>m DEF Moved
    <2>4. pc'[h] = "delete" /\ apps' = apps
      BY <1>m DEF Moved
    <2>5. QED
      BY <2>1, <2>2, <2>3, <2>4, <1>m DEF CalmInv, Busy, Quiet
  <1>5. QED
    BY <1>m, <1>1, <1>2, <1>3, <1>4

-----------------------------------------------------------------------------
(* A request goes on.                                                       *)

\* A step before the last one leaves the applications alone.
LEMMA MoveKeeps ==
    ASSUME Inv, NEW h \in Handlers, NEW l, Busy(h), Moved(h, l), l = "idle" \/ SameJob(h),
           UNCHANGED <<proc, apps, db, known, ack>>
    PROVE  proc = "up" /\ KnownInv' /\ AckInv' /\ BootInv'
  <1> USE DEF Inv
  <1>1. proc = "up" /\ proc' = "up"
    BY DEF JobInv
  <1>2. \A g \in Handlers : pc'[g] # "idle" =>
           Busy(g) /\ job'[g].op = job[g].op /\ job'[g].id = job[g].id
    BY DEF Moved, SameJob, Busy
  <1>3. KnownInv'
    BY <1>2 DEF KnownInv, Busy
  <1>4. AckInv'
    BY <1>2 DEF AckInv, Busy
  <1>5. BootInv'
    BY <1>1 DEF BootInv
  <1>6. QED
    BY <1>1, <1>3, <1>4, <1>5

LEMMA RefusedKeeps ==
    ASSUME Inv, NEW h \in Handlers, Refused(h)
    PROVE  Inv'
  <1> USE DEF Inv
  <1>m. Moved(h, "idle")
    BY ReturnMoves DEF Refused
  <1>f. /\ pc[h] = "delete" /\ Busy(h)
        /\ UNCHANGED <<proc, todo, apps, db, listeners, bound, known, ack, calm>>
    BY DEF Refused, Busy
  <1>1. TypeOK'
    BY <1>m, <1>f DEF TypeOK, Moved, Labels
  <1>2. proc = "up" /\ KnownInv' /\ AckInv' /\ BootInv'
    BY <1>m, <1>f, MoveKeeps
  <1>3. JobInv'
    BY <1>m, <1>f DEF Moved, JobInv, Busy
  <1>4. SocketsRegistered'
    BY <1>m, <1>f DEF Moved, SocketsRegistered
  <1>5. CalmInv'
    <2> SUFFICES ASSUME calm PROVE CalmInv'
      BY <1>f DEF CalmInv
    <2>1. OwnEndpoints(apps)' /\ Agree(IDs, {})'
      BY <1>2, <1>f DEF CalmInv, OwnEndpoints, Agree
    <2>2. \A g \in Handlers : pc'[g] = "idle"
      BY <1>m, <1>f DEF CalmInv, Moved, Busy
    <2>3. QED
      BY <2>1, <2>2 DEF CalmInv, Busy
  <1>6. QED
    BY <1>1, <1>2, <1>3, <1>4, <1>5

LEMMA RemoveListenerKeeps ==
    ASSUME Inv, NEW h \in Handlers, RemoveListener(h)
    PROVE  Inv'
  <1> USE DEF Inv
  <1>l. PICK l \in {"save", "add"} : l = (IF job[h].op = "delete" THEN "save" ELSE "add")
    OBVIOUS
  <1>m. Moved(h, l) /\ SameJob(h) /\ job'[h].app = job[h].app
    BY <1>l, RemoveMoves
  <1>f. /\ pc[h] = "delete" /\ Busy(h)
        /\ UNCHANGED <<proc, todo, apps, db, known, ack, calm>>
    BY DEF RemoveListener, Busy
  <1>d. \/ /\ Running(job[h].old) /\ ConnMtxFree
           /\ listeners' = listeners \ {job[h].old.ep}
           /\ bound' = bound \ (listeners \cap {job[h].old.ep})
        \/ ~Running(job[h].old) /\ UNCHANGED <<listeners, bound>>
    BY DEF RemoveListener, DeleteListener
  <1>1. TypeOK'
    BY <1>m, <1>f, <1>d DEF TypeOK, Moved, Labels
  <1>2. proc = "up" /\ KnownInv' /\ AckInv' /\ BootInv'
    BY <1>m, <1>f, MoveKeeps
  <1>3. JobInv'
    <2>1. ASSUME NEW g \in Handlers, pc'[g] = "register"
          PROVE  Running(job'[g].app) /\ job'[g].sock \in bound'
      <3>1. g # h /\ pc[g] = "register" /\ job'[g] = job[g]
        BY <2>1, <1>m DEF Moved
      <3>2. UNCHANGED bound
        BY <3>1, <1>d DEF ConnMtxFree
      <3>3. QED
        BY <3>1, <3>2 DEF JobInv, Busy
    <2>2. QED
      BY <1>l, <1>m, <1>f, <2>1 DEF Moved, SameJob, JobInv, Busy
  <1>4. SocketsRegistered'
    <2>1. CASE ConnMtxFree /\ listeners' = listeners \ {job[h].old.ep}
               /\ bound' = bound \ (listeners \cap {job[h].old.ep})
      BY <2>1 DEF SocketsRegistered, ConnMtxFree
    <2>2. CASE UNCHANGED <<listeners, bound>>
      BY <2>2, <1>m, <1>f DEF SocketsRegistered, Moved
    <2>3. QED
      BY <1>d, <2>1, <2>2
  <1>5. CalmInv'
    <2> SUFFICES ASSUME calm PROVE CalmInv'
      BY <1>f DEF CalmInv
    <2> DEFINE i == job[h].id
    <2>1. /\ OwnEndpoints(apps) /\ Agree(IDs, {}) /\ job[h].old = apps[i]
          /\ \A g \in Handlers : Busy(g) => g = h
      BY <1>2, <1>f DEF CalmInv
    <2>i. i \in IDs
      BY <1>f, JobFields DEF JobInv
    <2>2. \A g \in Handlers \ {h} : pc'[g] = "idle"
      BY <2>1, <1>m DEF Moved, Busy
    <2>3. \A j \in IDs \ {i} : Running(apps[j]) => apps[j].ep \in listeners' \cup {AnyPort}
      <3>1. ASSUME NEW j \in IDs \ {i}, Running(apps[j])
            PROVE  apps[j].ep \in listeners' \cup {AnyPort}
        <4>1. apps[j].ep \in listeners \cup {AnyPort}
          BY <2>1, <3>1 DEF Agree
        <4>2. Running(apps[i]) => apps[j].ep # apps[i].ep
          BY <2>1, <2>i, <3>1 DEF OwnEndpoints, Running
        <4>3. QED
          BY <4>1, <4>2, <1>d, <2>1
      <3>2. QED
        BY <3>1
    <2>4. ASSUME NEW e \in listeners'
          PROVE  \E j \in IDs \ {i} : Running(apps[j]) /\ apps[j].ep \in {e, AnyPort}
      <3>1. e \in listeners /\ (Running(apps[i]) => e # apps[i].ep)
        BY <1>d, <2>1, <2>4
      <3>2. PICK j \in IDs : Running(apps[j]) /\ apps[j].ep \in {e, AnyPort}
        BY <2>1, <3>1 DEF Agree
      <3>3. Running(apps[i]) => apps[i].ep # AnyPort
        BY <2>1, <2>i DEF OwnEndpoints, Running
      <3>4. j # i
        BY <3>1, <3>2, <3>3
      <3>5. QED
        BY <3>2, <3>4
    <2>5. job'[h].id = i /\ apps' = apps /\ pc'[h] = l
      BY <1>m, <1>f DEF SameJob, Moved
    <2> HIDE DEF i
    <2>6. Agree(IDs \ {job[h].id}, {})'
      BY <2>3, <2>4, <2>5 DEF Agree
    <2>7. l = "save" => ~Running(job'[h].app)
      BY <1>l, <1>m, <1>f DEF JobInv, Running
    <2>8. l = "save" => Agree(IDs \ {job[h].id}, Own(job[h].app))'
      BY <2>6, <2>7 DEF Own, Agree
    <2>9. QED
      BY <2>1, <2>2, <2>5, <2>6, <2>7, <2>8 DEF CalmInv, Busy, Quiet
  <1>6. QED
    BY <1>1, <1>2, <1>3, <1>4, <1>5

LEMMA ListenKeeps ==
    ASSUME Inv, NEW h \in Handlers, Listen(h)
    PROVE  Inv'
  <1> USE DEF Inv
  <1>e. PICK e \in Endpoints :
              /\ Moved(h, "register") /\ SameJob(h)
              /\ job'[h].app = job[h].app /\ job'[h].sock = e
              /\ bound' = bound \cup {e} \/ (bound' = bound /\ e \in listeners)
              /\ job[h].app.ep \in {e, AnyPort}
    BY ListenMoves
  <1>f. /\ pc[h] = "add" /\ Busy(h) /\ Running(job[h].app)
        /\ UNCHANGED <<proc, todo, apps, db, listeners, known, ack, calm>>
    BY DEF Listen, Busy
  <1>b. bound' = bound \cup {e}
    BY <1>e DEF SocketsRegistered
  <1>1. TypeOK'
    BY <1>e, <1>f DEF TypeOK, Moved, Labels
  <1>2. proc = "up" /\ KnownInv' /\ AckInv' /\ BootInv'
    BY <1>e, <1>f, MoveKeeps
  <1>3. JobInv'
    BY <1>b, <1>e, <1>f DEF Moved, SameJob, JobInv, Busy
  <1>4. SocketsRegistered'
    <2>1. ASSUME NEW d \in bound', d \notin listeners'
          PROVE  \E g \in Handlers : pc'[g] = "register" /\ job'[g].sock = d
      <3>1. CASE d = e
        BY <3>1, <1>e DEF Moved
      <3>2. CASE d # e
        <4>1. PICK g \in Handlers : pc[g] = "register" /\ job[g].sock = d
          BY <3>2, <2>1, <1>b, <1>f DEF SocketsRegistered
        <4>2. g # h
          BY <4>1, <1>f
        <4>3. QED
          BY <4>1, <4>2, <1>e DEF Moved
      <3>3. QED
        BY <3>1, <3>2
    <2>2. QED
      BY <2>1, <1>b, <1>f DEF SocketsRegistered
  <1>5. CalmInv'
    <2> SUFFICES ASSUME calm PROVE CalmInv'
      BY <1>f DEF CalmInv
    <2>1. /\ OwnEndpoints(apps) /\ Agree(IDs \ {job[h].id}, {})
          /\ \A g \in Handlers : Busy(g) => g = h
      BY <1>2, <1>f DEF CalmInv
    <2>2. \A g \in Handlers \ {h} : pc'[g] = "idle"
      BY <2>1, <1>e DEF Moved, Busy
    <2>3. Agree(IDs \ {job[h].id}, {})'
      BY <2>1, <1>e, <1>f DEF Agree, SameJob
    <2>4. job'[h].sock \in Own(job'[h].app)
      BY <1>e, <1>f DEF Own
    <2>5. pc'[h] = "register" /\ apps' = apps
      BY <1>e, <1>f DEF Moved
    <2>6. QED
      BY <2>1, <2>2, <2>3, <2>4, <2>5 DEF CalmInv, Busy, Quiet
  <1>6. QED
    BY <1>1, <1>2, <1>3, <1>4, <1>5

\* No listener is opened: the application will be stored as one that does not
\* run.
LEMMA NoListenerKeeps ==
    ASSUME Inv, NEW h \in Handlers, pc[h] = "add", Moved(h, "save"), SameJob(h),
           job'[h].app # Nil, ~Running(job'[h].app),
           UNCHANGED <<proc, todo, apps, db, listeners, bound, known, ack, calm>>
    PROVE  Inv'
  <1> USE DEF Inv
  <1>f. Busy(h) /\ job[h].op # "delete"
    BY DEF JobInv, Busy
  <1>1. TypeOK'
    BY DEF TypeOK, Moved, Labels
  <1>2. proc = "up" /\ KnownInv' /\ AckInv' /\ BootInv'
    BY <1>f, MoveKeeps
  <1>3. JobInv'
    BY <1>f DEF Moved, SameJob, JobInv, Busy
  <1>4. SocketsRegistered'
    BY DEF Moved, SocketsRegistered
  <1>5. CalmInv'
    <2> SUFFICES ASSUME calm PROVE CalmInv'
      BY DEF CalmInv
    <2>1. /\ OwnEndpoints(apps) /\ Agree(IDs \ {job[h].id}, {})
          /\ \A g \in Handlers : Busy(g) => g = h
      BY <1>2, <1>f DEF CalmInv
    <2>2. \A g \in Handlers \ {h} : pc'[g] = "idle"
      BY <2>1 DEF Moved, Busy
    <2>3. Agree(IDs \ {job[h].id}, Own(job[h].app))'
      BY <2>1 DEF Agree, SameJob
    <2>4. pc'[h] = "save" /\ apps' = apps
      BY DEF Moved
    <2>5. QED
      BY <2>1, <2>2, <2>3, <2>4 DEF CalmInv, Busy, Quiet
  <1>6. QED
    BY <1>1, <1>2, <1>3, <1>4, <1>5

LEMMA ListenFailsKeeps ==
    ASSUME Inv, NEW h \in Handlers, ListenFails(h)
    PROVE  Inv'
  <1>1. Moved(h, "save") /\ SameJob(h) /\ job'[h].app # Nil /\ ~Running(job'[h].app)
    BY ListenFailsMoves DEF Inv
  <1>2. pc[h] = "add" /\ UNCHANGED <<proc, todo, apps, db, listeners, bound, known, ack, calm>>
    BY DEF ListenFails
  <1>3. QED
    BY <1>1, <1>2, NoListenerKeeps

LEMMA SkipListenKeeps ==
    ASSUME Inv, NEW h \in Handlers, SkipListen(h)
    PROVE  Inv'
  <1>1. Moved(h, "save") /\ SameJob(h) /\ job' = job
    BY SkipMoves DEF Inv
  <1>2. /\ pc[h] = "add" /\ ~Running(job[h].app)
        /\ UNCHANGED <<proc, todo, apps, db, listeners, bound, known, ack, calm>>
    BY DEF SkipListen
  <1>3. job[h].app # Nil
    BY <1>2 DEF Inv, JobInv, Busy
  <1>4. QED
    BY <1>1, <1>2, <1>3, NoListenerKeeps

LEMMA RegisterKeeps ==
    ASSUME Inv, NEW h \in Handlers, Register(h)
    PROVE  Inv'
  <1> USE DEF Inv
  <1>m. Moved(h, "save") /\ SameJob(h) /\ job'[h].app = job[h].app
    BY RegisterMoves
  <1>f. /\ pc[h] = "register" /\ Busy(h)
        /\ listeners' = listeners \cup {job[h].sock}
        /\ UNCHANGED <<proc, todo, apps, db, bound, known, ack, calm>>
    BY DEF Register, Busy
  <1>j. job[h].op # "delete" /\ Running(job[h].app) /\ job[h].sock \in bound
    BY <1>f DEF JobInv
  <1>1. TypeOK'
    BY <1>m, <1>f, <1>j DEF TypeOK, Moved, Labels
  <1>2. proc = "up" /\ KnownInv' /\ AckInv' /\ BootInv'
    BY <1>m, <1>f, MoveKeeps
  <1>3. JobInv'
    BY <1>m, <1>f, <1>j DEF Moved, SameJob, JobInv, Busy
  <1>4. SocketsRegistered'
    BY <1>m, <1>f, <1>j DEF Moved, SocketsRegistered
  <1>5. CalmInv'
    <2> SUFFICES ASSUME calm PROVE CalmInv'
      BY <1>f DEF CalmInv
    <2>1. /\ OwnEndpoints(apps) /\ Agree(IDs \ {job[h].id}, {})
          /\ job[h].sock \in Own(job[h].app)
          /\ \A g \in Handlers : Busy(g) => g = h
      BY <1>2, <1>f DEF CalmInv
    <2>2. \A g \in Handlers \ {h} : pc'[g] = "idle"
      BY <2>1, <1>m DEF Moved, Busy
    <2>3. Agree(IDs \ {job[h].id}, Own(job[h].app))'
      BY <2>1, <1>m, <1>f DEF Agree, SameJob, Own
    <2>4. job'[h].app.ep \in listeners' \cup {AnyPort}
      BY <2>1, <1>m, <1>f, <1>j DEF Own
    <2>5. pc'[h] = "save" /\ apps' = apps
      BY <1>m, <1>f DEF Moved
    <2>6. QED
      BY <2>1, <2>2, <2>3, <2>4, <2>5 DEF CalmInv, Busy, Quiet
  <1>6. QED
    BY <1>1, <1>2, <1>3, <1>4, <1>5

\* What a request that was answered has shown of its application.
LEMMA AckEffect ==
    ASSUME TypeOK, NEW h \in Handlers, job[h].id \in IDs, NEW ok \in BOOLEAN, Acknowledge(h, ok)
    PROVE  /\ ack' \in [IDs -> {"none", "added", "deleted"}]
           /\ \A i \in IDs \ {job[h].id} : ack'[i] = ack[i]
           /\ \/ ack'[job[h].id] = ack[job[h].id]
              \/ /\ ok /\ \A g \in Handlers \ {h} : Busy(g) => job[g].id # job[h].id
                 /\ \/ job[h].op = "add" /\ ack'[job[h].id] = "added"
                    \/ job[h].op = "delete" /\ ack'[job[h].id] = "deleted"
  <1> DEFINE alone == \A g \in Handlers \ {h} : pc[g] = "idle" \/ job[g].id # job[h].id
             v == CASE ok /\ alone /\ job[h].op = "add"    -> "added"
                    [] ok /\ alone /\ job[h].op = "delete" -> "deleted"
                    [] OTHER                               -> ack[job[h].id]
  <1>1. ack' = [ack EXCEPT ![job[h].id] = v]
    BY DEF Acknowledge
  <1>2. \/ v = ack[job[h].id]
        \/ ok /\ alone /\ job[h].op = "add" /\ v = "added"
        \/ ok /\ alone /\ job[h].op = "delete" /\ v = "deleted"
    OBVIOUS
  <1>3. v \in {"none", "added", "deleted"}
    BY <1>2 DEF TypeOK
  <1>4. alone => \A g \in Handlers \ {h} : Busy(g) => job[g].id # job[h].id
    BY DEF Busy
  <1> HIDE DEF alone, v
  <1>5. QED
    BY <1>1, <1>2, <1>3, <1>4 DEF TypeOK

LEMMA StoreKeeps ==
    ASSUME Inv, NEW h \in Handlers, Store(h)
    PROVE  Inv'
  <1> USE DEF Inv
  <1> DEFINE i == job[h].id
  <1>m. /\ Moved(h, "idle") /\ job[h] \in Job
        /\ apps' \in Table /\ db' \in Table
        /\ apps'[i] = job[h].app
        /\ \A j \in IDs \ {i} : apps'[j] = apps[j]
        /\ db' \in {db, apps'}
    BY StoreMoves
  <1>f. /\ pc[h] = "save" /\ Busy(h) /\ known' = known \cup {i}
        /\ UNCHANGED <<proc, todo, listeners, bound>>
    BY DEF Store, Busy
  <1>p. i \in IDs /\ proc = "up" /\ (job[h].op = "delete" <=> job[h].app = Nil)
    BY <1>m, <1>f, JobFields DEF JobInv
  <1>k. PICK ok \in BOOLEAN : (ok => db' = apps') /\ Acknowledge(h, ok)
    BY DEF Store, Save
  <1>a. /\ ack' \in [IDs -> {"none", "added", "deleted"}]
        /\ \A j \in IDs \ {i} : ack'[j] = ack[j]
        /\ \/ ack'[i] = ack[i]
           \/ /\ db' = apps' /\ \A g \in Handlers \ {h} : Busy(g) => job[g].id # i
              /\ \/ job[h].op = "add" /\ ack'[i] = "added"
                 \/ job[h].op = "delete" /\ ack'[i] = "deleted"
    BY <1>k, <1>p, AckEffect
  <1>c. calm' = (calm /\ OwnEndpoints(apps'))
    BY <1>k DEF Acknowledge
  <1>g. /\ pc'[h] = "idle"
        /\ \A g \in Handlers : pc'[g] # "idle" => g # h /\ Busy(g) /\ pc'[g] = pc[g] /\ job'[g] = job[g]
    BY <1>m DEF Moved, Busy
  <1> HIDE DEF i
  <1>1. TypeOK'
    <2>1. calm' \in BOOLEAN
      BY <1>c DEF TypeOK, OwnEndpoints
    <2>2. QED
      BY <2>1, <1>m, <1>f, <1>a, <1>p DEF TypeOK, Moved, Labels
  <1>2. JobInv'
    BY <1>g, <1>f DEF JobInv, Busy
  <1>3. KnownInv'
    <2>1. ASSUME NEW j \in IDs \ known'
          PROVE  apps'[j] = Nil /\ db'[j] = Nil /\ ack'[j] = "none"
      BY <1>m, <1>f, <1>a DEF KnownInv
    <2>2. ASSUME NEW g \in Handlers, pc'[g] # "idle"
          PROVE  job'[g].op = "add" <=> job'[g].id \notin known'
      <3>1. CASE job[g].id = i
        <4>1. job[g].op # "add"
          BY <3>1, <2>2, <1>g, <1>f DEF KnownInv, i
        <4>2. QED
          BY <4>1, <3>1, <2>2, <1>g, <1>f
      <3>2. CASE job[g].id # i
        BY <3>2, <2>2, <1>g, <1>f DEF KnownInv
      <3>3. QED
        BY <3>1, <3>2
    <2>3. QED
      BY <2>1, <2>2, <1>g DEF KnownInv, Busy
  <1>4. SocketsRegistered'
    BY <1>m, <1>f DEF Moved, SocketsRegistered
  <1>5. AckInv'
    <2> SUFFICES ASSUME NEW j \in IDs
                 PROVE  /\ ack'[j] = "added" =>
                              /\ db'[j] # Nil /\ apps'[j] # Nil
                              /\ \A g \in Handlers : pc'[g] # "idle" /\ job'[g].op = "delete" => job'[g].id # j
                        /\ ack'[j] = "deleted" =>
                              /\ db'[j] = Nil /\ apps'[j] = Nil
                              /\ \A g \in Handlers : pc'[g] # "idle" /\ job'[g].op # "delete" => job'[g].id # j
      BY <1>p, <1>f DEF AckInv, Busy
    <2>1. CASE j # i
      BY <2>1, <1>m, <1>a, <1>g, <1>p DEF AckInv
    <2>2. CASE j = i /\ ack'[i] = ack[i]
      BY <2>2, <1>m, <1>f, <1>p, <1>g DEF AckInv, i
    <2>3. CASE j = i /\ ack'[i] # ack[i]
      BY <2>3, <1>m, <1>a, <1>g, <1>p
    <2>4. QED
      BY <2>1, <2>2, <2>3
  <1>6. BootInv'
    BY <1>p, <1>f DEF BootInv
  <1>7. CalmInv'
    <2> SUFFICES ASSUME calm /\ OwnEndpoints(apps') PROVE CalmInv'
      BY <1>c DEF CalmInv
    <2>1. /\ Agree(IDs \ {i}, Own(job[h].app))
          /\ Running(job[h].app) => job[h].app.ep \in listeners \cup {AnyPort}
          /\ \A g \in Handlers : Busy(g) => g = h
      BY <1>f DEF CalmInv, i
    <2>2. \A g \in Handlers : pc'[g] = "idle"
      BY <2>1, <1>g
    <2>3. \A j \in IDs : Running(apps'[j]) => apps'[j].ep \in listeners' \cup {AnyPort}
      BY <2>1, <1>m, <1>f DEF Agree
    <2>4. ASSUME NEW e \in listeners'
          PROVE  \E j \in IDs : Running(apps'[j]) /\ apps'[j].ep \in {e, AnyPort}
      <3>1. CASE e \in Own(job[h].app)
        BY <3>1, <1>m, <1>p DEF Own
      <3>2. CASE e \notin Own(job[h].app)
        <4>1. PICK j \in IDs \ {i} : Running(apps[j]) /\ apps[j].ep \in {e, AnyPort}
          BY <3>2, <2>1, <2>4, <1>f DEF Agree
        <4>2. QED
          BY <4>1, <1>m
      <3>3. QED
        BY <3>1, <3>2
    <2>5. Agree(IDs, {})'
      BY <2>3, <2>4 DEF Agree
    <2>6. QED
      BY <2>2, <2>5 DEF CalmInv, Busy
  <1>8. QED
    BY <1>1, <1>2, <1>3, <1>4, <1>5, <1>6, <1>7

-----------------------------------------------------------------------------
LEMMA StutterKeeps ==
    ASSUME Inv, UNCHANGED vars
    PROVE  Inv'
  <1> USE DEF Inv, vars
  <1>1. TypeOK' /\ JobInv' /\ KnownInv' /\ SocketsRegistered' /\ AckInv'
    BY DEF TypeOK, JobInv, KnownInv, SocketsRegistered, AckInv, Busy
  <1>2. BootInv'
    BY DEF BootInv, Agree
  <1>3. CalmInv'
    BY DEF CalmInv, Agree, OwnEndpoints, Own, Quiet, Busy
  <1>4. QED
    BY <1>1, <1>2, <1>3

LEMMA StepInv == Inv /\ [Next]_vars => Inv'
  <1> SUFFICES ASSUME Inv, [Next]_vars PROVE Inv'
    OBVIOUS
  <1>1. CASE LoadPortmapApps \/ Serve \/ Crash
    BY <1>1, LoadKeeps, ServeKeeps, CrashKeeps
  <1>2. CASE \E i \in IDs : BootListen(i) \/ BootListenFails(i)
    BY <1>2, BootListenKeeps, BootListenFailsKeeps
  <1>3. ASSUME NEW h \in Handlers, HandlerStep(h) PROVE Inv'
    <2>1. ASSUME NEW i \in IDs, NEW a \in Choice[i], addApp(h, i, a) \/ updateApp(h, i, a)
          PROVE  Inv'
      <3>1. a \in App
        BY ChoiceAssumption
      <3>2. QED
        BY <2>1, <3>1, addAppKeeps, updateAppKeeps
    <2>2. ASSUME NEW i \in IDs, deleteApp(h, i) PROVE Inv'
      BY <2>2, deleteAppKeeps
    <2>3. CASE Refused(h) \/ RemoveListener(h) \/ Listen(h) \/ ListenFails(h)
      BY <2>3, RefusedKeeps, RemoveListenerKeeps, ListenKeeps, ListenFailsKeeps
    <2>4. CASE SkipListen(h) \/ Register(h) \/ Store(h)
      BY <2>4, SkipListenKeeps, RegisterKeeps, StoreKeeps
    <2>5. QED
      BY <1>3, <2>1, <2>2, <2>3, <2>4 DEF HandlerStep
  <1>4. CASE UNCHANGED vars
    BY <1>4, StutterKeeps
  <1>5. QED
    BY <1>1, <1>2, <1>3, <1>4 DEF Next

\* The inductive invariant holds of the gateway's applications and listeners.
THEOREM Invariant == Spec => []Inv
  BY InitInv, StepInv, PTL DEF Spec

\* The variables of PortmapApps keep their types.
THEOREM Typed == Spec => []TypeOK
  <1>1. Inv => TypeOK
    BY DEF Inv
  <1>2. QED
    BY <1>1, Invariant, PTL

\* No socket is lost, whatever AddListener and DeleteListener calls meet: each
\* one is in Portmap.listeners or about to be stored there.
THEOREM SocketsKept == Spec => []SocketsRegistered
  <1>1. Inv => SocketsRegistered
    BY DEF Inv
  <1>2. QED
    BY <1>1, Invariant, PTL

\* What addApp or deleteApp has acknowledged is found again after any number of
\* restarts (savePortmap, LoadPortmapApps).
THEOREM AcknowledgedSurvives == Spec => []AckedSurvives
  <1>1. Inv => AckedSurvives
    BY DEF Inv, AckInv, AckedSurvives
  <1>2. QED
    BY <1>1, Invariant, PTL

\* With endpoints of their own, listeners that agree with the applications serve
\* every one that runs, and no other; with ports of their own, connections find
\* them.
LEMMA AgreeServes ==
    ASSUME TypeOK, OwnEndpoints(apps), Agree(IDs, {})
    PROVE  Served /\ Wanted /\ (OwnPorts => Directed)
  <1>1. ASSUME NEW i \in IDs, Running(apps[i])
        PROVE  apps[i].ep \in listeners
    <2>1. apps[i].ep # AnyPort
      BY <1>1 DEF OwnEndpoints, Running
    <2>2. QED
      BY <1>1, <2>1 DEF Agree
  <1>2. ASSUME NEW e \in listeners
        PROVE  \E i \in IDs : Running(apps[i]) /\ apps[i].ep = e
    BY <1>2 DEF Agree, OwnEndpoints, Running
  <1>3. ASSUME OwnPorts, NEW e \in listeners
        PROVE  /\ FindAppWithPort(e) # {}
               /\ \A j \in FindAppWithPort(e) : Running(apps[j]) /\ apps[j].ep = e
    <2>1. PICK i \in IDs : Running(apps[i]) /\ apps[i].ep = e
      BY <1>2
    <2>2. \A j \in FindAppWithPort(e) : j = i
      BY <2>1, <1>3 DEF FindAppWithPort, OwnPorts
    <2>3. i \in FindAppWithPort(e)
      BY <2>1 DEF FindAppWithPort, Running
    <2>4. QED
      BY <2>1, <2>2, <2>3
  <1>4. QED
    BY <1>1, <1>2, <1>3 DEF Served, Wanted, Directed

\* While requests come one at a time and applications keep endpoints of their own,
\* the listeners are those of the running applications (addApp, updateApp,
\* deleteApp); while their ports differ too, a connection is for the application
\* that listens where it was accepted (FindAppWithPort).
THEOREM ListenersFollow == Spec => []ListenersAgree
  <1>1. Inv => ListenersAgree
    <2> SUFFICES ASSUME Inv, calm, Quiet PROVE Served /\ Wanted /\ (OwnPorts => Directed)
      BY DEF ListenersAgree
    <2>1. TypeOK /\ OwnEndpoints(apps) /\ Agree(IDs, {})
      BY DEF Inv, CalmInv, Quiet
    <2>2. QED
      BY <2>1, AgreeServes
  <1>2. QED
    BY <1>1, Invariant, PTL

\* Run leaves exactly the listeners of the running applications, whatever state
\* the process before it was in, and connections find the application of their
\* listener if the ports differ.
THEOREM RestartRepaired == Spec => RestartRepairs
  <1> DEFINE Repaired == Served /\ Wanted /\ (OwnPorts => Directed)
  <1>1. Inv /\ [Next]_vars =>
            [proc = "boot" /\ proc' = "up" => (OwnEndpoints(apps) => Repaired)']_vars
    <2> SUFFICES ASSUME Inv, [Next]_vars, proc = "boot", proc' = "up", OwnEndpoints(apps)'
                 PROVE  Repaired'
      BY DEF vars
    <2>1. todo = {} /\ UNCHANGED <<apps, listeners>>
      BY DEF Next, vars, LoadPortmapApps, Serve, Crash, BootListen, BootListenFails, HandlerStep,
             addApp, updateApp, deleteApp, Begin, Refused, RemoveListener, Listen, ListenFails,
             SkipListen, Register, Store
    <2>2. Agree(IDs, {})
      BY <2>1 DEF Inv, BootInv, Agree
    <2>3. TypeOK /\ OwnEndpoints(apps)
      BY <2>1 DEF Inv, OwnEndpoints
    <2>4. Served /\ Wanted /\ (OwnPorts => Directed)
      BY <2>2, <2>3, AgreeServes
    <2>5. QED
      BY <2>1, <2>4 DEF Served, Wanted, OwnPorts, Directed, FindAppWithPort
  <1>2. QED
    BY <1>1, Invariant, PTL DEF Spec, RestartRepairs
=============================================================================
