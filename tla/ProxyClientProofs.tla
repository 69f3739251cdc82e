-------------------------- MODULE ProxyClientProofs --------------------------
(***************************************************************************)
(* Proofs of the safety properties of ProxyClient, for any number of       *)
(* handlers, outbounds, peers and addresses, whatever networks users enter *)
(* and whichever calls fail.                                               *)
(***************************************************************************)
EXTENDS ProxyClient, TLAPS

\* What a handler at work has at hand at each of its steps.
JobOf(h) ==
    Active(h) =>
        /\ proc = "up"
        /\ job[h] \in Job
        /\ job[h].op = "delete" <=> job[h].ob = Nil
        /\ pc[h] = "get" => job[h].op # "add"
        /\ pc[h] = "unroute" => job[h].op = "update"
        /\ pc[h] \in {"check", "tun", "route"} => job[h].op # "delete"
        /\ pc[h] = "route" => job[h].ob.open
        /\ pc[h] = "forget" => job[h].op = "delete"
        /\ pc[h] \in {"unroute", "forget"} =>
              job[h].old # Nil /\ <<job[h].id, job[h].old.net>> \in entered
        /\ pc[h] \in {"tun", "route"} => <<job[h].id, job[h].ob.net>> \in entered

JobInv == \A h \in Handlers : JobOf(h)

\* The table that runs has only networks that were entered.
EnteredInv == proc # "down" =>
    \A i \in IDs : outbounds[i] # Nil => <<i, outbounds[i].net>> \in entered

\* The outbound o is what was acknowledged as a, or Start has closed it.
Matches(o, a) == o = a \/ (a # Nil /\ o = Closed(a))

\* What was acknowledged is in the database and in the table, since any handler
\* may save the table as a whole.
AckOf(i) == ack[i] # Unsure => /\ Matches(db[i], ack[i])
                               /\ proc # "down" => Matches(outbounds[i], ack[i])

\* Nothing is acknowledged about the outbound of a handler, unless it is being
\* added and not stored yet.  A handler that was alone with its outbound knows
\* what the table and the database have of it.
HandlerAck(h) ==
    Active(h) =>
        /\ \/ ack[job[h].id] = Unsure
           \/ /\ ack[job[h].id] = Nil /\ job[h].op = "add" /\ job[h].alone
              /\ pc[h] \in {"check", "store"}
        /\ job[h].alone =>
              /\ \A g \in Handlers : About(g, job[h].id) => g = h
              /\ pc[h] \in {"tun", "route", "forget"} =>
                    outbounds[job[h].id] = job[h].ob /\ db[job[h].id] = job[h].ob
              /\ pc[h] = "store" /\ job[h].op = "delete" => outbounds[job[h].id] # Nil

AckInv == (\A i \in IDs : AckOf(i)) /\ (\A h \in Handlers : HandlerAck(h))

\* Every route of the router is that of an open outbound in S, or begins in M.
Owned(S, M) ==
    \A r \in routes : \/ r.min \in M
                      \/ \E i \in S : Open(outbounds[i]) /\ r = RouteOf(outbounds[i])

\* Every route of the system that no failed removal left behind is that of an
\* outbound in S that is open or gone.
SysOwned(S) ==
    \A n \in sys \ leftover : \E i \in S : /\ <<i, n>> \in entered
                                           /\ \/ outbounds[i] = Nil
                                              \/ outbounds[i].open /\ outbounds[i].net = n

\* Start has routed the outbounds it is done with, and nothing else.
BootInv ==
    /\ proc = "down" => routes = {} /\ sys = {}
    /\ proc = "boot" =>
          /\ \A i \in todo : Open(outbounds[i])
          /\ Owned(IDs \ todo, {}) /\ SysOwned(IDs \ todo)
          /\ Unmixed => \A i \in IDs \ todo : Open(outbounds[i]) => RouteOf(outbounds[i]) \in routes

\* Where the routes stand while an undisturbed handler works on its outbound.
RoutesOf(h) ==
    /\ pc[h] = "get" => Owned(IDs, {})
    /\ pc[h] = "unroute" => Owned(IDs, {}) /\ job[h].old = outbounds[job[h].id]
    /\ pc[h] = "check" \/ (pc[h] = "store" /\ job[h].op # "delete") \/ pc[h] \in {"tun", "route"} =>
          Owned(IDs \ {job[h].id}, {}) /\ SysOwned(IDs \ {job[h].id})
    /\ pc[h] \in {"tun", "route"} => outbounds[job[h].id] = job[h].ob
    /\ pc[h] = "store" /\ job[h].op = "delete" => Owned(IDs, {})
    /\ pc[h] = "forget" => Owned(IDs \ {job[h].id}, {job[h].old.net.min})

Routed == \A i \in IDs : Open(outbounds[i]) /\ ack[i] # Unsure => RouteOf(outbounds[i]) \in routes

CalmInv ==
    proc = "up" /\ noise = 0 =>
        /\ \A g, h \in Handlers : Active(g) /\ Active(h) => g = h
        /\ (\A h \in Handlers : ~Active(h)) => Owned(IDs, {})
        /\ SysOwned(IDs)
        /\ \A h \in Handlers : RoutesOf(h)
        /\ Unmixed => Routed

Inv == TypeOK /\ JobInv /\ EnteredInv /\ AckInv /\ BootInv /\ CalmInv

-----------------------------------------------------------------------------
(* Networks and routes.                                                     *)

LEMMA OutboundFields ==
    ASSUME NEW o \in Outbound
    PROVE  /\ o # Nil /\ o.net \in Net /\ o.peer \in Peers /\ o.open \in BOOLEAN
           /\ o.net.min \in Nat /\ o.net.max \in Nat /\ o.net.min <= o.net.max
           /\ RouteOf(o) \in Router!Route
           /\ RouteOf(o).min = o.net.min /\ RouteOf(o).max = o.net.max
           /\ RouteOf(o).dialer = o.peer
  <1>1. o # Nil /\ o.net \in Net /\ o.peer \in Peers /\ o.open \in BOOLEAN
    BY NamesAssumption DEF Outbound
  <1>2. o.net.min \in Addr /\ o.net.max \in Addr /\ o.net.min <= o.net.max
    BY <1>1 DEF Net
  <1>3. QED
    BY <1>1, <1>2, AddrAssumption DEF RouteOf, Router!Route

\* An outbound that Start has closed is still one.
LEMMA ClosedOutbound ==
    ASSUME NEW o \in Outbound
    PROVE  /\ Closed(o) \in Outbound /\ Closed(o) # Nil /\ ~Open(Closed(o))
           /\ Closed(o).net = o.net /\ Closed(Closed(o)) = Closed(o)
  BY NamesAssumption DEF Closed, Outbound, Open

\* Networks that are apart begin at different addresses.
LEMMA ApartMin ==
    ASSUME NEW o \in Outbound, NEW p \in Outbound, Router!Apart(o.net, p.net)
    PROVE  o.net.min # p.net.min /\ Router!Apart(RouteOf(o), RouteOf(p))
  BY OutboundFields DEF Router!Apart

\* addRoute puts the route in, or finds another one in its way; it removes at
\* most the one that begins at the same address.
LEMMA addRouteEffect ==
    ASSUME routes \subseteq Router!Route, NEW o \in Outbound, addRoute(o)
    PROVE  /\ routes' \subseteq Router!Route
           /\ routes' \subseteq routes \cup {RouteOf(o)}
           /\ \A s \in routes : s.min # o.net.min => s \in routes'
           /\ RouteOf(o) \in routes' \/ \E s \in routes : ~Router!Apart(RouteOf(o), s)
  <1> DEFINE r == RouteOf(o)
  <1>1. r \in Router!Route /\ r.min = o.net.min
    BY OutboundFields
  <1>2. \/ Router!Add(r)
        \/ Router!Replace(r)
        \/ /\ \E s \in routes : ~Router!Apart(r, s)
           /\ UNCHANGED routes
    BY DEF addRoute
  <1> HIDE DEF r
  <1>3. CASE Router!Add(r)
    <2>1. routes' = routes \cup {r}
      BY <1>3 DEF Router!Add
    <2>2. QED
      BY <2>1, <1>1 DEF r
  <1>4. CASE Router!Replace(r)
    <2>1. routes' = {s \in routes : s.min # r.min} \cup {r}
      BY <1>4 DEF Router!Replace
    <2>2. QED
      BY <2>1, <1>1 DEF r
  <1>5. CASE (\E s \in routes : ~Router!Apart(r, s)) /\ UNCHANGED routes
    BY <1>5 DEF r
  <1>6. QED
    BY <1>2, <1>3, <1>4, <1>5

LEMMA startTunType ==
    ASSUME NEW ok \in BOOLEAN, tun \in {"off", "on", "held"}, startTunStack(ok)
    PROVE  tun' \in {"off", "on", "held"}
  BY DEF startTunStack

-----------------------------------------------------------------------------
(* What the steps of a handler do to pc, job and ack.                       *)

Labels == {"idle", "get", "unroute", "check", "store", "tun", "route", "forget"}
Acks == [IDs -> Outbound \cup {Nil, Unsure}]

\* Handler h is at l, and no other handler has moved.
Moved(h, l) ==
    /\ pc' \in [Handlers -> Labels] /\ job' \in [Handlers -> Job \cup {Nil}]
    /\ pc'[h] = l
    /\ \A g \in Handlers \ {h} : pc'[g] = pc[g] /\ job'[g] = job[g]

\* Its request is still the same one.
SameJob(h) ==
    /\ job'[h] \in Job
    /\ job'[h].op = job[h].op /\ job'[h].id = job[h].id /\ job'[h].ob = job[h].ob
    /\ job'[h].alone = job[h].alone

LEMMA JobFields ==
    ASSUME NEW j \in Job
    PROVE  /\ j.op \in {"add", "update", "delete"} /\ j.id \in IDs
           /\ j.ob \in Outbound \cup {Nil} /\ j.old \in Outbound \cup {Nil} /\ j.alone \in BOOLEAN
  BY DEF Job

LEMMA FinishMoves ==
    ASSUME TypeOK, NEW h \in Handlers, Finish(h)
    PROVE  Moved(h, "idle")
  BY DEF Finish, Goto, TypeOK, Moved, Labels

LEMMA StayMoves ==
    ASSUME TypeOK, JobInv, NEW h \in Handlers, Active(h), NEW l \in Labels, Goto(h, l), UNCHANGED job
    PROVE  Moved(h, l) /\ SameJob(h) /\ job'[h] = job[h]
  BY DEF Goto, TypeOK, Moved, SameJob, Labels, JobInv, JobOf

LEMMA OldMoves ==
    ASSUME TypeOK, JobInv, NEW h \in Handlers, Active(h), NEW l \in Labels, Goto(h, l),
           NEW o \in Outbound, job' = [job EXCEPT ![h].old = o]
    PROVE  Moved(h, l) /\ SameJob(h) /\ job'[h].old = o
  <1>1. job[h] \in Job
    BY DEF JobInv, JobOf
  <1>2. PICK j \in Job : /\ job' = [job EXCEPT ![h] = j]
                         /\ j.op = job[h].op /\ j.id = job[h].id /\ j.ob = job[h].ob
                         /\ j.alone = job[h].alone /\ j.old = o
    <2>1. [job[h] EXCEPT !.old = o] \in Job
      BY <1>1 DEF Job
    <2>2. /\ [job[h] EXCEPT !.old = o].op = job[h].op /\ [job[h] EXCEPT !.old = o].id = job[h].id
          /\ [job[h] EXCEPT !.old = o].ob = job[h].ob
          /\ [job[h] EXCEPT !.old = o].alone = job[h].alone /\ [job[h] EXCEPT !.old = o].old = o
      BY <1>1 DEF Job
    <2>3. QED
      BY <2>1, <2>2
  <1>3. QED
    BY <1>2 DEF Goto, TypeOK, Moved, SameJob, Labels

LEMMA DoubtEffect ==
    ASSUME TypeOK, NEW h \in Handlers, job[h].id \in IDs, Doubt(h)
    PROVE  /\ ack' \in Acks /\ ack'[job[h].id] = Unsure
           /\ \A i \in IDs \ {job[h].id} : ack'[i] = ack[i]
  BY DEF Doubt, TypeOK, Acks

LEMMA SucceedEffect ==
    ASSUME TypeOK, NEW h \in Handlers, job[h] \in Job, Succeed(h)
    PROVE  /\ Moved(h, "idle")
           /\ ack' \in Acks
           /\ IF job[h].alone THEN ack'[job[h].id] = job[h].ob ELSE ack' = ack
           /\ \A i \in IDs \ {job[h].id} : ack'[i] = ack[i]
  <1>1. Moved(h, "idle")
    BY FinishMoves DEF Succeed
  <1>2. job[h].id \in IDs /\ job[h].ob \in Outbound \cup {Nil}
    BY JobFields
  <1>3. ack' = IF job[h].alone THEN [ack EXCEPT ![job[h].id] = job[h].ob] ELSE ack
    BY DEF Succeed
  <1>4. QED
    BY <1>1, <1>2, <1>3 DEF TypeOK, Acks

\* The fields of a handler at work.
LEMMA AtWork ==
    ASSUME Inv, NEW h \in Handlers, Active(h)
    PROVE  /\ proc = "up" /\ job[h] \in Job /\ job[h].id \in IDs
           /\ job[h].op \in {"add", "update", "delete"}
           /\ job[h].ob \in Outbound \cup {Nil} /\ job[h].old \in Outbound \cup {Nil}
           /\ job[h].alone \in BOOLEAN
           /\ job[h].op # "delete" => job[h].ob \in Outbound
           /\ pc[h] \in {"unroute", "forget"} => job[h].old \in Outbound
  BY JobFields DEF Inv, JobInv, JobOf

\* Unmixed, for two networks that were entered.
LEMMA UnmixedApart ==
    ASSUME Unmixed, NEW i, NEW j, i # j, NEW n, NEW m, <<i, n>> \in entered, <<j, m>> \in entered
    PROVE  Router!Apart(n, m)
  <1>1. <<i, n>>[1] = i /\ <<i, n>>[2] = n /\ <<j, m>>[1] = j /\ <<j, m>>[2] = m
    OBVIOUS
  <1>2. \A x, y \in entered : x[1] # y[1] => Router!Apart(x[2], y[2])
    BY DEF Unmixed
  <1>3. QED
    BY <1>1, <1>2

\* With networks that are apart, the route of an outbound finds no other one in
\* its way and leaves the routes of the others alone.
LEMMA addRouteUnmixed ==
    ASSUME TypeOK, EnteredInv, proc # "down", Unmixed, NEW i \in IDs, NEW o \in Outbound,
           <<i, o.net>> \in entered, Owned(IDs \ {i}, {}), addRoute(o)
    PROVE  /\ RouteOf(o) \in routes'
           /\ \A j \in IDs \ {i} : Open(outbounds[j]) /\ RouteOf(outbounds[j]) \in routes =>
                 RouteOf(outbounds[j]) \in routes'
  <1>1. /\ \A s \in routes : s.min # o.net.min => s \in routes'
        /\ RouteOf(o) \in routes' \/ \E s \in routes : ~Router!Apart(RouteOf(o), s)
    BY addRouteEffect DEF TypeOK
  <1>2. ASSUME NEW j \in IDs \ {i}, Open(outbounds[j])
        PROVE  /\ Router!Apart(RouteOf(o), RouteOf(outbounds[j]))
               /\ RouteOf(outbounds[j]).min # o.net.min
    <2>1. outbounds[j] \in Outbound
      BY <1>2 DEF TypeOK, Table, Open
    <2>2. <<j, outbounds[j].net>> \in entered
      BY <1>2 DEF EnteredInv, Open
    <2>3. Router!Apart(o.net, outbounds[j].net)
      BY <2>2, UnmixedApart
    <2>4. QED
      BY <2>1, <2>3, ApartMin, OutboundFields
  <1>3. \A s \in routes : Router!Apart(RouteOf(o), s)
    BY <1>2 DEF Owned
  <1>4. QED
    BY <1>1, <1>2, <1>3

-----------------------------------------------------------------------------
(* Start and Stop.                                                          *)

LEMMA InitInv == Init => Inv
  <1> SUFFICES ASSUME Init PROVE Inv
    OBVIOUS
  <1>1. TypeOK
    BY MaxNoiseAssumption DEF Init, TypeOK, Table, Empty
  <1>2. JobInv /\ EnteredInv
    BY DEF Init, JobInv, JobOf, EnteredInv, Active
  <1>3. AckInv
    BY DEF Init, AckInv, AckOf, HandlerAck, Active, Matches, Empty
  <1>4. BootInv /\ CalmInv
    BY DEF Init, BootInv, CalmInv
  <1>5. QED
    BY <1>1, <1>2, <1>3, <1>4 DEF Inv

LEMMA loadOutboundsKeeps ==
    ASSUME Inv, loadOutbounds
    PROVE  Inv'
  <1> USE DEF Inv
  <1>f. /\ proc = "down" /\ proc' = "boot" /\ outbounds' = db /\ noise' = 0
        /\ todo' = {i \in IDs : Open(db[i])}
        /\ UNCHANGED <<db, routes, sys, leftover, tun, pc, job, ack>>
    BY DEF loadOutbounds, net
  <1>e. entered' = {<<i, db[i].net>> : i \in {j \in IDs : db[j] # Nil}}
    BY DEF loadOutbounds
  <1>n. \A i \in IDs : db[i] # Nil => db[i].net \in Net
    BY OutboundFields DEF TypeOK, Table
  <1>i. \A h \in Handlers : ~Active(h) /\ ~Active(h)'
    BY <1>f DEF JobInv, JobOf, Active
  <1>1. TypeOK'
    <2>1. entered' \subseteq IDs \X Net
      BY <1>e, <1>n
    <2>2. noise' \in 0 .. MaxNoise
      BY <1>f, MaxNoiseAssumption
    <2>3. QED
      BY <2>1, <2>2, <1>f DEF TypeOK
  <1>2. JobInv'
    BY <1>i DEF JobInv, JobOf
  <1>3. EnteredInv'
    BY <1>e, <1>f DEF EnteredInv
  <1>4. AckInv'
    BY <1>f, <1>i DEF AckInv, AckOf, HandlerAck
  <1>5. BootInv'
    BY <1>f DEF BootInv, Owned, SysOwned
  <1>6. CalmInv'
    BY <1>f DEF CalmInv
  <1>7. QED
    BY <1>1, <1>2, <1>3, <1>4, <1>5, <1>6

LEMMA StartOutboundKeeps ==
    ASSUME Inv, NEW i \in IDs, StartOutbound(i)
    PROVE  Inv'
  <1> USE DEF Inv
  <1> DEFINE o == outbounds[i]
  <1>f. /\ proc = "boot" /\ i \in todo /\ todo' = todo \ {i}
        /\ addRoute(o) /\ startTunStack(TRUE) /\ sys' \in {sys, sys \cup {o.net}} /\ leftover' = leftover
        /\ UNCHANGED <<proc, outbounds, db, pc, job, ack, entered, noise>>
    BY DEF StartOutbound, RouteAdd, hist
  <1>o. o \in Outbound /\ Open(o) /\ o.net \in Net /\ <<i, o.net>> \in entered
    BY <1>f, OutboundFields DEF BootInv, Open, TypeOK, Table, EnteredInv
  <1>r. routes' \subseteq Router!Route /\ routes' \subseteq routes \cup {RouteOf(o)}
    BY <1>f, <1>o, addRouteEffect DEF TypeOK
  <1>i. \A h \in Handlers : ~Active(h) /\ ~Active(h)'
    BY <1>f DEF JobInv, JobOf, Active
  <1>b. /\ \A j \in todo : Open(outbounds[j])
        /\ Owned(IDs \ todo, {}) /\ SysOwned(IDs \ todo)
        /\ Unmixed => \A j \in IDs \ todo : Open(outbounds[j]) => RouteOf(outbounds[j]) \in routes
    BY <1>f DEF BootInv
  <1>1. TypeOK'
    <2>1. tun' \in {"off", "on", "held"}
      BY <1>f, startTunType DEF TypeOK
    <2>2. QED
      BY <2>1, <1>f, <1>o, <1>r DEF TypeOK
  <1>2. JobInv'
    BY <1>i DEF JobInv, JobOf
  <1>3. EnteredInv'
    BY <1>f DEF EnteredInv
  <1>4. AckInv'
    BY <1>f, <1>i DEF AckInv, AckOf, HandlerAck
  <1>5. BootInv'
    <2>1. Owned(IDs \ todo, {})'
      BY <1>b, <1>f, <1>o, <1>r DEF Owned
    <2>2. SysOwned(IDs \ todo)'
      BY <1>b, <1>f, <1>o DEF SysOwned, Open
    <2>3. ASSUME Unmixed', NEW j \in IDs \ todo', Open(outbounds'[j])
          PROVE  RouteOf(outbounds'[j]) \in routes'
      <3>1. Unmixed
        BY <2>3, <1>f DEF Unmixed
      <3>2. Owned(IDs \ {i}, {})
        BY <1>b, <1>f DEF Owned
      <3>3. /\ RouteOf(o) \in routes'
            /\ \A k \in IDs \ {i} : Open(outbounds[k]) /\ RouteOf(outbounds[k]) \in routes =>
                  RouteOf(outbounds[k]) \in routes'
        BY <3>1, <3>2, <1>f, <1>o, addRouteUnmixed
      <3>4. QED
        BY <2>3, <3>1, <3>3, <1>b, <1>f
    <2>4. QED
      BY <2>1, <2>2, <2>3, <1>b, <1>f DEF BootInv
  <1>6. CalmInv'
    BY <1>f DEF CalmInv
  <1>7. QED
    BY <1>1, <1>2, <1>3, <1>4, <1>5, <1>6

LEMMA StartOutboundFailsKeeps ==
    ASSUME Inv, NEW i \in IDs, StartOutboundFails(i)
    PROVE  Inv'
  <1> USE DEF Inv
  <1>f. /\ proc = "boot" /\ i \in todo /\ todo' = todo \ {i} /\ startTunStack(FALSE)
        /\ UNCHANGED <<proc, routes, sys, leftover, pc, job, ack, entered, noise>>
    BY DEF StartOutboundFails, hist
  <1>o. outbounds[i] \in Outbound /\ Open(outbounds[i])
    BY <1>f DEF BootInv, Open, TypeOK, Table
  <1>c. PICK c \in Outbound : /\ c = Closed(outbounds[i]) /\ c # Nil /\ ~Open(c)
                              /\ c.net = outbounds[i].net
    BY <1>o, ClosedOutbound
  <1>a. /\ outbounds' \in Table /\ outbounds'[i] = c
        /\ \A j \in IDs \ {i} : outbounds'[j] = outbounds[j]
        /\ db' \in {db, outbounds'} /\ db' \in Table
    <2>1. outbounds' = [outbounds EXCEPT ![i] = c] /\ db' \in {db, outbounds'}
      BY <1>c DEF StartOutboundFails, saveOutbounds
    <2>2. QED
      BY <2>1 DEF TypeOK, Table
  <1>i. \A h \in Handlers : ~Active(h) /\ ~Active(h)'
    BY <1>f DEF JobInv, JobOf, Active
  <1>b. /\ \A j \in todo : Open(outbounds[j])
        /\ Owned(IDs \ todo, {}) /\ SysOwned(IDs \ todo)
        /\ Unmixed => \A j \in IDs \ todo : Open(outbounds[j]) => RouteOf(outbounds[j]) \in routes
    BY <1>f DEF BootInv
  <1>1. TypeOK'
    <2>1. tun' \in {"off", "on", "held"}
      BY <1>f, startTunType DEF TypeOK
    <2>2. QED
      BY <2>1, <1>f, <1>a DEF TypeOK
  <1>2. JobInv'
    BY <1>i DEF JobInv, JobOf
  <1>3. EnteredInv'
    BY <1>a, <1>c, <1>f, <1>o DEF EnteredInv, Open
  <1>4. AckInv'
    <2>1. ASSUME NEW j \in IDs, ack[j] # Unsure
          PROVE  Matches(db'[j], ack[j]) /\ Matches(outbounds'[j], ack[j])
      <3>1. Matches(db[j], ack[j]) /\ Matches(outbounds[j], ack[j])
        BY <2>1, <1>f DEF AckInv, AckOf
      <3>2. CASE j # i
        BY <3>1, <3>2, <1>a
      <3>3. CASE j = i
        <4>1. ack[j] # Nil /\ ack[j] \in Outbound
          BY <2>1, <3>1, <3>3, <1>o DEF Matches, Open, TypeOK
        <4>2. c = Closed(ack[j])
          BY <4>1, <3>1, <3>3, <1>c, ClosedOutbound DEF Matches
        <4>3. QED
          BY <4>1, <4>2, <3>1, <3>3, <1>a DEF Matches
      <3>4. QED
        BY <3>2, <3>3
    <2>2. QED
      BY <2>1, <1>f, <1>i DEF AckInv, AckOf, HandlerAck
  <1>5. BootInv'
    <2>1. Owned(IDs \ todo, {})'
      BY <1>b, <1>f, <1>a DEF Owned
    <2>2. SysOwned(IDs \ todo)'
      BY <1>b, <1>f, <1>a DEF SysOwned
    <2>3. \A j \in todo' : Open(outbounds'[j])
      BY <1>b, <1>f, <1>a DEF TypeOK
    <2>4. ASSUME Unmixed', NEW j \in IDs \ todo', Open(outbounds'[j])
          PROVE  RouteOf(outbounds'[j]) \in routes'
      <3>1. Unmixed
        BY <2>4, <1>f DEF Unmixed
      <3>2. j # i /\ outbounds'[j] = outbounds[j]
        BY <2>4, <1>a, <1>c
      <3>3. QED
        BY <2>4, <3>1, <3>2, <1>b, <1>f
    <2>5. QED
      BY <2>1, <2>2, <2>3, <2>4, <1>f DEF BootInv
  <1>6. CalmInv'
    BY <1>f DEF CalmInv
  <1>7. QED
    BY <1>1, <1>2, <1>3, <1>4, <1>5, <1>6

LEMMA ServeKeeps ==
    ASSUME Inv, Serve
    PROVE  Inv'
  <1> USE DEF Inv
  <1>f. /\ proc = "boot" /\ todo = {} /\ proc' = "up"
        /\ UNCHANGED <<todo, outbounds, db, routes, sys, leftover, tun, pc, job, ack, entered, noise>>
    BY DEF Serve, net, hist
  <1>i. \A h \in Handlers : ~Active(h) /\ ~Active(h)' /\ pc'[h] = "idle"
    BY <1>f DEF JobInv, JobOf, Active
  <1>1. TypeOK'
    BY <1>f DEF TypeOK
  <1>2. JobInv'
    BY <1>i DEF JobInv, JobOf
  <1>3. EnteredInv'
    BY <1>f DEF EnteredInv
  <1>4. AckInv'
    BY <1>f, <1>i DEF AckInv, AckOf, HandlerAck
  <1>5. BootInv'
    BY <1>f DEF BootInv
  <1>6. CalmInv'
    <2>1. Owned(IDs, {})' /\ SysOwned(IDs)'
      BY <1>f DEF BootInv, Owned, SysOwned
    <2>2. Unmixed' => Routed'
      BY <1>f DEF BootInv, Unmixed, Routed
    <2>3. \A h \in Handlers : RoutesOf(h)'
      BY <1>i DEF RoutesOf
    <2>4. QED
      BY <2>1, <2>2, <2>3, <1>i DEF CalmInv
  <1>7. QED
    BY <1>1, <1>2, <1>3, <1>4, <1>5, <1>6

LEMMA StopKeeps ==
    ASSUME Inv, Stop
    PROVE  Inv'
  <1> USE DEF Inv, Stop
  <1>i. \A h \in Handlers : ~Active(h)'
    BY DEF Active
  <1>1. TypeOK'
    BY MaxNoiseAssumption DEF TypeOK, Table, Empty
  <1>2. JobInv' /\ EnteredInv'
    BY <1>i DEF JobInv, JobOf, EnteredInv
  <1>3. AckInv'
    BY <1>i DEF AckInv, AckOf, HandlerAck
  <1>4. BootInv' /\ CalmInv'
    BY DEF BootInv, CalmInv
  <1>5. QED
    BY <1>1, <1>2, <1>3, <1>4

-----------------------------------------------------------------------------
(* A new request.                                                           *)

\* Handler h gets the request; the others go on with theirs, and those about the
\* same outbound are no longer alone with it.
LEMMA BeginMoves ==
    ASSUME Inv, NEW h \in Handlers, NEW op \in {"add", "update", "delete"}, NEW i \in IDs,
           NEW o \in Outbound \cup {Nil}, NEW l \in Labels, Begin(h, op, i, o, l)
    PROVE  /\ proc = "up" /\ ~Active(h)
           /\ UNCHANGED <<proc, todo, outbounds, db, routes, sys, leftover, tun, entered>>
           /\ pc' \in [Handlers -> Labels] /\ job' \in [Handlers -> Job \cup {Nil}]
           /\ noise' \in 0 .. MaxNoise
           /\ noise' = 0 => noise = 0 /\ \A g \in Handlers : ~Active(g)
           /\ pc'[h] = l /\ job'[h] \in Job
           /\ job'[h].op = op /\ job'[h].id = i /\ job'[h].ob = o
           /\ job'[h].alone <=> \A g \in Handlers : ~About(g, i)
           /\ \A g \in Handlers \ {h} : pc'[g] = pc[g] /\ (~About(g, i) => job'[g] = job[g])
           /\ \A g \in Handlers \ {h} : About(g, i) =>
                 /\ job'[g] \in Job /\ ~job'[g].alone
                 /\ job'[g].op = job[g].op /\ job'[g].id = job[g].id
                 /\ job'[g].ob = job[g].ob /\ job'[g].old = job[g].old
  <1> DEFINE free == \A g \in Handlers : ~About(g, i)
             new == [op |-> op, id |-> i, ob |-> o, old |-> Nil, alone |-> free]
             shared(g) == [job[g] EXCEPT !.alone = FALSE]
  <1>b. free \in BOOLEAN
    OBVIOUS
  <1>n. /\ new \in Job /\ new.op = op /\ new.id = i /\ new.ob = o /\ new.alone = free
    BY <1>b DEF Job
  <1>j. \A g \in Handlers : Active(g) => job[g] \in Job
    BY AtWork
  <1>s. ASSUME NEW g \in Handlers, About(g, i)
        PROVE  /\ shared(g) \in Job /\ shared(g).alone = FALSE
               /\ shared(g).op = job[g].op /\ shared(g).id = job[g].id
               /\ shared(g).ob = job[g].ob /\ shared(g).old = job[g].old
    BY <1>j, <1>s DEF About, Job
  <1>1. job' = [g \in Handlers |-> IF g = h THEN new ELSE IF About(g, i) THEN shared(g) ELSE job[g]]
    BY DEF Begin
  <1>2. /\ proc = "up" /\ ~Active(h) /\ pc' = [pc EXCEPT ![h] = l]
        /\ UNCHANGED <<proc, todo, outbounds, db, routes, sys, leftover, tun, entered>>
    BY DEF Begin, Goto, base, net
  <1>3. /\ noise' \in 0 .. MaxNoise
        /\ noise' = 0 => noise = 0 /\ \A g \in Handlers : ~Active(g)
    BY MaxNoiseAssumption DEF Begin, Inv, TypeOK
  <1>4. pc' \in [Handlers -> Labels] /\ pc'[h] = l /\ \A g \in Handlers \ {h} : pc'[g] = pc[g]
    BY <1>2 DEF Inv, TypeOK, Labels
  <1> HIDE DEF new, shared, free
  <1>5. /\ job'[h] = new
        /\ \A g \in Handlers \ {h} : ~About(g, i) => job'[g] = job[g]
        /\ \A g \in Handlers \ {h} : About(g, i) => job'[g] = shared(g)
    BY <1>1
  <1>6. job' \in [Handlers -> Job \cup {Nil}]
    BY <1>1, <1>n, <1>s DEF Inv, TypeOK
  <1>7. job'[h].alone <=> \A g \in Handlers : ~About(g, i)
    BY <1>5, <1>n DEF free
  <1>8. \A g \in Handlers \ {h} : About(g, i) =>
                 /\ job'[g] \in Job /\ ~job'[g].alone
                 /\ job'[g].op = job[g].op /\ job'[g].id = job[g].id
                 /\ job'[g].ob = job[g].ob /\ job'[g].old = job[g].old
    BY <1>5, <1>s
  <1>9. QED
    BY <1>2, <1>3, <1>4, <1>5, <1>6, <1>7, <1>8, <1>n

LEMMA BeginKeeps ==
    ASSUME Inv, NEW h \in Handlers, NEW op \in {"add", "update", "delete"}, NEW i \in IDs,
           NEW o \in Outbound \cup {Nil}, NEW l \in Labels, Begin(h, op, i, o, l),
           op = "delete" <=> o = Nil, ack' \in Acks, \A j \in IDs \ {i} : ack'[j] = ack[j],
           \/ /\ op = "add" /\ l = "check" /\ ack'[i] = Nil /\ ack[i] = Nil /\ outbounds[i] = Nil
              /\ \A g \in Handlers : ~About(g, i)
              /\ \A x \in entered : x[1] # i
           \/ op # "add" /\ l = "get" /\ ack'[i] = Unsure
    PROVE  Inv'
  <1> USE DEF Inv
  <1>f. /\ proc = "up" /\ ~Active(h)
        /\ UNCHANGED <<proc, todo, outbounds, db, routes, sys, leftover, tun, entered>>
        /\ pc' \in [Handlers -> Labels] /\ job' \in [Handlers -> Job \cup {Nil}]
        /\ noise' \in 0 .. MaxNoise
        /\ noise' = 0 => noise = 0 /\ \A g \in Handlers : ~Active(g)
    BY BeginMoves
  <1>h. /\ pc'[h] = l /\ job'[h] \in Job
        /\ job'[h].op = op /\ job'[h].id = i /\ job'[h].ob = o
        /\ job'[h].alone <=> \A g \in Handlers : ~About(g, i)
    BY BeginMoves
  <1>g. ASSUME NEW g \in Handlers \ {h}
        PROVE  pc'[g] = pc[g] /\ (~About(g, i) => job'[g] = job[g])
    BY BeginMoves
  <1>s. ASSUME NEW g \in Handlers \ {h}, About(g, i)
        PROVE  /\ job'[g] \in Job /\ ~job'[g].alone
               /\ job'[g].op = job[g].op /\ job'[g].id = job[g].id
               /\ job'[g].ob = job[g].ob /\ job'[g].old = job[g].old
    BY <1>s, BeginMoves
  <1>1. TypeOK'
    BY <1>f DEF TypeOK, Labels, Acks
  <1>2. JobInv'
    <2>1. JobOf(h)'
      BY <1>f, <1>h DEF JobOf
    <2>2. ASSUME NEW g \in Handlers \ {h}, Active(g)' PROVE JobOf(g)'
      <3>1. Active(g) /\ JobOf(g)
        BY <2>2, <1>g DEF Active, JobInv
      <3>2. CASE About(g, i)
        BY <3>1, <3>2, <1>f, <1>g, <1>s DEF JobOf
      <3>3. CASE ~About(g, i)
        BY <3>1, <3>3, <1>f, <1>g DEF JobOf
      <3>4. QED
        BY <3>2, <3>3
    <2>3. QED
      BY <2>1, <2>2 DEF JobInv, JobOf
  <1>3. EnteredInv'
    BY <1>f DEF EnteredInv
  <1>4. AckInv'
    <2>1. ASSUME NEW j \in IDs PROVE AckOf(j)'
      BY <1>f DEF AckInv, AckOf
    <2>2. ASSUME job'[h].alone, NEW g \in Handlers, About(g, i)' PROVE g = h
      BY <2>2, <1>g, <1>h DEF About, Active
    <2>3. HandlerAck(h)'
      BY <2>2, <1>h DEF HandlerAck
    <2>4. ASSUME NEW g \in Handlers \ {h}, Active(g)' PROVE HandlerAck(g)'
      <3>1. Active(g) /\ HandlerAck(g) /\ job[g].id \in IDs
        BY <2>4, <1>g, AtWork DEF Active, AckInv
      <3>2. CASE About(g, i)
        <4>1. job'[g].id = i /\ ack'[i] = Unsure /\ ~job'[g].alone
          BY <3>2, <1>s DEF About
        <4>2. QED
          BY <4>1 DEF HandlerAck
      <3>3. CASE ~About(g, i)
        <4>1. job'[g] = job[g] /\ pc'[g] = pc[g] /\ job[g].id # i
          BY <3>1, <3>3, <1>g DEF About
        <4>2. ack'[job[g].id] = ack[job[g].id]
          BY <4>1, <3>1
        <4>3. ASSUME job[g].alone, NEW k \in Handlers, About(k, job[g].id)' PROVE k = g
          <5>1. k # h
            BY <4>1, <4>3, <1>h DEF About
          <5>2. About(k, job[g].id)
            BY <5>1, <4>1, <4>3, <1>g, <1>s DEF About, Active
          <5>3. QED
            BY <5>2, <4>3, <3>1 DEF HandlerAck
        <4>4. QED
          BY <4>1, <4>2, <4>3, <3>1, <1>f DEF HandlerAck
      <3>4. QED
        BY <3>2, <3>3
    <2>5. QED
      BY <2>1, <2>3, <2>4 DEF AckInv, HandlerAck
  <1>5. BootInv'
    BY <1>f DEF BootInv
  <1>6. CalmInv'
    <2> SUFFICES ASSUME noise' = 0 PROVE CalmInv'
      BY DEF CalmInv
    <2>1. noise = 0 /\ \A g \in Handlers : ~Active(g)
      BY <1>f
    <2>2. Owned(IDs, {}) /\ SysOwned(IDs) /\ (Unmixed => Routed)
      BY <2>1, <1>f DEF CalmInv
    <2>3. \A g \in Handlers \ {h} : ~Active(g)' /\ pc'[g] = "idle"
      BY <2>1, <1>g DEF Active
    <2>4. Owned(IDs, {})' /\ SysOwned(IDs)'
      BY <2>2, <1>f DEF Owned, SysOwned
    <2>5. Unmixed' => Routed'
      BY <2>2, <1>f DEF Unmixed, Routed
    <2>6. l = "check" => Owned(IDs \ {i}, {})' /\ SysOwned(IDs \ {i})'
      <3> SUFFICES ASSUME l = "check" PROVE Owned(IDs \ {i}, {})' /\ SysOwned(IDs \ {i})'
        OBVIOUS
      <3>1. outbounds[i] = Nil /\ \A n : <<i, n>> \notin entered
        OBVIOUS
      <3>2. Owned(IDs \ {i}, {})'
        BY <3>1, <2>4, <1>f DEF Owned, Open
      <3>3. SysOwned(IDs \ {i})'
        BY <3>1, <2>4, <1>f DEF SysOwned
      <3>4. QED
        BY <3>2, <3>3
    <2>7. RoutesOf(h)'
      BY <2>4, <2>6, <1>h DEF RoutesOf
    <2>8. \A g \in Handlers \ {h} : RoutesOf(g)'
      BY <2>3 DEF RoutesOf
    <2>9. h \in Handlers /\ Active(h)'
      BY <1>h DEF Active
    <2>10. QED
      BY <2>3, <2>4, <2>5, <2>7, <2>8, <2>9 DEF CalmInv
  <1>7. QED
    BY <1>1, <1>2, <1>3, <1>4, <1>5, <1>6

LEMMA RequestKeeps ==
    ASSUME Inv, NEW h \in Handlers, Request(h)
    PROVE  Inv'
  <1>a. ack \in Acks
    BY DEF Inv, TypeOK, Acks
  <1>l. {"check", "get"} \subseteq Labels
    BY DEF Labels
  <1>1. ASSUME NEW i \in IDs, deleteOutbound(h, i) PROVE Inv'
    <2>1. ack' \in Acks /\ ack'[i] = Unsure /\ \A j \in IDs \ {i} : ack'[j] = ack[j]
      BY <1>a, <1>1 DEF deleteOutbound, Acks
    <2>2. Begin(h, "delete", i, Nil, "get")
      BY <1>1 DEF deleteOutbound
    <2>3. QED
      BY <2>1, <2>2, <1>l, BeginKeeps, Zenon
  <1>2. ASSUME NEW i \in IDs, NEW o \in Outbound, updateOutbound(h, i, o) PROVE Inv'
    <2>1. ack' \in Acks /\ ack'[i] = Unsure /\ \A j \in IDs \ {i} : ack'[j] = ack[j]
      BY <1>a, <1>2 DEF updateOutbound, Acks
    <2>2. Begin(h, "update", i, o, "get") /\ o # Nil
      BY <1>2, OutboundFields DEF updateOutbound
    <2>3. QED
      BY <2>1, <2>2, <1>l, BeginKeeps
  <1>3. ASSUME NEW i \in IDs, NEW o \in Outbound, addOutbound(h, i, o) PROVE Inv'
    <2>1. /\ ack' = ack /\ ack[i] = Nil /\ outbounds[i] = Nil
          /\ \A g \in Handlers : ~About(g, i)
          /\ \A x \in entered : x[1] # i
      BY <1>3 DEF addOutbound
    <2>2. Begin(h, "add", i, o, "check") /\ o # Nil
      BY <1>3, OutboundFields DEF addOutbound
    <2>3. QED
      BY <2>1, <2>2, <1>a, <1>l, BeginKeeps
  <1>4. ASSUME NEW i \in IDs, NEW c \in Choice[i], NEW open \in BOOLEAN
        PROVE  [net |-> c[1], peer |-> c[2], open |-> open] \in Outbound
    BY ChoiceAssumption DEF Outbound
  <1>5. QED
    BY <1>1, <1>2, <1>3, <1>4 DEF Request

-----------------------------------------------------------------------------
(* The steps of a handler.                                                  *)

\* What is common to all of them: handler h, whose request is about outbound i,
\* goes to l.  It changes the table at i only, and if it saves it, as a whole.
Works(h, i, l) ==
    /\ l \in Labels /\ Moved(h, l) /\ (l = "idle" \/ SameJob(h))
    /\ UNCHANGED <<proc, todo>>
    /\ entered \subseteq entered' /\ entered' \subseteq IDs \X Net
    /\ outbounds' \in Table /\ db' \in {db, outbounds'}
    /\ \A j \in IDs \ {i} : outbounds'[j] = outbounds[j] /\ ack'[j] = ack[j]
    /\ outbounds'[i] # Nil => <<i, outbounds'[i].net>> \in entered'
    /\ routes' \subseteq Router!Route /\ sys' \subseteq Net /\ leftover' \subseteq Net /\ tun' \in {"off", "on", "held"}
    /\ ack' \in Acks /\ (job[h].alone \/ ack'[i] \in {ack[i], Unsure})
    /\ noise' \in 0 .. MaxNoise /\ (noise' = 0 => noise = 0)

\* The handler at l knows about outbound i what HandlerAck says.
Knows(h, i, l) ==
    /\ \/ ack'[i] = Unsure
       \/ ack'[i] = Nil /\ job[h].op = "add" /\ job[h].alone /\ l \in {"check", "store"}
    /\ job[h].alone =>
          /\ l \in {"tun", "route", "forget"} => outbounds'[i] = job[h].ob /\ db'[i] = job[h].ob
          /\ l = "store" /\ job[h].op = "delete" => outbounds'[i] # Nil

\* Undisturbed, it leaves the routes as CalmInv has them.
Calms(h, l) ==
    noise' = 0 /\ RoutesOf(h) /\ SysOwned(IDs) /\ (Unmixed => Routed) =>
        /\ l = "idle" => Owned(IDs, {})'
        /\ SysOwned(IDs)' /\ RoutesOf(h)'
        /\ Unmixed' => Routed'

\* A handler that works on an outbound disturbs nobody who works on another one,
\* and those who share it promise nothing.
LEMMA OthersKeep ==
    ASSUME Inv, NEW h \in Handlers, Active(h), NEW i \in IDs, i = job[h].id,
           NEW l, Works(h, i, l), NEW g \in Handlers \ {h}, Active(g)'
    PROVE  JobOf(g)' /\ HandlerAck(g)'
  <1> USE DEF Inv
  <1>1. /\ pc'[g] = pc[g] /\ job'[g] = job[g] /\ proc' = proc /\ entered \subseteq entered'
        /\ Active(g)
    BY DEF Works, Moved, Active
  <1>2. JobOf(g) /\ HandlerAck(g) /\ HandlerAck(h) /\ job[g].id \in IDs
    BY <1>1, AtWork DEF JobInv, AckInv
  <1>3. JobOf(g)'
    BY <1>1, <1>2 DEF JobOf
  <1>4. CASE job[g].id = i
    <2>1. About(g, i) /\ About(h, i) /\ g # h
      BY <1>1, <1>4 DEF About
    <2>2. ~job[h].alone /\ ~job[g].alone
      BY <2>1, <1>1, <1>2, <1>4 DEF HandlerAck
    <2>3. ack[i] = Unsure /\ ack'[i] = Unsure
      BY <2>2, <1>1, <1>2, <1>4 DEF HandlerAck, Works
    <2>4. HandlerAck(g)'
      BY <2>2, <2>3, <1>1, <1>4 DEF HandlerAck
    <2>5. QED
      BY <2>4, <1>3
  <1>5. CASE job[g].id # i
    <2> DEFINE k == job[g].id
    <2>1. /\ ack'[k] = ack[k] /\ outbounds'[k] = outbounds[k]
          /\ db'[k] \in {db[k], outbounds[k]}
      BY <1>2, <1>5 DEF Works
    <2>2. ASSUME job[g].alone, NEW f \in Handlers, About(f, k)' PROVE f = g
      <3>1. f # h
        BY <2>2, <1>1, <1>5 DEF Works, Moved, SameJob, About, Active
      <3>2. About(f, k)
        BY <3>1, <2>2, <1>1 DEF Works, Moved, About, Active
      <3>3. QED
        BY <3>2, <2>2, <1>1, <1>2 DEF HandlerAck
    <2>3. HandlerAck(g)'
      BY <2>1, <2>2, <1>1, <1>2 DEF HandlerAck
    <2>4. QED
      BY <2>3, <1>3
  <1>6. QED
    BY <1>4, <1>5

\* So it is enough to look at the handler, its outbound and the routes.
LEMMA WorkKeeps ==
    ASSUME Inv, NEW h \in Handlers, Active(h), NEW i \in IDs, i = job[h].id,
           NEW l, Works(h, i, l), l # "idle" => JobOf(h)' /\ Knows(h, i, l),
           AckOf(i)', Calms(h, l)
    PROVE  Inv'
  <1> USE DEF Inv
  <1>f. /\ proc = "up" /\ proc' = "up" /\ pc'[h] = l
        /\ \A g \in Handlers \ {h} : pc'[g] = pc[g] /\ job'[g] = job[g]
        /\ l # "idle" => SameJob(h)
    BY AtWork DEF Works, Moved
  <1>o. \A g \in Handlers \ {h} : Active(g)' => JobOf(g)' /\ HandlerAck(g)'
    BY OthersKeep
  <1>1. TypeOK'
    BY DEF Works, Moved, TypeOK, Labels, Acks
  <1>2. JobInv'
    BY <1>f, <1>o DEF JobInv, JobOf, Active
  <1>3. EnteredInv'
    <2>1. ASSUME NEW j \in IDs \ {i}, outbounds'[j] # Nil
          PROVE  <<j, outbounds'[j].net>> \in entered'
      BY <2>1, <1>f DEF Works, EnteredInv
    <2>2. QED
      BY <2>1 DEF Works, EnteredInv
  <1>4. AckInv'
    <2>1. ASSUME NEW j \in IDs \ {i} PROVE AckOf(j)'
      <3>1. AckOf(j) /\ ack'[j] = ack[j] /\ outbounds'[j] = outbounds[j]
        BY DEF AckInv, Works
      <3>2. db'[j] \in {db[j], outbounds[j]}
        BY <3>1 DEF Works
      <3>3. QED
        BY <3>1, <3>2, <1>f DEF AckOf
    <2>2. ASSUME l # "idle" PROVE HandlerAck(h)'
      <3>1. /\ job'[h].id = i /\ job'[h].op = job[h].op /\ job'[h].ob = job[h].ob
            /\ job'[h].alone = job[h].alone
        BY <2>2, <1>f DEF SameJob
      <3>2. ASSUME job[h].alone, NEW g \in Handlers, About(g, i)' PROVE g = h
        <4>1. g # h => About(g, i)
          BY <3>2, <1>f DEF About, Active
        <4>2. QED
          BY <4>1, <3>2 DEF AckInv, HandlerAck
      <3>3. QED
        BY <3>1, <3>2, <2>2, <1>f DEF HandlerAck, Knows
    <2>3. HandlerAck(h)'
      BY <2>2, <1>f DEF HandlerAck, Active
    <2>4. QED
      BY <2>1, <2>3, <1>o DEF AckInv, HandlerAck
  <1>5. BootInv'
    BY <1>f DEF BootInv
  <1>6. CalmInv'
    <2> SUFFICES ASSUME noise' = 0 PROVE CalmInv'
      BY DEF CalmInv
    <2>1. noise = 0
      BY DEF Works
    <2>2. /\ \A g \in Handlers \ {h} : ~Active(g)
          /\ SysOwned(IDs) /\ RoutesOf(h) /\ (Unmixed => Routed)
      BY <2>1, <1>f DEF CalmInv
    <2>3. /\ l = "idle" => Owned(IDs, {})'
          /\ SysOwned(IDs)' /\ RoutesOf(h)' /\ (Unmixed' => Routed')
      BY <2>2 DEF Calms
    <2>4. \A g \in Handlers \ {h} : ~Active(g)' /\ RoutesOf(g)'
      BY <2>2, <1>f DEF Active, RoutesOf
    <2>5. (\A g \in Handlers : ~Active(g)') => l = "idle"
      BY <1>f DEF Active
    <2>6. QED
      BY <2>3, <2>4, <2>5 DEF CalmInv
  <1>7. QED
    BY <1>1, <1>2, <1>3, <1>4, <1>5, <1>6

\* What holds of every handler at work, in the state before its step.
LEMMA Working ==
    ASSUME Inv, NEW h \in Handlers, Active(h), NEW i \in IDs, i = job[h].id
    PROVE  /\ HandlerAck(h) /\ AckOf(i) /\ JobOf(h) /\ proc = "up"
           /\ outbounds \in Table /\ db \in Table /\ ack \in Acks
           /\ routes \subseteq Router!Route /\ sys \subseteq Net /\ leftover \subseteq Net /\ tun \in {"off", "on", "held"}
           /\ entered \subseteq IDs \X Net /\ noise \in 0 .. MaxNoise
           /\ \A j \in IDs : outbounds[j] # Nil => <<j, outbounds[j].net>> \in entered
           /\ \A j \in IDs : outbounds[j] # Nil => outbounds[j] \in Outbound
  BY AtWork DEF Inv, AckInv, JobInv, TypeOK, EnteredInv, Acks, Table

\* Steps that leave the table, its copy and its history alone.
LEMMA WorksOnRoutes ==
    ASSUME Inv, NEW h \in Handlers, Active(h), NEW i \in IDs, i = job[h].id,
           NEW l \in Labels, Moved(h, l), l = "idle" \/ SameJob(h),
           UNCHANGED <<proc, todo, outbounds, db, entered, noise>>,
           routes' \subseteq Router!Route, sys' \subseteq Net, leftover' \subseteq Net, tun' \in {"off", "on", "held"},
           ack' \in Acks, \A j \in IDs \ {i} : ack'[j] = ack[j],
           job[h].alone \/ ack'[i] \in {ack[i], Unsure}
    PROVE  Works(h, i, l)
  BY Working DEF Works

LEMMA GetOutboundKeeps ==
    ASSUME Inv, NEW h \in Handlers, GetOutbound(h)
    PROVE  Inv'
  <1>a. Active(h) /\ pc[h] = "get" /\ job[h].id \in IDs /\ job[h] \in Job
    BY AtWork DEF GetOutbound, Active
  <1>i. PICK i \in IDs : i = job[h].id
    BY <1>a
  <1>d. PICK old \in Outbound \cup {Nil} : old = outbounds[i]
    BY <1>a, <1>i, Working DEF Table
  <1>w. /\ HandlerAck(h) /\ AckOf(i) /\ JobOf(h) /\ proc = "up"
        /\ outbounds \in Table /\ ack \in Acks
        /\ routes \subseteq Router!Route /\ sys \subseteq Net /\ leftover \subseteq Net /\ tun \in {"off", "on", "held"}
        /\ \A j \in IDs : outbounds[j] # Nil => <<j, outbounds[j].net>> \in entered
        /\ \A j \in IDs : outbounds[j] # Nil => outbounds[j] \in Outbound
    BY <1>a, <1>i, <1>d, Working
  <1>f. UNCHANGED <<proc, todo, outbounds, db, routes, sys, leftover, tun, entered, noise, ack>>
    BY DEF GetOutbound, base, net, Fail
  <1>u. ack[i] = Unsure
    BY <1>a, <1>i, <1>d, <1>w DEF HandlerAck
  <1>k. AckOf(i)'
    BY <1>u, <1>f DEF AckOf
  <1>r. Unmixed' => Unmixed
    BY <1>f DEF Unmixed
  <1>1. CASE old = Nil
    <2>1. Moved(h, "idle")
      BY <1>1, <1>i, <1>d, FinishMoves DEF GetOutbound, Fail, Inv
    <2>2. Works(h, i, "idle")
      BY <2>1, <1>a, <1>i, <1>d, <1>w, <1>f, WorksOnRoutes DEF Labels
    <2>3. Calms(h, "idle")
      <3> SUFFICES ASSUME RoutesOf(h), SysOwned(IDs), Unmixed => Routed
                   PROVE  /\ Owned(IDs, {})' /\ SysOwned(IDs)' /\ RoutesOf(h)'
                          /\ Unmixed' => Routed'
        BY DEF Calms
      <3>1. Owned(IDs, {})' /\ SysOwned(IDs)'
        BY <1>a, <1>i, <1>d, <1>f DEF RoutesOf, Owned, SysOwned
      <3>2. RoutesOf(h)'
        BY <2>1 DEF Moved, RoutesOf
      <3>3. QED
        BY <3>1, <3>2, <1>f, <1>r DEF Routed
    <2>4. QED
      BY <2>2, <2>3, <1>a, <1>i, <1>d, <1>k, WorkKeeps
  <1>2. CASE old # Nil
    <2>o. old \in Outbound /\ <<i, old.net>> \in entered
      BY <1>2, <1>a, <1>i, <1>d, <1>w
    <2>l. PICK l \in {"store", "unroute", "check"} :
             l = IF job[h].op = "delete" THEN "store" ELSE IF old.open THEN "unroute" ELSE "check"
      OBVIOUS
    <2>m. l \in Labels
      BY DEF Labels
    <2>1. Moved(h, l) /\ SameJob(h) /\ job'[h].old = old
      <3>1. Goto(h, l) /\ job' = [job EXCEPT ![h].old = old]
        BY <1>2, <2>l, <1>i, <1>d DEF GetOutbound
      <3>2. QED
        BY <3>1, <2>o, <2>m, <1>a, <1>i, <1>d, OldMoves DEF Inv
    <2>2. Works(h, i, l)
      BY <2>1, <2>m, <1>a, <1>i, <1>d, <1>w, <1>f, WorksOnRoutes
    <2>p. pc'[h] = l /\ job'[h] \in Job /\ job'[h].id = i /\ job'[h].op = job[h].op
          /\ job'[h].ob = job[h].ob /\ job'[h].alone = job[h].alone
      BY <2>1, <1>i DEF Moved, SameJob
    <2>3. JobOf(h)'
      <3>1. /\ job[h].op \in {"update", "delete"} /\ (job[h].op = "delete" <=> job[h].ob = Nil)
        BY <1>a, <1>w, AtWork DEF JobOf
      <3>2. <<i, old.net>> \in entered' /\ proc' = "up"
        BY <2>o, <1>f, <1>w
      <3>3. QED
        BY <3>1, <3>2, <2>1, <2>l, <2>p, <1>2 DEF JobOf
    <2>4. Knows(h, i, l)
      BY <1>2, <1>d, <1>u, <1>f DEF Knows
    <2>5. Calms(h, l)
      <3> SUFFICES ASSUME RoutesOf(h), SysOwned(IDs), Unmixed => Routed
                   PROVE  SysOwned(IDs)' /\ RoutesOf(h)' /\ (Unmixed' => Routed')
        BY DEF Calms
      <3>1. Owned(IDs, {})' /\ SysOwned(IDs)'
        BY <1>a, <1>i, <1>d, <1>f DEF RoutesOf, Owned, SysOwned
      <3>2. l = "check" => Owned(IDs \ {i}, {})' /\ SysOwned(IDs \ {i})'
        <4> SUFFICES ASSUME l = "check" PROVE Owned(IDs \ {i}, {})' /\ SysOwned(IDs \ {i})'
          OBVIOUS
        <4>1. outbounds'[i] # Nil /\ ~outbounds'[i].open
          BY <1>2, <1>d, <1>f, <2>l
        <4>2. QED
          BY <4>1, <3>1, <1>f DEF Owned, SysOwned, Open
      <3>3. RoutesOf(h)'
        BY <3>1, <3>2, <2>1, <2>l, <2>p, <1>d, <1>f DEF RoutesOf
      <3>4. QED
        BY <3>1, <3>3, <1>f, <1>r DEF Routed
    <2>6. QED
      BY <2>2, <2>3, <2>4, <2>5, <1>a, <1>i, <1>d, <1>k, WorkKeeps
  <1>3. QED
    BY <1>1, <1>2

\* Without the range that begins where one network of outbound i does, the routes
\* of the other outbounds remain, if networks are apart.
LEMMA RemoveUnmixed ==
    ASSUME Inv, proc = "up", Unmixed, Routed, NEW i \in IDs, NEW o \in Outbound,
           <<i, o.net>> \in entered, routes' = {s \in routes : s.min # o.net.min},
           NEW j \in IDs \ {i}, Open(outbounds[j]), ack[j] # Unsure
    PROVE  RouteOf(outbounds[j]) \in routes'
  <1>1. outbounds[j] \in Outbound /\ <<j, outbounds[j].net>> \in entered
    BY DEF Inv, TypeOK, Table, EnteredInv, Open
  <1>2. Router!Apart(o.net, outbounds[j].net)
    BY <1>1, UnmixedApart
  <1>3. RouteOf(outbounds[j]).min # o.net.min
    BY <1>1, <1>2, ApartMin, OutboundFields
  <1>4. QED
    BY <1>3 DEF Routed

LEMMA DeleteOutboundRouteKeeps ==
    ASSUME Inv, NEW h \in Handlers, DeleteOutboundRoute(h)
    PROVE  Inv'
  <1>a. Active(h) /\ pc[h] = "unroute" /\ job[h].id \in IDs /\ job[h] \in Job /\ job[h].old \in Outbound
    BY AtWork DEF DeleteOutboundRoute, Active
  <1>i. PICK i \in IDs : i = job[h].id
    BY <1>a
  <1>d. PICK old \in Outbound : old = job[h].old
    BY <1>a
  <1>w. /\ HandlerAck(h) /\ AckOf(i) /\ JobOf(h) /\ proc = "up"
        /\ outbounds \in Table /\ ack \in Acks
        /\ routes \subseteq Router!Route /\ sys \subseteq Net /\ leftover \subseteq Net /\ tun \in {"off", "on", "held"}
        /\ \A j \in IDs : outbounds[j] # Nil => outbounds[j] \in Outbound
    BY <1>a, <1>i, <1>d, Working
  <1>f. /\ UNCHANGED <<proc, todo, outbounds, db, tun, job, entered, noise, ack>>
        /\ routes' = {s \in routes : s.min # old.net.min}
        /\ sys' \subseteq sys /\ leftover' \subseteq Net
        /\ sys' \ leftover' \subseteq (sys \ leftover) \ {old.net}
    <2>1. /\ UNCHANGED <<proc, todo, outbounds, db, tun, job, entered, noise, ack>>
          /\ routes' = {s \in routes : s.min # old.net.min} /\ RouteDel(old.net)
      BY <1>d DEF DeleteOutboundRoute, base, hist, Router!Remove
    <2>2. old.net \in Net
      BY OutboundFields
    <2>3. QED
      BY <2>1, <2>2, <1>w DEF RouteDel
  <1>u. ack[i] = Unsure /\ <<i, old.net>> \in entered
    BY <1>a, <1>i, <1>d, <1>w DEF HandlerAck, JobOf
  <1>k. AckOf(i)'
    BY <1>u, <1>f DEF AckOf
  <1>1. Moved(h, "check") /\ SameJob(h) /\ job'[h] = job[h]
    BY <1>a, <1>i, <1>d, StayMoves DEF DeleteOutboundRoute, hist, Inv, Labels
  <1>2. Works(h, i, "check")
    BY <1>1, <1>a, <1>i, <1>d, <1>w, <1>f, WorksOnRoutes DEF Labels
  <1>p. pc'[h] = "check"
    BY <1>1 DEF Moved
  <1>3. JobOf(h)'
    BY <1>1, <1>p, <1>a, <1>i, <1>d, <1>w, <1>f DEF JobOf
  <1>4. Knows(h, i, "check")
    BY <1>u, <1>f DEF Knows
  <1>5. Calms(h, "check")
    <2> SUFFICES ASSUME RoutesOf(h), SysOwned(IDs), Unmixed => Routed
                 PROVE  SysOwned(IDs)' /\ RoutesOf(h)' /\ (Unmixed' => Routed')
      BY DEF Calms
    <2>1. Owned(IDs, {}) /\ outbounds[i] = old /\ old # Nil
      BY <1>a, <1>i, <1>d, OutboundFields DEF RoutesOf
    <2>2. Owned(IDs \ {i}, {})'
      <3>1. RouteOf(old).min = old.net.min
        BY <1>a, <1>i, <1>d, OutboundFields
      <3>2. QED
        BY <3>1, <2>1, <1>f DEF Owned
    <2>3. SysOwned(IDs \ {i})'
      BY <2>1, <1>f DEF SysOwned
    <2>4. SysOwned(IDs)'
      BY <2>3 DEF SysOwned
    <2>5. RoutesOf(h)'
      BY <2>2, <2>3, <1>1, <1>i, <1>p DEF RoutesOf
    <2>6. ASSUME Unmixed', NEW j \in IDs, Open(outbounds'[j]), ack'[j] # Unsure
          PROVE  RouteOf(outbounds'[j]) \in routes'
      <3>1. Unmixed /\ Routed /\ j # i /\ Open(outbounds[j]) /\ ack[j] # Unsure
        BY <2>6, <1>f, <1>u DEF Unmixed
      <3>2. RouteOf(outbounds[j]) \in routes'
        BY <3>1, <1>a, <1>i, <1>d, <1>f, <1>u, <1>w, RemoveUnmixed
      <3>3. QED
        BY <3>2, <1>f
    <2>7. QED
      BY <2>4, <2>5, <2>6 DEF Routed
  <1>6. QED
    BY <1>2, <1>3, <1>4, <1>5, <1>a, <1>i, <1>d, <1>k, WorkKeeps

LEMMA CheckPeerFailsKeeps ==
    ASSUME Inv, NEW h \in Handlers, CheckPeerFails(h)
    PROVE  Inv'
  <1>a. Active(h) /\ pc[h] = "check" /\ job[h].id \in IDs
    BY AtWork DEF CheckPeerFails, Active
  <1>i. PICK i \in IDs : i = job[h].id
    BY <1>a
  <1>w. /\ AckOf(i) /\ ack \in Acks
        /\ routes \subseteq Router!Route /\ sys \subseteq Net /\ leftover \subseteq Net /\ tun \in {"off", "on", "held"}
    BY <1>a, <1>i, Working
  <1>f. UNCHANGED <<proc, todo, outbounds, db, routes, sys, leftover, tun, entered, noise, ack>>
    BY DEF CheckPeerFails, Fail, base, net
  <1>k. AckOf(i)'
    BY <1>f, <1>w DEF AckOf
  <1>1. Moved(h, "idle")
    BY FinishMoves DEF CheckPeerFails, Fail, Inv
  <1>2. Works(h, i, "idle")
    BY <1>1, <1>a, <1>i, <1>w, <1>f, WorksOnRoutes DEF Labels
  <1>3. Calms(h, "idle")
    <2> SUFFICES ASSUME RoutesOf(h), SysOwned(IDs), Unmixed => Routed
                 PROVE  /\ Owned(IDs, {})' /\ SysOwned(IDs)' /\ RoutesOf(h)'
                        /\ Unmixed' => Routed'
      BY DEF Calms
    <2>1. Owned(IDs, {})' /\ SysOwned(IDs)'
      BY <1>a, <1>f DEF RoutesOf, Owned, SysOwned
    <2>2. RoutesOf(h)'
      BY <1>1 DEF Moved, RoutesOf
    <2>3. QED
      BY <2>1, <2>2, <1>f DEF Routed, Unmixed
  <1>4. QED
    BY <1>2, <1>3, <1>a, <1>i, <1>k, WorkKeeps

LEMMA CheckPeerKeeps ==
    ASSUME Inv, NEW h \in Handlers, CheckPeer(h)
    PROVE  Inv'
  <1>a. Active(h) /\ pc[h] = "check" /\ job[h].id \in IDs
    BY AtWork DEF CheckPeer, Active
  <1>i. PICK i \in IDs : i = job[h].id
    BY <1>a
  <1>w. /\ HandlerAck(h) /\ AckOf(i) /\ JobOf(h) /\ ack \in Acks
        /\ routes \subseteq Router!Route /\ sys \subseteq Net /\ leftover \subseteq Net /\ tun \in {"off", "on", "held"}
    BY <1>a, <1>i, Working
  <1>f. UNCHANGED <<proc, todo, outbounds, db, routes, sys, leftover, tun, job, entered, noise, ack>>
    BY DEF CheckPeer, base, net, hist
  <1>k. AckOf(i)'
    BY <1>f, <1>w DEF AckOf
  <1>1. Moved(h, "store") /\ SameJob(h) /\ job'[h] = job[h]
    BY <1>a, StayMoves DEF CheckPeer, Inv, Labels
  <1>p. pc'[h] = "store" /\ job[h].op # "delete"
    BY <1>1, <1>a, <1>w DEF Moved, JobOf
  <1>2. Works(h, i, "store")
    BY <1>1, <1>a, <1>i, <1>w, <1>f, WorksOnRoutes DEF Labels
  <1>3. JobOf(h)'
    BY <1>1, <1>p, <1>a, <1>w, <1>f DEF JobOf
  <1>4. Knows(h, i, "store")
    BY <1>p, <1>a, <1>i, <1>w, <1>f DEF Knows, HandlerAck
  <1>5. Calms(h, "store")
    <2> SUFFICES ASSUME RoutesOf(h), SysOwned(IDs), Unmixed => Routed
                 PROVE  SysOwned(IDs)' /\ RoutesOf(h)' /\ (Unmixed' => Routed')
      BY DEF Calms
    <2>1. Owned(IDs \ {i}, {})' /\ SysOwned(IDs \ {i})' /\ SysOwned(IDs)'
      BY <1>a, <1>i, <1>f DEF RoutesOf, Owned, SysOwned
    <2>2. RoutesOf(h)'
      BY <2>1, <1>1, <1>i, <1>p DEF RoutesOf
    <2>3. QED
      BY <2>1, <2>2, <1>f DEF Routed, Unmixed
  <1>6. QED
    BY <1>2, <1>3, <1>4, <1>5, <1>a, <1>i, <1>k, WorkKeeps

LEMMA StoreKeeps ==
    ASSUME Inv, NEW h \in Handlers, Store(h)
    PROVE  Inv'
  <1>a. Active(h) /\ pc[h] = "store" /\ job[h].op # "delete" /\ job[h] \in Job /\ job[h].id \in IDs
        /\ job[h].ob \in Outbound
    BY AtWork DEF Store, Active
  <1>i. PICK i \in IDs : i = job[h].id
    BY <1>a
  <1>o. PICK o \in Outbound : o = job[h].ob
    BY <1>a
  <1>w. /\ HandlerAck(h) /\ AckOf(i) /\ JobOf(h) /\ ack \in Acks /\ proc = "up"
        /\ outbounds \in Table /\ entered \subseteq IDs \X Net /\ noise \in 0 .. MaxNoise
        /\ routes \subseteq Router!Route /\ sys \subseteq Net /\ leftover \subseteq Net /\ tun \in {"off", "on", "held"}
    BY <1>a, <1>i, Working
  <1>f. UNCHANGED <<proc, todo, routes, sys, leftover, tun, noise>> /\ entered' = entered \cup {<<i, o.net>>}
    BY <1>i, <1>o DEF Store, net
  <1>e. entered \subseteq entered' /\ entered' \subseteq IDs \X Net /\ <<i, o.net>> \in entered'
    BY <1>f, <1>w, OutboundFields
  <1>m. Unmixed' => Unmixed
    BY <1>e DEF Unmixed
  <1>t. /\ outbounds' \in Table /\ outbounds'[i] = o
        /\ \A j \in IDs \ {i} : outbounds'[j] = outbounds[j]
    <2>1. outbounds' = [outbounds EXCEPT ![i] = o]
      BY <1>i, <1>o DEF Store, saveOutbounds
    <2>2. QED
      BY <2>1, <1>w DEF Table
  <1>c. ASSUME RoutesOf(h)
        PROVE  Owned(IDs \ {i}, {})' /\ SysOwned(IDs \ {i})' /\ Owned(IDs, {})' /\ SysOwned(IDs)'
    <2>1. Owned(IDs \ {i}, {}) /\ SysOwned(IDs \ {i})
      BY <1>c, <1>a, <1>i DEF RoutesOf
    <2>2. Owned(IDs \ {i}, {})'
      BY <2>1, <1>f, <1>t DEF Owned
    <2>3. SysOwned(IDs \ {i})'
      BY <2>1, <1>e, <1>f, <1>t, ZenonT(60) DEF SysOwned
    <2>4. QED
      BY <2>2, <2>3 DEF Owned, SysOwned
  <1>r. ASSUME Unmixed => Routed, \A j \in IDs \ {i} : ack'[j] = ack[j], ack'[i] = Unsure \/ ~Open(o)
        PROVE  Unmixed' => Routed'
    BY <1>r, <1>f, <1>m, <1>t DEF Routed
  <1>1. CASE /\ db' = db
             /\ Finish(h) /\ Doubt(h)
    <2>1. Moved(h, "idle") /\ pc'[h] = "idle"
      BY <1>1, FinishMoves DEF Inv, Moved
    <2>2. ack' \in Acks /\ ack'[i] = Unsure /\ \A j \in IDs \ {i} : ack'[j] = ack[j]
      BY <1>1, <1>a, <1>i, DoubtEffect DEF Inv
    <2>3. Works(h, i, "idle")
      BY <2>1, <2>2, <1>1, <1>w, <1>f, <1>e, <1>t DEF Works, Labels
    <2>4. Calms(h, "idle")
      BY <2>1, <2>2, <1>c, <1>r DEF Calms, RoutesOf
    <2>5. AckOf(i)'
      BY <2>2 DEF AckOf
    <2>6. QED
      BY <2>3, <2>4, <2>5, <1>a, <1>i, WorkKeeps
  <1>2. CASE /\ db' = outbounds'
             /\ Done(h) /\ Succeed(h)
    <2>1. /\ Moved(h, "idle") /\ ack' \in Acks /\ \A j \in IDs \ {i} : ack'[j] = ack[j]
          /\ IF job[h].alone THEN ack'[i] = o ELSE ack' = ack
      BY <1>2, <1>a, <1>i, <1>o, SucceedEffect DEF Inv
    <2>2. pc'[h] = "idle" /\ ~Open(o)
      BY <2>1, <1>2, <1>o DEF Moved, Done, Open
    <2>3. Works(h, i, "idle")
      BY <2>1, <1>2, <1>w, <1>f, <1>e, <1>t DEF Works, Labels
    <2>4. Calms(h, "idle")
      BY <2>1, <2>2, <1>c, <1>r DEF Calms, RoutesOf
    <2>5. ack'[i] = o \/ ack'[i] = Unsure
      BY <2>1, <1>a, <1>i, <1>w DEF HandlerAck
    <2>6. AckOf(i)'
      BY <2>5, <1>2, <1>t DEF AckOf, Matches
    <2>7. QED
      BY <2>3, <2>4, <2>6, <1>a, <1>i, WorkKeeps
  <1>3. CASE /\ db' = outbounds'
             /\ Goto(h, "tun") /\ UNCHANGED job /\ Doubt(h)
    <2>1. Moved(h, "tun") /\ SameJob(h) /\ job'[h] = job[h] /\ pc'[h] = "tun"
      BY <1>3, <1>a, StayMoves DEF Inv, Labels, Moved
    <2>2. ack' \in Acks /\ ack'[i] = Unsure /\ \A j \in IDs \ {i} : ack'[j] = ack[j]
      BY <1>3, <1>a, <1>i, DoubtEffect DEF Inv
    <2>3. Works(h, i, "tun")
      BY <2>1, <2>2, <1>3, <1>w, <1>f, <1>e, <1>t DEF Works, Labels
    <2>4. JobOf(h)'
      BY <2>1, <1>a, <1>i, <1>o, <1>w, <1>f, <1>e DEF JobOf
    <2>5. Knows(h, i, "tun")
      BY <2>2, <1>3, <1>t, <1>o DEF Knows
    <2>6. Calms(h, "tun")
      BY <2>1, <2>2, <1>c, <1>r, <1>t, <1>i, <1>o DEF Calms, RoutesOf
    <2>7. AckOf(i)'
      BY <2>2 DEF AckOf
    <2>8. QED
      BY <2>3, <2>4, <2>5, <2>6, <2>7, <1>a, <1>i, WorkKeeps
  <1>4. QED
    BY <1>1, <1>2, <1>3 DEF Store, saveOutbounds

LEMMA StoreDeletedKeeps ==
    ASSUME Inv, NEW h \in Handlers, StoreDeleted(h)
    PROVE  Inv'
  <1>a. Active(h) /\ pc[h] = "store" /\ job[h].op = "delete" /\ job[h] \in Job /\ job[h].id \in IDs
    BY AtWork DEF StoreDeleted, Active
  <1>i. PICK i \in IDs : i = job[h].id
    BY <1>a
  <1>w. /\ HandlerAck(h) /\ AckOf(i) /\ JobOf(h) /\ ack \in Acks /\ proc = "up"
        /\ outbounds \in Table /\ entered \subseteq IDs \X Net /\ noise \in 0 .. MaxNoise
        /\ routes \subseteq Router!Route /\ sys \subseteq Net /\ leftover \subseteq Net /\ tun \in {"off", "on", "held"}
        /\ \A j \in IDs : outbounds[j] # Nil => <<j, outbounds[j].net>> \in entered
    BY <1>a, <1>i, Working
  <1>d. PICK old \in Outbound \cup {Nil} : old = outbounds[i]
    BY <1>w DEF Table
  <1>f. UNCHANGED <<proc, todo, routes, sys, leftover, tun, entered>>
    BY DEF StoreDeleted, net
  <1>u. ack[i] = Unsure /\ job[h].ob = Nil
    BY <1>a, <1>i, <1>w DEF HandlerAck, JobOf
  <1>1. CASE old = Nil /\ Succeed(h) /\ UNCHANGED <<outbounds, db, noise>>
    <2>1. ~job[h].alone
      BY <1>1, <1>a, <1>d, <1>i, <1>w DEF HandlerAck
    <2>2. Moved(h, "idle") /\ ack' = ack /\ pc'[h] = "idle"
      BY <2>1, <1>1, <1>a, SucceedEffect DEF Inv, Moved
    <2>3. Works(h, i, "idle")
      BY <2>2, <1>1, <1>a, <1>i, <1>w, <1>f, WorksOnRoutes DEF Labels
    <2>4. Calms(h, "idle")
      <3> SUFFICES ASSUME RoutesOf(h), SysOwned(IDs), Unmixed => Routed
                   PROVE  /\ Owned(IDs, {})' /\ SysOwned(IDs)' /\ RoutesOf(h)'
                          /\ Unmixed' => Routed'
        BY DEF Calms
      <3>1. Owned(IDs, {})' /\ SysOwned(IDs)'
        BY <1>1, <1>a, <1>f DEF RoutesOf, Owned, SysOwned
      <3>2. RoutesOf(h)'
        BY <2>2 DEF RoutesOf
      <3>3. QED
        BY <3>1, <3>2, <2>2, <1>1, <1>f DEF Routed, Unmixed
    <2>5. AckOf(i)'
      BY <2>2, <1>u DEF AckOf
    <2>6. QED
      BY <2>3, <2>4, <2>5, <1>a, <1>i, WorkKeeps
  <1>2. CASE old # Nil /\ outbounds' = [outbounds EXCEPT ![i] = Nil]
    <2>o. old \in Outbound /\ <<i, old.net>> \in entered /\ old.open \in BOOLEAN
      BY <1>2, <1>d, <1>w, OutboundFields
    <2>t. /\ outbounds' \in Table /\ outbounds'[i] = Nil
          /\ \A j \in IDs \ {i} : outbounds'[j] = outbounds[j]
      BY <1>2, <1>w DEF Table
    <2>1. CASE db' = db /\ Fail(h) /\ noise' = IF noise > 0 THEN noise ELSE 1
      <3>1. Moved(h, "idle") /\ ack' = ack
        BY <2>1, FinishMoves DEF Inv, Fail
      <3>2. noise' # 0 /\ noise' \in 0 .. MaxNoise
        BY <2>1, <1>w, MaxNoiseAssumption
      <3>3. Works(h, i, "idle")
        BY <3>1, <3>2, <2>1, <2>t, <1>w, <1>f DEF Works, Labels
      <3>4. Calms(h, "idle") /\ AckOf(i)'
        BY <3>1, <3>2, <1>u DEF Calms, AckOf
      <3>5. QED
        BY <3>3, <3>4, <1>a, <1>i, WorkKeeps
    <2>2. CASE /\ db' = outbounds' /\ job' = [job EXCEPT ![h].old = old] /\ Goto(h, "forget")
               /\ UNCHANGED <<ack, noise>>
      <3>1. Moved(h, "forget") /\ SameJob(h) /\ job'[h].old = old
        BY <2>2, <2>o, <1>a, OldMoves DEF Inv, Labels
      <3>p. /\ pc'[h] = "forget" /\ job'[h] \in Job /\ job'[h].id = i /\ job'[h].op = "delete"
            /\ job'[h].ob = Nil
        BY <3>1, <1>a, <1>i, <1>u DEF Moved, SameJob
      <3>2. Works(h, i, "forget")
        BY <3>1, <2>2, <2>t, <1>w, <1>f DEF Works, Labels
      <3>3. JobOf(h)'
        BY <3>1, <3>p, <2>o, <1>2, <1>w, <1>f DEF JobOf
      <3>4. Knows(h, i, "forget")
        BY <2>2, <2>t, <1>u DEF Knows
      <3>5. Calms(h, "forget")
        <4> SUFFICES ASSUME RoutesOf(h), SysOwned(IDs), Unmixed => Routed
                     PROVE  SysOwned(IDs)' /\ RoutesOf(h)' /\ (Unmixed' => Routed')
          BY DEF Calms
        <4>1. Owned(IDs, {})
          BY <1>a DEF RoutesOf
        <4>2. RouteOf(old).min = old.net.min
          BY <2>o, OutboundFields
        <4>3. Owned(IDs \ {i}, {old.net.min})'
          BY <4>1, <4>2, <2>t, <1>d, <1>f DEF Owned
        <4>4. SysOwned(IDs)'
          BY <2>t, <1>f, ZenonT(60) DEF SysOwned
        <4>5. RoutesOf(h)'
          BY <4>3, <3>1, <3>p DEF RoutesOf
        <4>6. Unmixed' => Routed'
          BY <2>2, <2>t, <1>f DEF Routed, Unmixed, Open
        <4>7. QED
          BY <4>4, <4>5, <4>6
      <3>6. AckOf(i)'
        BY <2>2, <1>u DEF AckOf
      <3>7. QED
        BY <3>2, <3>3, <3>4, <3>5, <3>6, <1>a, <1>i, WorkKeeps
    <2>3. QED
      BY <2>1, <2>2, <1>2, <1>d, <1>i DEF StoreDeleted, saveOutbounds
  <1>3. QED
    BY <1>1, <1>2, <1>d, <1>i DEF StoreDeleted, saveOutbounds

LEMMA ForgetKeeps ==
    ASSUME Inv, NEW h \in Handlers, Forget(h)
    PROVE  Inv'
  <1>a. /\ Active(h) /\ pc[h] = "forget" /\ job[h] \in Job /\ job[h].id \in IDs
        /\ job[h].old \in Outbound
    BY AtWork DEF Forget, Active
  <1>i. PICK i \in IDs : i = job[h].id
    BY <1>a
  <1>d. PICK old \in Outbound : old = job[h].old
    BY <1>a
  <1>w. /\ HandlerAck(h) /\ JobOf(h) /\ ack \in Acks /\ proc = "up"
        /\ routes \subseteq Router!Route /\ sys \subseteq Net /\ leftover \subseteq Net /\ tun \in {"off", "on", "held"}
    BY <1>a, <1>i, Working
  <1>f. /\ UNCHANGED <<proc, todo, outbounds, db, sys, leftover, tun, entered, noise>>
        /\ routes' = {s \in routes : s.min # old.net.min} /\ Succeed(h)
    BY <1>d DEF Forget, base, Router!Remove
  <1>u. /\ ack[i] = Unsure /\ job[h].ob = Nil /\ <<i, old.net>> \in entered
        /\ job[h].alone => outbounds[i] = Nil /\ db[i] = Nil
    BY <1>a, <1>d, <1>i, <1>w DEF HandlerAck, JobOf
  <1>1. /\ Moved(h, "idle") /\ ack' \in Acks /\ \A j \in IDs \ {i} : ack'[j] = ack[j]
        /\ IF job[h].alone THEN ack'[i] = Nil ELSE ack' = ack
    BY <1>a, <1>f, <1>i, <1>u, SucceedEffect DEF Inv
  <1>p. pc'[h] = "idle" /\ (job[h].alone \/ ack'[i] = Unsure)
    BY <1>1, <1>u DEF Moved
  <1>2. Works(h, i, "idle")
    BY <1>1, <1>p, <1>a, <1>i, <1>w, <1>f, WorksOnRoutes DEF Labels
  <1>3. AckOf(i)'
    BY <1>1, <1>p, <1>f, <1>u DEF AckOf, Matches
  <1>4. Calms(h, "idle")
    <2> SUFFICES ASSUME RoutesOf(h), SysOwned(IDs), Unmixed => Routed
                 PROVE  /\ Owned(IDs, {})' /\ SysOwned(IDs)' /\ RoutesOf(h)'
                        /\ Unmixed' => Routed'
      BY DEF Calms
    <2>1. Owned(IDs \ {i}, {old.net.min})
      BY <1>a, <1>d, <1>i DEF RoutesOf
    <2>2. Owned(IDs, {})'
      BY <2>1, <1>f DEF Owned
    <2>3. SysOwned(IDs)' /\ RoutesOf(h)'
      BY <1>f, <1>p DEF SysOwned, RoutesOf
    <2>4. ASSUME Unmixed', NEW j \in IDs, Open(outbounds'[j]), ack'[j] # Unsure
          PROVE  RouteOf(outbounds'[j]) \in routes'
      <3>1. Unmixed /\ Routed /\ Open(outbounds[j])
        BY <2>4, <1>f DEF Unmixed
      <3>2. j # i
        BY <2>4, <3>1, <1>p, <1>u DEF Open
      <3>3. ack[j] # Unsure
        BY <2>4, <3>2, <1>1
      <3>4. RouteOf(outbounds[j]) \in routes'
        BY <3>1, <3>2, <3>3, <1>f, <1>u, <1>w, RemoveUnmixed
      <3>5. QED
        BY <3>4, <1>f
    <2>5. QED
      BY <2>2, <2>3, <2>4 DEF Routed
  <1>5. QED
    BY <1>2, <1>3, <1>4, <1>a, <1>i, WorkKeeps

\* What a handler that has stored its outbound knows.
LEMMA Stored ==
    ASSUME Inv, NEW h \in Handlers, pc[h] \in {"tun", "route"}
    PROVE  /\ Active(h) /\ proc = "up" /\ job[h] \in Job /\ job[h].id \in IDs
           /\ job[h].ob \in Outbound /\ job[h].op # "delete"
           /\ ack[job[h].id] = Unsure /\ <<job[h].id, job[h].ob.net>> \in entered
           /\ job[h].alone => outbounds[job[h].id] = job[h].ob /\ db[job[h].id] = job[h].ob
           /\ pc[h] = "route" => job[h].ob.open
  <1>1. Active(h)
    BY DEF Active
  <1>2. JobOf(h) /\ HandlerAck(h)
    BY DEF Inv, JobInv, AckInv
  <1>3. QED
    BY <1>1, <1>2, AtWork DEF JobOf, HandlerAck

LEMMA StartTunKeeps ==
    ASSUME Inv, NEW h \in Handlers, StartTun(h) \/ StartTunFails(h)
    PROVE  Inv'
  <1>a. pc[h] = "tun"
    BY DEF StartTun, StartTunFails
  <1>i. PICK i \in IDs : i = job[h].id
    BY <1>a, Stored
  <1>o. PICK o \in Outbound : o = job[h].ob
    BY <1>a, Stored
  <1>s. /\ Active(h) /\ job[h] \in Job /\ job[h].op # "delete" /\ o # Nil
        /\ ack[i] = Unsure /\ <<i, o.net>> \in entered
        /\ job[h].alone => outbounds[i] = o /\ db[i] = o
    BY <1>a, <1>i, <1>o, Stored, OutboundFields
  <1>w. /\ ack \in Acks /\ proc = "up"
        /\ routes \subseteq Router!Route /\ sys \subseteq Net /\ leftover \subseteq Net /\ tun \in {"off", "on", "held"}
    BY <1>i, <1>s, Working
  <1>f. UNCHANGED <<proc, todo, outbounds, db, routes, sys, leftover, entered, noise>>
    BY DEF StartTun, StartTunFails, base
  <1>t. tun' \in {"off", "on", "held"}
    BY <1>w, startTunType DEF StartTun, StartTunFails
  <1>c. ASSUME RoutesOf(h)
        PROVE  /\ Owned(IDs \ {i}, {})' /\ SysOwned(IDs \ {i})' /\ Owned(IDs, {})' /\ SysOwned(IDs)'
               /\ outbounds'[i] = o
    BY <1>c, <1>a, <1>f, <1>i, <1>o DEF RoutesOf, Owned, SysOwned
  <1>r. ASSUME Unmixed => Routed, \A j \in IDs \ {i} : ack'[j] = ack[j],
               ack'[i] = Unsure \/ ~Open(outbounds[i])
        PROVE  Unmixed' => Routed'
    BY <1>r, <1>f DEF Routed, Unmixed
  <1>1. CASE Fail(h)
    <2>1. Moved(h, "idle") /\ ack' = ack /\ pc'[h] = "idle"
      BY <1>1, FinishMoves DEF Inv, Fail, Moved
    <2>2. Works(h, i, "idle")
      BY <2>1, <1>i, <1>s, <1>w, <1>f, <1>t, WorksOnRoutes DEF Labels
    <2>3. Calms(h, "idle")
      BY <2>1, <1>c, <1>r, <1>s DEF Calms, RoutesOf
    <2>4. AckOf(i)'
      BY <2>1, <1>s DEF AckOf
    <2>5. QED
      BY <2>2, <2>3, <2>4, <1>i, <1>s, WorkKeeps
  <1>2. CASE ~o.open /\ Succeed(h)
    <2>1. /\ Moved(h, "idle") /\ ack' \in Acks /\ \A j \in IDs \ {i} : ack'[j] = ack[j]
          /\ IF job[h].alone THEN ack'[i] = o ELSE ack' = ack
      BY <1>2, <1>i, <1>o, <1>s, SucceedEffect DEF Inv
    <2>p. /\ pc'[h] = "idle" /\ (job[h].alone \/ ack'[i] = Unsure)
          /\ ack'[i] = Unsure \/ ~Open(outbounds[i])
      BY <2>1, <1>2, <1>s DEF Moved, Open
    <2>2. Works(h, i, "idle")
      BY <2>1, <2>p, <1>i, <1>s, <1>w, <1>f, <1>t, WorksOnRoutes DEF Labels
    <2>3. Calms(h, "idle")
      BY <2>1, <2>p, <1>c, <1>r DEF Calms, RoutesOf
    <2>4. AckOf(i)'
      BY <2>1, <2>p, <1>f, <1>s DEF AckOf, Matches
    <2>5. QED
      BY <2>2, <2>3, <2>4, <1>i, <1>s, WorkKeeps
  <1>3. CASE o.open /\ Goto(h, "route") /\ UNCHANGED <<job, ack>>
    <2>1. Moved(h, "route") /\ SameJob(h) /\ job'[h] = job[h] /\ pc'[h] = "route"
      BY <1>3, <1>s, StayMoves DEF Inv, Labels, Moved
    <2>2. Works(h, i, "route")
      BY <2>1, <1>3, <1>i, <1>s, <1>w, <1>f, <1>t, WorksOnRoutes DEF Labels
    <2>3. JobOf(h)'
      BY <2>1, <1>3, <1>i, <1>o, <1>s, <1>w, <1>f DEF JobOf
    <2>4. Knows(h, i, "route")
      BY <1>3, <1>o, <1>s, <1>f DEF Knows
    <2>5. Calms(h, "route")
      BY <2>1, <1>3, <1>c, <1>r, <1>s, <1>i, <1>o DEF Calms, RoutesOf
    <2>6. AckOf(i)'
      BY <1>3, <1>s DEF AckOf
    <2>7. QED
      BY <2>2, <2>3, <2>4, <2>5, <2>6, <1>i, <1>s, WorkKeeps
  <1>4. QED
    BY <1>1, <1>2, <1>3, <1>o DEF StartTun, StartTunFails

LEMMA addOutboundRouteKeeps ==
    ASSUME Inv, NEW h \in Handlers, addOutboundRoute(h)
    PROVE  Inv'
  <1>a. pc[h] = "route"
    BY DEF addOutboundRoute
  <1>i. PICK i \in IDs : i = job[h].id
    BY <1>a, Stored
  <1>o. PICK o \in Outbound : o = job[h].ob
    BY <1>a, Stored
  <1>s. /\ Active(h) /\ job[h] \in Job /\ Open(o)
        /\ ack[i] = Unsure /\ <<i, o.net>> \in entered
        /\ job[h].alone => outbounds[i] = o /\ db[i] = o
    BY <1>a, <1>i, <1>o, Stored, OutboundFields DEF Open
  <1>w. /\ ack \in Acks /\ proc = "up"
        /\ routes \subseteq Router!Route /\ sys \subseteq Net /\ leftover \subseteq Net /\ tun \in {"off", "on", "held"}
    BY <1>i, <1>s, Working
  <1>f. /\ UNCHANGED <<proc, todo, outbounds, db, tun, entered, noise>>
        /\ addRoute(o) /\ sys' \in {sys, sys \cup {o.net}} /\ leftover' = leftover /\ Succeed(h)
    BY <1>o DEF addOutboundRoute, RouteAdd, base
  <1>n. routes' \subseteq Router!Route /\ routes' \subseteq routes \cup {RouteOf(o)} /\ sys' \subseteq Net
    BY <1>f, <1>w, addRouteEffect, OutboundFields
  <1>1. /\ Moved(h, "idle") /\ ack' \in Acks /\ \A j \in IDs \ {i} : ack'[j] = ack[j]
        /\ IF job[h].alone THEN ack'[i] = o ELSE ack' = ack
    BY <1>f, <1>i, <1>o, <1>s, SucceedEffect DEF Inv
  <1>p. pc'[h] = "idle" /\ (job[h].alone \/ ack'[i] = Unsure)
    BY <1>1, <1>s DEF Moved
  <1>2. Works(h, i, "idle")
    BY <1>1, <1>p, <1>i, <1>s, <1>w, <1>f, <1>n, WorksOnRoutes DEF Labels
  <1>3. AckOf(i)'
    BY <1>1, <1>p, <1>f, <1>s DEF AckOf, Matches
  <1>4. Calms(h, "idle")
    <2> SUFFICES ASSUME RoutesOf(h), SysOwned(IDs), Unmixed => Routed
                 PROVE  /\ Owned(IDs, {})' /\ SysOwned(IDs)' /\ RoutesOf(h)'
                        /\ Unmixed' => Routed'
      BY DEF Calms
    <2>1. Owned(IDs \ {i}, {}) /\ outbounds[i] = o
      BY <1>a, <1>i, <1>o DEF RoutesOf
    <2>2. Owned(IDs, {})'
      BY <2>1, <1>f, <1>n, <1>s DEF Owned
    <2>3. SysOwned(IDs)' /\ RoutesOf(h)'
      BY <2>1, <1>f, <1>p, <1>s DEF SysOwned, RoutesOf, Open
    <2>4. ASSUME Unmixed', NEW j \in IDs, Open(outbounds'[j]), ack'[j] # Unsure
          PROVE  RouteOf(outbounds'[j]) \in routes'
      <3>1. Unmixed /\ Routed /\ Open(outbounds[j])
        BY <2>4, <1>f DEF Unmixed
      <3>2. /\ RouteOf(o) \in routes'
            /\ \A k \in IDs \ {i} : Open(outbounds[k]) /\ RouteOf(outbounds[k]) \in routes =>
                  RouteOf(outbounds[k]) \in routes'
        BY <3>1, <2>1, <1>f, <1>s, <1>w, addRouteUnmixed DEF Inv
      <3>3. j # i => RouteOf(outbounds[j]) \in routes
        BY <2>4, <3>1, <1>1 DEF Routed
      <3>4. QED
        BY <3>1, <3>2, <3>3, <2>1, <1>f
    <2>5. QED
      BY <2>2, <2>3, <2>4 DEF Routed
  <1>5. QED
    BY <1>2, <1>3, <1>4, <1>i, <1>s, WorkKeeps

-----------------------------------------------------------------------------
LEMMA StutterKeeps ==
    ASSUME Inv, UNCHANGED vars
    PROVE  Inv'
  <1> USE DEF vars, Inv
  <1>1. TypeOK' /\ EnteredInv'
    BY DEF TypeOK, EnteredInv
  <1>2. JobInv'
    BY DEF JobInv, JobOf, Active
  <1>3. AckInv'
    BY DEF AckInv, AckOf, HandlerAck, Active, About
  <1>4. BootInv'
    BY DEF BootInv, Owned, SysOwned, Unmixed
  <1>5. CalmInv'
    <2> SUFFICES ASSUME proc = "up", noise = 0 PROVE CalmInv'
      BY DEF CalmInv
    <2>1. \A g \in Handlers : Active(g)' <=> Active(g)
      BY DEF Active
    <2>2. \A g \in Handlers : RoutesOf(g)'
      BY DEF CalmInv, RoutesOf, Owned, SysOwned
    <2>3. Unmixed' => Routed'
      BY DEF CalmInv, Unmixed, Routed
    <2>4. QED
      BY <2>1, <2>2, <2>3 DEF CalmInv, Owned, SysOwned
  <1>6. QED
    BY <1>1, <1>2, <1>3, <1>4, <1>5

LEMMA NextKeeps == Inv /\ [Next]_vars => Inv'
  <1> SUFFICES ASSUME Inv, [Next]_vars PROVE Inv'
    OBVIOUS
  <1>1. CASE UNCHANGED vars
    BY <1>1, StutterKeeps
  <1>2. CASE loadOutbounds \/ Serve \/ Stop
    BY <1>2, loadOutboundsKeeps, ServeKeeps, StopKeeps
  <1>3. CASE \E i \in IDs : StartOutbound(i) \/ StartOutboundFails(i)
    BY <1>3, StartOutboundKeeps, StartOutboundFailsKeeps
  <1>4. ASSUME NEW h \in Handlers, HandlerStep(h) PROVE Inv'
    BY <1>4, GetOutboundKeeps, DeleteOutboundRouteKeeps, CheckPeerKeeps, CheckPeerFailsKeeps,
       StoreKeeps, StoreDeletedKeeps, ForgetKeeps, StartTunKeeps, addOutboundRouteKeeps
       DEF HandlerStep
  <1>5. CASE \E h \in Handlers : Request(h) \/ HandlerStep(h)
    BY <1>4, <1>5, RequestKeeps
  <1>6. QED
    BY <1>1, <1>2, <1>3, <1>5 DEF Next

\* Start and the handlers, whatever fails and whenever the process stops, keep
\* what the properties below rest on.
THEOREM Invariant == Spec => []Inv
  BY InitInv, NextKeeps, PTL DEF Spec

\* The table, its copy, the routes and the handlers' requests are well formed.
THEOREM Typed == Spec => []TypeOK
  <1>1. Inv => TypeOK
    BY DEF Inv
  <1>2. QED
    BY <1>1, Invariant, PTL

\* What addOutbound, updateOutbound and deleteOutbound acknowledged is in the
\* database, at most closed by Start, whatever the handlers of other outbounds
\* save or fail to save and whenever the process stops.
THEOREM AcknowledgedDurable == Spec => []AckedDurable
  <1>1. Inv => AckedDurable
    BY DEF Inv, AckInv, AckOf, Matches, AckedDurable
  <1>2. QED
    BY <1>1, Invariant, PTL

\* The router sends traffic only where an open outbound does, after requests one
\* at a time and after every restart: no route that addRoute put in outlives the
\* outbound it was for.
THEOREM TrafficOwned == Spec => []DialsOwner
  <1>1. ASSUME Inv, Quiet, NEW a \in Addr, NEW d \in DialContext(a)
        PROVE  \E i \in IDs : /\ Open(outbounds[i]) /\ Router!Covers(outbounds[i].net, a)
                              /\ outbounds[i].peer = d
    <2>1. PICK r \in routes : Router!Covers(r, a) /\ d = r.dialer
      BY <1>1 DEF DialContext
    <2>2. Owned(IDs, {})
      BY <1>1 DEF Inv, CalmInv, Quiet
    <2>3. PICK i \in IDs : Open(outbounds[i]) /\ r = RouteOf(outbounds[i])
      BY <2>2 DEF Owned
    <2>4. outbounds[i] \in Outbound
      BY <2>3, <1>1 DEF Inv, TypeOK, Table, Open
    <2>5. QED
      BY <2>1, <2>3, <2>4, OutboundFields DEF Router!Covers
  <1>2. Inv => DialsOwner
    BY <1>1 DEF DialsOwner
  <1>3. QED
    BY <1>2, Invariant, PTL

\* After requests one at a time the system has no route to the TUN device but
\* those of outbounds that are open or were deleted, and those whose removal
\* failed.
THEOREM SystemRoutesOwned == Spec => []SysRoutesOwned
  <1>1. Inv => SysRoutesOwned
    BY DEF Inv, CalmInv, Quiet, SysOwned, SysRoutesOwned
  <1>2. QED
    BY <1>1, Invariant, PTL

\* An open outbound that was acknowledged has its route, if requests came one at
\* a time and networks of different outbounds are apart: neither addRoute for
\* another outbound nor the removal of its range takes it away.
THEOREM AcknowledgedRouted == Spec => []AckedRouted
  <1>1. Inv => AckedRouted
    BY DEF Inv, CalmInv, Quiet, Routed, AckedRouted
  <1>2. QED
    BY <1>1, Invariant, PTL
=============================================================================
