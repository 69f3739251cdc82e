----------------------------- MODULE AgentProofs -----------------------------
(***************************************************************************)
(* Proofs of the safety properties of Agent, for any number of             *)
(* applications, endpoints and gateways, with starts, saves, loads and     *)
(* listeners failing and the process ending at any time.                   *)
(***************************************************************************)
EXTENDS Agent, SequenceTheorems, TLAPS

\* What there is when the agent says so: a relay comes with a table and goes
\* before the database, and managers of the open database have their data.
HeldInv ==
    /\ pm => db /\ am \in Table
    /\ "apps" \in handles => am \in Table
    /\ "proxys" \in handles => proxys \in GatewayList

\* As long as the relay is in order the applications have ports of their own.
PortsInv == calm /\ pm => OwnPorts(am)

Inv == TypeOK /\ EngineOwned /\ HeldInv /\ AckedKept /\ PortsInv /\ ListenersAgree

-----------------------------------------------------------------------------
(* Lists.                                                                   *)

LEMMA ListIsSeq ==
    ASSUME NEW l \in GatewayList
    PROVE  l \in Seq(Gateways) /\ Len(l) \in 0 .. MaxProxys
  BY BoundsAssumption DEF GatewayList, BoundedSeq, SeqOf

LEMMA SeqIsList ==
    ASSUME NEW l \in Seq(Gateways), Len(l) <= MaxProxys
    PROVE  l \in GatewayList
  <1>1. Len(l) \in 0 .. MaxProxys /\ l \in [1 .. Len(l) -> Gateways]
    BY BoundsAssumption
  <1>2. QED
    BY <1>1 DEF GatewayList, BoundedSeq, SeqOf

\* A list that is made longer contains what it did.
LEMMA AppendList ==
    ASSUME NEW l \in GatewayList, NEW g \in Gateways, Len(l) < MaxProxys
    PROVE  /\ Append(l, g) \in GatewayList
           /\ Contains(Append(l, g), g)
           /\ \A h : Contains(l, h) => Contains(Append(l, g), h)
  <1>1. l \in Seq(Gateways) /\ Len(l) \in 0 .. MaxProxys
    BY ListIsSeq
  <1>2. /\ Append(l, g) \in Seq(Gateways) /\ Len(Append(l, g)) = Len(l) + 1
        /\ \A i \in 1 .. Len(l) : Append(l, g)[i] = l[i]
        /\ Append(l, g)[Len(l) + 1] = g
    BY <1>1, AppendProperties
  <1>3. Len(Append(l, g)) <= MaxProxys
    BY <1>1, <1>2, BoundsAssumption
  <1>4. Append(l, g) \in GatewayList
    BY <1>2, <1>3, SeqIsList
  <1>5. Len(l) + 1 \in 1 .. Len(Append(l, g)) /\ 1 .. Len(l) \subseteq 1 .. Len(Append(l, g))
    BY <1>1, <1>2
  <1>6. Contains(Append(l, g), g)
    BY <1>2, <1>5 DEF Contains
  <1>7. \A h : Contains(l, h) => Contains(Append(l, g), h)
    BY <1>2, <1>5 DEF Contains
  <1>8. QED
    BY <1>4, <1>6, <1>7

\* A list from which one gateway is removed contains every other one.
LEMMA RemoveList ==
    ASSUME NEW l \in GatewayList, NEW n \in 1 .. Len(l)
    PROVE  /\ RemoveAt(l, n) \in GatewayList
           /\ l[n] \in Gateways
           /\ \A h : Contains(l, h) /\ h # l[n] => Contains(RemoveAt(l, n), h)
  <1>1. l \in Seq(Gateways) /\ Len(l) \in 0 .. MaxProxys
    BY ListIsSeq
  <1> DEFINE a == SubSeq(l, 1, n - 1)
             b == SubSeq(l, n + 1, Len(l))
  <1>2. /\ a \in Seq(Gateways) /\ Len(a) = n - 1
        /\ \A i \in 1 .. n - 1 : a[i] = l[i]
    <2>1. \A i \in 1 .. n - 1 : l[i] \in Gateways
      BY <1>1
    <2>2. n - 1 \in Int /\ 1 \in Int
      BY <1>1
    <2>3. /\ a \in Seq(Gateways)
          /\ Len(a) = IF 1 <= n - 1 THEN n - 1 - 1 + 1 ELSE 0
          /\ \A i \in 1 .. n - 1 - 1 + 1 : a[i] = l[1 + i - 1]
      BY <2>1, <2>2, SubSeqProperties
    <2> HIDE DEF a
    <2>4. QED
      BY <2>3, <1>1
  <1>3. /\ b \in Seq(Gateways) /\ Len(b) = Len(l) - n
        /\ \A i \in 1 .. Len(l) - n : b[i] = l[n + i]
    <2>1. \A i \in n + 1 .. Len(l) : l[i] \in Gateways
      BY <1>1
    <2>2. n + 1 \in Int /\ Len(l) \in Int
      BY <1>1
    <2>3. /\ b \in Seq(Gateways)
          /\ Len(b) = IF n + 1 <= Len(l) THEN Len(l) - (n + 1) + 1 ELSE 0
          /\ \A i \in 1 .. Len(l) - (n + 1) + 1 : b[i] = l[n + 1 + i - 1]
      BY <2>1, <2>2, SubSeqProperties
    <2> HIDE DEF b
    <2>4. QED
      BY <2>3, <1>1
  <1>4. RemoveAt(l, n) = a \o b
    BY DEF RemoveAt
  <1> HIDE DEF a, b
  <1>5. /\ a \o b \in Seq(Gateways) /\ Len(a \o b) = Len(l) - 1
        /\ \A i \in 1 .. Len(l) - 1 : (a \o b)[i] = IF i <= n - 1 THEN a[i] ELSE b[i - (n - 1)]
    <2>1. Len(a) + Len(b) = Len(l) - 1 /\ Len(a) = n - 1
      BY <1>1, <1>2, <1>3
    <2>2. /\ a \o b \in Seq(Gateways) /\ Len(a \o b) = Len(a) + Len(b)
          /\ \A i \in 1 .. Len(a) + Len(b) :
                (a \o b)[i] = IF i <= Len(a) THEN a[i] ELSE b[i - Len(a)]
      BY <1>2, <1>3, ConcatProperties, Zenon
    <2>3. QED
      BY <2>1, <2>2, Zenon
  <1>6. a \o b \in GatewayList
    <2>1. Len(a \o b) <= MaxProxys
      BY <1>1, <1>5, BoundsAssumption
    <2>2. QED
      BY <2>1, <1>5, SeqIsList, Zenon
  <1>7. ASSUME NEW h, Contains(l, h), h # l[n]
        PROVE  Contains(a \o b, h)
    <2>1. PICK i \in 1 .. Len(l) : l[i] = h
      BY <1>7 DEF Contains
    <2>2. CASE i < n
      <3>1. i \in 1 .. Len(l) - 1 /\ i <= n - 1 /\ a[i] = l[i]
        BY <2>2, <1>1, <1>2
      <3>2. QED
        BY <3>1, <2>1, <1>5 DEF Contains
    <2>3. CASE i > n
      <3>1. i - 1 \in 1 .. Len(l) - 1 /\ ~(i - 1 <= n - 1) /\ i - n \in 1 .. Len(l) - n
            /\ i - 1 - (n - 1) = i - n /\ n + (i - n) = i
        BY <2>3, <1>1
      <3>2. (a \o b)[i - 1] = b[i - n] /\ b[i - n] = l[i]
        BY <3>1, <1>3, <1>5
      <3>3. QED
        BY <3>1, <3>2, <2>1, <1>5 DEF Contains
    <2>4. QED
      BY <2>1, <2>2, <2>3, <1>1, <1>7
  <1>8. QED
    BY <1>1, <1>4, <1>6, <1>7

-----------------------------------------------------------------------------
(* start, close and the end of the process.                                 *)

Store == [apps : Table, proxys : GatewayList]
Acks == [apps : SUBSET IDs, proxys : SUBSET Gateways]

LEMMA StoppedApp ==
    ASSUME NEW a \in App
    PROVE  Stopped(a) \in App /\ Stopped(a) # Nil /\ ~Running(Stopped(a)) /\ Stopped(a).ep = a.ep
  BY NilAssumption DEF Stopped, App, Running

LEMMA EmptyTable == Empty \in Table /\ \A i \in IDs : Empty[i] = Nil
  BY DEF Empty, Table

LEMMA EmptyList == <<>> \in GatewayList
  <1>1. <<>> \in Seq(Gateways) /\ Len(<<>>) <= MaxProxys
    BY BoundsAssumption
  <1>2. QED
    BY <1>1, SeqIsList, Zenon

LEMMA InitInv == Init => Inv
  <1> SUFFICES ASSUME Init PROVE Inv
    OBVIOUS
  <1>1. TypeOK
    BY EmptyTable, EmptyList DEF Init, TypeOK
  <1>2. EngineOwned /\ HeldInv /\ AckedKept /\ PortsInv /\ ListenersAgree
    BY DEF Init, EngineOwned, HeldInv, AckedKept, PortsInv, ListenersAgree
  <1>3. QED
    BY <1>1, <1>2 DEF Inv

LEMMA StartFailsKeeps ==
    ASSUME Inv, StartFails
    PROVE  Inv'
  <1> USE DEF Inv, StartFails, OpenFile, history
  <1>1. TypeOK'
    BY DEF TypeOK
  <1>2. EngineOwned'
    BY DEF EngineOwned
  <1>3. HeldInv'
    BY DEF HeldInv
  <1>4. AckedKept'
    BY DEF AckedKept
  <1>5. PortsInv' /\ ListenersAgree'
    BY DEF PortsInv, ListenersAgree
  <1>6. QED
    BY <1>1, <1>2, <1>3, <1>4, <1>5

LEMMA closeKeeps ==
    ASSUME Inv, close
    PROVE  Inv'
  <1> USE DEF Inv, close, history
  <1>1. TypeOK'
    BY DEF TypeOK
  <1>2. EngineOwned'
    BY DEF EngineOwned
  <1>3. HeldInv'
    BY DEF HeldInv
  <1>4. AckedKept'
    BY DEF AckedKept
  <1>5. PortsInv' /\ ListenersAgree'
    BY DEF PortsInv, ListenersAgree
  <1>6. QED
    BY <1>1, <1>2, <1>3, <1>4, <1>5

LEMMA ExitKeeps ==
    ASSUME Inv, Exit
    PROVE  Inv'
  <1> USE DEF Inv, Exit
  <1>1. TypeOK'
    BY DEF TypeOK
  <1>2. EngineOwned' /\ HeldInv'
    BY DEF EngineOwned, HeldInv
  <1>3. AckedKept'
    BY DEF AckedKept
  <1>4. PortsInv' /\ ListenersAgree'
    BY DEF PortsInv, ListenersAgree
  <1>5. QED
    BY <1>1, <1>2, <1>3, <1>4

\* startPortmap loads every application that was saved; its listeners are those
\* of the applications that run.
LEMMA startPortmapEffect ==
    ASSUME TypeOK, NEW failed \in SUBSET {i \in IDs : Running(store.apps[i])}, startPortmap(failed)
    PROVE  /\ am' \in Table /\ pm'
           /\ store' \in Store /\ store'.proxys = store.proxys
           /\ \A i \in IDs : /\ store.apps[i] # Nil => am'[i] # Nil /\ store'.apps[i] # Nil
                             /\ Running(am'[i]) => am'[i] = store.apps[i]
                             /\ am'[i] # Nil => store.apps[i] # Nil /\ am'[i].ep = store.apps[i].ep
           /\ listeners' \subseteq Endpoints
           /\ \A i \in IDs : Running(am'[i]) => am'[i].ep \in listeners'
           /\ \A e \in listeners' : \E i \in IDs : Running(am'[i]) /\ am'[i].ep = e
  <1>t. store.apps \in Table /\ store \in Store
    BY DEF TypeOK, Store
  <1>1. \A i \in failed : /\ store.apps[i] \in App
                          /\ Stopped(store.apps[i]) \in App /\ ~Running(Stopped(store.apps[i]))
                          /\ Stopped(store.apps[i]).ep = store.apps[i].ep
    BY <1>t, StoppedApp DEF Table, Running
  <1>2. am' = [i \in IDs |-> IF i \in failed THEN Stopped(store.apps[i]) ELSE store.apps[i]]
    BY DEF startPortmap, StopAll
  <1>3. am' \in Table
    BY <1>t, <1>1, <1>2 DEF Table
  <1>4. \A i \in IDs : /\ store.apps[i] # Nil => am'[i] # Nil
                       /\ Running(am'[i]) => am'[i] = store.apps[i]
                       /\ am'[i] # Nil => store.apps[i] # Nil /\ am'[i].ep = store.apps[i].ep
    BY <1>1, <1>2, NilAssumption
  <1>5. /\ store' \in Store /\ store'.proxys = store.proxys
        /\ \A i \in IDs : store.apps[i] # Nil => store'.apps[i] # Nil
    <2>1. PICK saved \in SUBSET failed : store' = [store EXCEPT !.apps = StopAll(saved)]
      BY DEF startPortmap
    <2>2. StopAll(saved) \in Table /\ \A i \in IDs : store.apps[i] # Nil => StopAll(saved)[i] # Nil
      BY <1>t, <1>1, NilAssumption DEF Table, StopAll
    <2> DEFINE t == StopAll(saved)
    <2> HIDE DEF t
    <2>3. store' = [store EXCEPT !.apps = t] /\ t \in Table
          /\ \A i \in IDs : store.apps[i] # Nil => t[i] # Nil
      BY <2>1, <2>2 DEF t
    <2>4. store' \in Store /\ store'.proxys = store.proxys /\ store'.apps = t
      BY <1>t, <2>3 DEF Store
    <2>5. QED
      BY <2>3, <2>4
  <1>6. listeners' = {am'[i].ep : i \in {j \in IDs : Running(am'[j])}}
    BY DEF startPortmap
  <1>7. \A i \in IDs : Running(am'[i]) => am'[i].ep \in Endpoints
    BY <1>3 DEF Table, App, Running
  <1>8. pm'
    BY DEF startPortmap
  <1>9. listeners' \subseteq Endpoints
    BY <1>6, <1>7
  <1>10. /\ \A i \in IDs : Running(am'[i]) => am'[i].ep \in listeners'
         /\ \A e \in listeners' : \E i \in IDs : Running(am'[i]) /\ am'[i].ep = e
    BY <1>6
  <1>11. QED
    BY <1>3, <1>4, <1>5, <1>8, <1>9, <1>10

LEMMA startKeeps ==
    ASSUME Inv, NEW withPortmap \in BOOLEAN, NEW appsOk \in BOOLEAN, NEW proxysOk \in BOOLEAN,
           start(withPortmap, appsOk, proxysOk)
    PROVE  Inv'
  <1> USE DEF Inv
  <1>f. /\ ~pm /\ db' /\ ds' /\ p2p' /\ alive' /\ running' = proxysOk /\ left' = {}
        /\ handles' = {"proxys"} \cup (IF withPortmap THEN {"apps"} ELSE {})
        /\ proxys' = (IF proxysOk THEN store.proxys ELSE <<>>)
        /\ dialer' = dialer
    BY DEF start, OpenFile, NewP2PEngine, loadProxys, HeldInv, TypeOK
  <1>c. calm' = ((withPortmap => appsOk /\ OwnPorts(store.apps)) /\ proxysOk)
    BY DEF start
  <1>a. /\ ack' = ack /\ lost' = lost /\ ack \in Acks /\ lost \in Acks
        /\ unloaded' \subseteq {"apps", "proxys"}
        /\ proxysOk <=> "proxys" \notin unloaded'
        /\ withPortmap => (appsOk <=> "apps" \notin unloaded')
    BY DEF start, TypeOK, Acks
  <1>b. calm' \in BOOLEAN
    BY <1>c DEF OwnPorts
  <1>p. proxys' \in GatewayList
    BY <1>f, EmptyList DEF TypeOK
  <1>1. CASE withPortmap /\ appsOk
    <2>0. PICK failed \in SUBSET {i \in IDs : Running(store.apps[i])} : startPortmap(failed)
      BY <1>1 DEF start
    <2>1. /\ am' \in Table /\ pm'
          /\ store' \in Store /\ store'.proxys = store.proxys
          /\ \A i \in IDs : /\ store.apps[i] # Nil => am'[i] # Nil /\ store'.apps[i] # Nil
                            /\ Running(am'[i]) => am'[i] = store.apps[i]
                            /\ am'[i] # Nil => store.apps[i] # Nil /\ am'[i].ep = store.apps[i].ep
          /\ listeners' \subseteq Endpoints
          /\ \A i \in IDs : Running(am'[i]) => am'[i].ep \in listeners'
          /\ \A e \in listeners' : \E i \in IDs : Running(am'[i]) /\ am'[i].ep = e
      BY <2>0, startPortmapEffect
    <2>p. pm' = TRUE
      BY <2>0 DEF startPortmap
    <2>2. TypeOK'
      BY <2>1, <2>p, <1>1, <1>f, <1>a, <1>b, <1>p DEF TypeOK, Store, Acks, start, NewP2PEngine
    <2>3. EngineOwned' /\ HeldInv'
      BY <2>1, <1>f, <1>p DEF EngineOwned, HeldInv
    <2>5. AckedKept'
      BY <2>1, <1>1, <1>f, <1>a DEF AckedKept, Acks
    <2>6. PortsInv'
      <3>1. OwnPorts(store.apps) => OwnPorts(am')
        <4> SUFFICES ASSUME OwnPorts(store.apps), NEW i \in IDs, NEW j \in IDs,
                            Running(am'[i]), am'[j] # Nil, i # j
                     PROVE  am'[i].ep # am'[j].ep
          BY DEF OwnPorts
        <4>1. am'[i] = store.apps[i] /\ store.apps[j] # Nil /\ am'[j].ep = store.apps[j].ep
          BY <2>1
        <4>2. QED
          BY <4>1 DEF OwnPorts
      <3>2. QED
        BY <3>1, <1>1, <1>c DEF PortsInv
    <2>7. ListenersAgree'
      BY <2>1 DEF ListenersAgree
    <2>8. QED
      BY <2>2, <2>3, <2>5, <2>6, <2>7
  <1>2. CASE withPortmap /\ ~appsOk
    <2>1. am' = Empty /\ UNCHANGED <<pm, listeners, store>>
      BY <1>2 DEF start, startPortmapFails
    <2>2. TypeOK'
      BY <2>1, <1>2, <1>f, <1>a, <1>b, <1>p, EmptyTable DEF TypeOK, Acks, start, NewP2PEngine
    <2>3. EngineOwned' /\ HeldInv'
      BY <2>1, <1>f, <1>p, EmptyTable DEF EngineOwned, HeldInv
    <2>4. AckedKept'
      BY <2>1, <1>2, <1>f, <1>a DEF AckedKept, Acks
    <2>5. PortsInv' /\ ListenersAgree'
      BY <2>1, <1>f DEF PortsInv, ListenersAgree
    <2>6. QED
      BY <2>2, <2>3, <2>4, <2>5
  <1>3. CASE ~withPortmap
    <2>1. UNCHANGED <<pm, am, listeners, store>>
      BY <1>3 DEF start
    <2>2. TypeOK'
      BY <2>1, <1>3, <1>f, <1>a, <1>b, <1>p DEF TypeOK, Acks, start, NewP2PEngine
    <2>3. EngineOwned' /\ HeldInv'
      BY <2>1, <1>3, <1>f, <1>p DEF EngineOwned, HeldInv
    <2>4. AckedKept'
      BY <2>1, <1>3, <1>f, <1>a DEF AckedKept, Acks
    <2>5. PortsInv' /\ ListenersAgree'
      BY <2>1, <1>f DEF PortsInv, ListenersAgree
    <2>6. QED
      BY <2>2, <2>3, <2>4, <2>5
  <1>4. QED
    BY <1>1, <1>2, <1>3

-----------------------------------------------------------------------------
(* Applications.                                                            *)

LEMMA SaveAppsEffect ==
    ASSUME TypeOK, am \in Table, NEW i \in IDs, NEW x \in App \cup {Nil}, NEW saved \in BOOLEAN,
           SaveApps([am EXCEPT ![i] = x], saved)
    PROVE  /\ am' \in Table /\ am'[i] = x /\ \A j \in IDs \ {i} : am'[j] = am[j]
           /\ store' \in Store /\ store'.proxys = store.proxys
           /\ IF saved THEN "apps" \in handles /\ store'.apps = am' ELSE store' = store
           /\ lost' \in Acks /\ lost'.proxys = lost.proxys
           /\ IF saved THEN lost'.apps = AppsOverwritten(am') ELSE lost' = lost
           /\ calm' = (calm /\ OwnPorts(am')) /\ calm' \in BOOLEAN
  <1>1. am' = [am EXCEPT ![i] = x] /\ store \in Store
    BY DEF SaveApps, TypeOK, Store
  <1>2. am' \in Table
    BY <1>1 DEF Table
  <1>3. /\ saved => "apps" \in handles
        /\ store' = IF saved THEN [store EXCEPT !.apps = am'] ELSE store
    BY <1>1 DEF SaveApps
  <1>4. calm' = (calm /\ OwnPorts(am')) /\ calm' \in BOOLEAN
    BY <1>1 DEF SaveApps, TypeOK
  <1>5. am'[i] = x /\ \A j \in IDs \ {i} : am'[j] = am[j]
    BY <1>1 DEF Table
  <1>6. store' \in Store /\ store'.proxys = store.proxys
    BY <1>1, <1>2, <1>3 DEF Store
  <1>7. IF saved THEN "apps" \in handles /\ store'.apps = am' ELSE store' = store
    BY <1>1, <1>3 DEF Store
  <1>8. /\ lost' \in Acks /\ lost'.proxys = lost.proxys
        /\ IF saved THEN lost'.apps = AppsOverwritten(am') ELSE lost' = lost
    <2> DEFINE o == AppsOverwritten(am')
    <2>1. o \subseteq IDs /\ lost \in Acks /\ lost' = IF saved THEN [lost EXCEPT !.apps = o] ELSE lost
      BY <1>1 DEF SaveApps, AppsOverwritten, TypeOK, Acks
    <2> HIDE DEF o
    <2>2. lost' \in Acks /\ lost'.proxys = lost.proxys /\ IF saved THEN lost'.apps = o ELSE lost' = lost
      BY <2>1 DEF Acks
    <2>3. QED
      BY <2>2 DEF o
  <1>9. QED
    BY <1>2, <1>4, <1>5, <1>6, <1>7, <1>8

\* A call that stores application i as x, and takes back or gives an
\* acknowledgement as it may, keeps everything but the listeners in order.
LEMMA AppKeeps ==
    ASSUME Inv, am \in Table, NEW i \in IDs, NEW x \in App \cup {Nil}, NEW saved \in BOOLEAN,
           SaveApps([am EXCEPT ![i] = x], saved),
           UNCHANGED <<engine, proxys, dialer, unloaded>>,
           listeners' \subseteq Endpoints, left' \subseteq Endpoints,
           ack' \in Acks, ack'.proxys = ack.proxys, ack'.apps \subseteq ack.apps \cup {i},
           i \in ack'.apps => x # Nil /\ (i \in ack.apps \/ saved)
    PROVE  TypeOK' /\ EngineOwned' /\ HeldInv' /\ AckedKept' /\ PortsInv'
  <1> USE DEF Inv
  <1>s. /\ am' \in Table /\ am'[i] = x /\ \A j \in IDs \ {i} : am'[j] = am[j]
        /\ store' \in Store /\ store'.proxys = store.proxys
        /\ IF saved THEN "apps" \in handles /\ store'.apps = am' ELSE store' = store
        /\ lost' \in Acks /\ lost'.proxys = lost.proxys
        /\ IF saved THEN lost'.apps = AppsOverwritten(am') ELSE lost' = lost
        /\ calm' = (calm /\ OwnPorts(am')) /\ calm' \in BOOLEAN
    BY SaveAppsEffect
  <1>1. TypeOK'
    BY <1>s DEF TypeOK, Store, Acks, engine
  <1>2. EngineOwned' /\ HeldInv'
    BY <1>s DEF EngineOwned, HeldInv, engine
  <1>4. AckedKept'
    <2>1. handles' = handles /\ proxys' = proxys /\ unloaded' = unloaded
      BY DEF engine
    <2>2. ASSUME NEW j \in ack'.apps, j \notin lost'.apps
          PROVE  store'.apps[j] # Nil /\ ("apps" \in handles \ unloaded => am'[j] # Nil)
      <3>1. j \in IDs /\ (j = i \/ j \in ack.apps)
        BY DEF Acks
      <3>2. CASE saved
        <4>1. am'[j] # Nil
          <5>1. CASE j = i
            BY <5>1, <2>2, <1>s
          <5>2. CASE j # i
            BY <5>2, <3>1, <3>2, <2>2, <1>s DEF AppsOverwritten, AckedKept
          <5>3. QED
            BY <5>1, <5>2
        <4>2. QED
          BY <4>1, <3>2, <1>s
      <3>3. CASE ~saved
        <4>1. j \in ack.apps /\ j \notin lost.apps /\ store'.apps[j] # Nil
          BY <3>1, <3>3, <2>2, <1>s DEF AckedKept
        <4>2. CASE j = i
          BY <4>1, <4>2, <2>2, <1>s
        <4>3. CASE j # i
          BY <4>1, <4>3, <3>1, <1>s DEF AckedKept
        <4>4. QED
          BY <4>2, <4>3
      <3>4. QED
        BY <3>2, <3>3
    <2>3. QED
      BY <2>1, <2>2, <1>s DEF AckedKept
  <1>5. PortsInv'
    BY <1>s DEF PortsInv
  <1>6. QED
    BY <1>1, <1>2, <1>4, <1>5

LEMMA addAppKeeps ==
    ASSUME Inv, NEW i \in IDs, NEW a \in App, addApp(i, a)
    PROVE  Inv'
  <1> USE DEF Inv
  <1>t. am \in Table /\ am[i] = Nil /\ UNCHANGED <<engine, proxys, dialer, unloaded, left>>
    BY DEF addApp, TypeOK
  <1>1. PICK bound \in BOOLEAN, saved \in BOOLEAN :
          /\ IF a.running THEN pm /\ AddListener(a, bound) ELSE bound /\ UNCHANGED listeners
          /\ SaveApps([am EXCEPT ![i] = IF bound THEN a ELSE Stopped(a)], saved)
          /\ ack' = IF saved THEN [ack EXCEPT !.apps = @ \cup {i}] ELSE ack
    BY DEF addApp
  <1>2. PICK x \in App : x = (IF bound THEN a ELSE Stopped(a))
    BY StoppedApp
  <1>x. x # Nil /\ (~bound => ~Running(x)) /\ a.ep \in Endpoints
    BY <1>2, NilAssumption, StoppedApp DEF App
  <1>3. SaveApps([am EXCEPT ![i] = x], saved)
    BY <1>1, <1>2
  <1>4. listeners' \subseteq Endpoints /\ left' \subseteq Endpoints
    BY <1>1, <1>x, <1>t DEF AddListener, TypeOK
  <1>5. /\ ack' \in Acks /\ ack'.proxys = ack.proxys /\ ack'.apps \subseteq ack.apps \cup {i}
        /\ i \in ack'.apps => i \in ack.apps \/ saved
    BY <1>1 DEF TypeOK, Acks
  <1>6. TypeOK' /\ EngineOwned' /\ HeldInv' /\ AckedKept' /\ PortsInv'
    BY <1>t, <1>3, <1>4, <1>5, <1>x, AppKeeps
  <1>7. ListenersAgree'
    <2>1. /\ am'[i] = x /\ \A j \in IDs \ {i} : am'[j] = am[j]
          /\ calm' => calm
      BY <1>t, <1>3, SaveAppsEffect
    <2>2. pm' = pm /\ left' = left
      BY <1>t DEF engine
    <2>3. Running(x) => x = a /\ a.running /\ bound
      BY <1>2, <1>x DEF Running
    <2>4. listeners \subseteq listeners' /\ listeners' \subseteq listeners \cup {a.ep}
      BY <1>1 DEF AddListener
    <2>5. Running(x) => a.ep \in listeners'
      BY <1>1, <2>3 DEF AddListener
    <2>6. listeners' # listeners => Running(x) /\ x = a
      BY <1>1, <1>2, <1>x DEF AddListener, Running
    <2>7. SUFFICES ASSUME calm', pm'
                   PROVE  /\ \A j \in IDs : Running(am'[j]) => am'[j].ep \in listeners'
                          /\ \A e \in listeners' : \/ e \in left'
                                                   \/ \E j \in IDs : Running(am'[j]) /\ am'[j].ep = e
      BY DEF ListenersAgree
    <2>8. \A j \in IDs : Running(am'[j]) => am'[j].ep \in listeners'
      BY <2>1, <2>2, <2>3, <2>4, <2>5, <2>7 DEF ListenersAgree
    <2>9. ASSUME NEW e \in listeners', e \notin left'
          PROVE  \E j \in IDs : Running(am'[j]) /\ am'[j].ep = e
      <3>1. CASE e \in listeners
        <4>1. PICK j \in IDs : Running(am[j]) /\ am[j].ep = e
          BY <3>1, <2>1, <2>2, <2>7, <2>9 DEF ListenersAgree
        <4>2. j # i
          BY <4>1, <1>t DEF Running
        <4>3. QED
          BY <4>1, <4>2, <2>1
      <3>2. CASE e \notin listeners
        BY <3>2, <2>1, <2>4, <2>6, <2>9
      <3>3. QED
        BY <3>1, <3>2
    <2>10. QED
      BY <2>8, <2>9
  <1>8. QED
    BY <1>6, <1>7

LEMMA updateAPPKeeps ==
    ASSUME Inv, NEW i \in IDs, NEW a \in App, updateAPP(i, a)
    PROVE  Inv'
  <1> USE DEF Inv
  <1>t. am \in Table /\ am[i] \in App /\ pm /\ UNCHANGED <<engine, proxys, dialer, ack, unloaded>>
    BY DEF updateAPP, TypeOK, Table
  <1>1. PICK bound \in BOOLEAN, saved \in BOOLEAN :
          /\ IF a.running THEN AddListener(a, bound) ELSE bound /\ listeners' = listeners \ {a.ep}
          /\ SaveApps([am EXCEPT ![i] = IF bound THEN a ELSE Stopped(a)], saved)
    BY DEF updateAPP
  <1>2. PICK x \in App : x = (IF bound THEN a ELSE Stopped(a))
    BY StoppedApp
  <1>x. x # Nil /\ (~bound => ~Running(x)) /\ x.ep = a.ep /\ a.ep \in Endpoints
    BY <1>2, NilAssumption, StoppedApp DEF App
  <1>3. SaveApps([am EXCEPT ![i] = x], saved)
    BY <1>1, <1>2
  <1>l. left' = IF Running(am[i]) /\ am[i].ep # a.ep THEN left \cup {am[i].ep} ELSE left
    BY DEF updateAPP
  <1>e. am[i].ep \in Endpoints
    BY <1>t DEF App
  <1>4. listeners' \subseteq Endpoints /\ left' \subseteq Endpoints
    BY <1>1, <1>x, <1>l, <1>e DEF AddListener, TypeOK
  <1>5. /\ ack' \in Acks /\ ack' = ack /\ ack'.apps \subseteq ack.apps \cup {i}
        /\ i \in ack'.apps => i \in ack.apps
    BY <1>t DEF TypeOK, Acks
  <1>6. TypeOK' /\ EngineOwned' /\ HeldInv' /\ AckedKept' /\ PortsInv'
    BY <1>t, <1>3, <1>4, <1>5, <1>x, AppKeeps
  <1>7. ListenersAgree'
    <2>1. /\ am'[i] = x /\ \A j \in IDs \ {i} : am'[j] = am[j]
          /\ calm' = (calm /\ OwnPorts(am'))
      BY <1>t, <1>3, SaveAppsEffect
    <2>2. SUFFICES ASSUME calm, OwnPorts(am')
                   PROVE  /\ \A j \in IDs : Running(am'[j]) => am'[j].ep \in listeners'
                          /\ \A e \in listeners' : \/ e \in left'
                                                   \/ \E j \in IDs : Running(am'[j]) /\ am'[j].ep = e
      BY <2>1 DEF ListenersAgree
    <2>3. /\ \A j \in IDs : Running(am[j]) => am[j].ep \in listeners
          /\ \A e \in listeners : e \in left \/ \E j \in IDs : Running(am[j]) /\ am[j].ep = e
      BY <1>t, <2>2 DEF ListenersAgree
    <2>4. \A j \in IDs \ {i} : Running(am'[j]) => am'[j].ep # a.ep
      BY <2>1, <2>2, <1>x DEF OwnPorts
    <2>5. listeners \ {a.ep} \subseteq listeners' /\ listeners' \subseteq listeners \cup {a.ep}
      BY <1>1 DEF AddListener
    <2>6. Running(x) => a.ep \in listeners'
      BY <1>1, <1>2, <1>x DEF AddListener, Running
    <2>7. a.ep \in listeners' => Running(x)
      BY <1>1, <1>2, <1>x DEF AddListener, Running
    <2>8. ASSUME NEW j \in IDs, Running(am'[j]) PROVE am'[j].ep \in listeners'
      <3>1. CASE j = i
        BY <3>1, <2>1, <2>6, <2>8, <1>x
      <3>2. CASE j # i
        BY <3>2, <2>1, <2>3, <2>4, <2>5, <2>8
      <3>3. QED
        BY <3>1, <3>2
    <2>9. ASSUME NEW e \in listeners', e \notin left'
          PROVE  \E j \in IDs : Running(am'[j]) /\ am'[j].ep = e
      <3>1. CASE e = a.ep
        BY <3>1, <2>1, <2>7, <2>9, <1>x
      <3>2. CASE e # a.ep
        <4>1. e \in listeners /\ e \notin left
          BY <3>2, <2>5, <2>9, <1>l
        <4>2. PICK j \in IDs : Running(am[j]) /\ am[j].ep = e
          BY <4>1, <2>3
        <4>3. j # i
          BY <4>2, <3>2, <2>9, <1>l
        <4>4. QED
          BY <4>2, <4>3, <2>1
      <3>3. QED
        BY <3>1, <3>2
    <2>10. QED
      BY <2>8, <2>9
  <1>8. QED
    BY <1>6, <1>7

LEMMA delAppKeeps ==
    ASSUME Inv, NEW i \in IDs, delApp(i)
    PROVE  Inv'
  <1> USE DEF Inv
  <1>t. am \in Table /\ am[i] # Nil /\ pm /\ UNCHANGED <<engine, proxys, dialer, unloaded, left>>
    BY DEF delApp, HeldInv
  <1>1. PICK saved \in BOOLEAN : SaveApps([am EXCEPT ![i] = Nil], saved)
    BY DEF delApp
  <1>l. listeners' = listeners \ {am[i].ep}
    BY DEF delApp
  <1>4. listeners' \subseteq Endpoints /\ left' \subseteq Endpoints
    BY <1>t, <1>l DEF TypeOK
  <1>5. ack' \in Acks /\ ack'.proxys = ack.proxys /\ ack'.apps = ack.apps \ {i}
    BY DEF delApp, TypeOK, Acks
  <1>6. TypeOK' /\ EngineOwned' /\ HeldInv' /\ AckedKept' /\ PortsInv'
    <2>1. ack'.apps \subseteq ack.apps \cup {i} /\ i \notin ack'.apps
      BY <1>5
    <2>2. QED
      BY <1>t, <1>1, <1>4, <1>5, <2>1, AppKeeps
  <1>7. ListenersAgree'
    <2>1. /\ am'[i] = Nil /\ \A j \in IDs \ {i} : am'[j] = am[j]
          /\ calm' => calm
      BY <1>t, <1>1, SaveAppsEffect
    <2>2. SUFFICES ASSUME calm
                   PROVE  /\ \A j \in IDs : Running(am'[j]) => am'[j].ep \in listeners'
                          /\ \A e \in listeners' : \/ e \in left'
                                                   \/ \E j \in IDs : Running(am'[j]) /\ am'[j].ep = e
      BY <2>1 DEF ListenersAgree
    <2>3. /\ \A j \in IDs : Running(am[j]) => am[j].ep \in listeners
          /\ \A e \in listeners : e \in left \/ \E j \in IDs : Running(am[j]) /\ am[j].ep = e
      BY <1>t, <2>2 DEF ListenersAgree
    <2>4. OwnPorts(am)
      BY <1>t, <2>2 DEF PortsInv
    <2>5. ASSUME NEW j \in IDs, Running(am'[j]) PROVE am'[j].ep \in listeners'
      <3>1. j # i /\ am'[j] = am[j]
        BY <2>1, <2>5 DEF Running
      <3>2. am[j].ep # am[i].ep
        BY <3>1, <2>4, <2>5, <1>t DEF OwnPorts
      <3>3. QED
        BY <3>1, <3>2, <2>3, <2>5, <1>l
    <2>6. ASSUME NEW e \in listeners', e \notin left'
          PROVE  \E j \in IDs : Running(am'[j]) /\ am'[j].ep = e
      <3>1. PICK j \in IDs : Running(am[j]) /\ am[j].ep = e
        BY <2>3, <2>6, <1>l, <1>t
      <3>2. j # i
        BY <3>1, <2>6, <1>l
      <3>3. QED
        BY <3>1, <3>2, <2>1
    <2>7. QED
      BY <2>5, <2>6
  <1>8. QED
    BY <1>6, <1>7

-----------------------------------------------------------------------------
(* Proxy gateways and the TUN stack.                                        *)

\* A call that changes the list of gateways leaves the applications alone.
LEMMA ProxyKeeps ==
    ASSUME Inv, NEW l \in GatewayList, NEW saved \in BOOLEAN, saveProxys(l, saved),
           UNCHANGED <<engine, listeners, am, dialer, unloaded, left, calm>>,
           ack' \in Acks, ack'.apps = ack.apps,
           \A g \in ack'.proxys : \/ g \in ack.proxys /\ (Contains(proxys, g) => Contains(l, g))
                                  \/ saved /\ Contains(l, g)
    PROVE  Inv'
  <1> USE DEF Inv
  <1>s. /\ proxys' = l
        /\ store' \in Store /\ store'.apps = store.apps
        /\ IF saved THEN "proxys" \in handles /\ store'.proxys = l ELSE store' = store
    <2>1. store \in Store
      BY DEF TypeOK, Store
    <2>2. /\ proxys' = l /\ (saved => "proxys" \in handles)
          /\ store' = IF saved THEN [store EXCEPT !.proxys = l] ELSE store
      BY DEF saveProxys
    <2>3. QED
      BY <2>1, <2>2 DEF Store
  <1>o. /\ lost' \in Acks /\ lost'.apps = lost.apps
        /\ IF saved THEN lost'.proxys = ProxysOverwritten(l) ELSE lost' = lost
    <2> DEFINE o == ProxysOverwritten(l)
    <2>1. /\ o \subseteq Gateways /\ lost \in Acks
          /\ lost' = IF saved THEN [lost EXCEPT !.proxys = o] ELSE lost
      BY DEF saveProxys, ProxysOverwritten, TypeOK, Acks
    <2> HIDE DEF o
    <2>2. lost' \in Acks /\ lost'.apps = lost.apps /\ IF saved THEN lost'.proxys = o ELSE lost' = lost
      BY <2>1 DEF Acks
    <2>3. QED
      BY <2>2 DEF o
  <1>1. TypeOK'
    BY <1>s, <1>o DEF TypeOK, Store, Acks, engine
  <1>2. EngineOwned' /\ HeldInv'
    BY <1>s DEF EngineOwned, HeldInv, engine
  <1>4. AckedKept'
    <2>1. handles' = handles /\ unloaded' = unloaded /\ am' = am
      BY DEF engine
    <2>2. ASSUME NEW g \in ack'.proxys, g \notin lost'.proxys
          PROVE  /\ Contains(store'.proxys, g)
                 /\ "proxys" \in handles \ unloaded => Contains(l, g)
      <3>0. g \in Gateways
        BY DEF Acks
      <3>1. CASE saved
        <4>1. Contains(l, g)
          BY <3>0, <3>1, <2>2, <1>o, <1>s DEF ProxysOverwritten, AckedKept
        <4>2. QED
          BY <4>1, <3>1, <1>s
      <3>2. CASE ~saved
        BY <3>2, <2>2, <1>o, <1>s DEF AckedKept
      <3>3. QED
        BY <3>1, <3>2
    <2>3. QED
      BY <2>1, <2>2, <1>o, <1>s DEF AckedKept
  <1>5. PortsInv' /\ ListenersAgree'
    BY DEF PortsInv, ListenersAgree, engine
  <1>6. QED
    BY <1>1, <1>2, <1>4, <1>5

LEMMA addProxyGatewayKeeps ==
    ASSUME Inv, NEW g \in Gateways, addProxyGateway(g)
    PROVE  Inv'
  <1>1. proxys \in GatewayList /\ Len(proxys) < MaxProxys
    BY DEF addProxyGateway, Inv, TypeOK
  <1>2. PICK saved \in BOOLEAN :
          /\ saveProxys(Append(proxys, g), saved)
          /\ ack' = IF saved THEN [ack EXCEPT !.proxys = @ \cup {g}] ELSE ack
    BY DEF addProxyGateway, addProxy
  <1>3. PICK l \in GatewayList : /\ l = Append(proxys, g) /\ Contains(l, g)
                                 /\ \A h : Contains(proxys, h) => Contains(l, h)
    BY <1>1, AppendList, Zenon
  <1>4. /\ ack' \in Acks /\ ack'.apps = ack.apps
        /\ \A h \in ack'.proxys : h \in ack.proxys \/ (saved /\ h = g)
    BY <1>2 DEF Inv, TypeOK, Acks
  <1>5. saveProxys(l, saved)
    BY <1>2, <1>3
  <1>6. \A h \in ack'.proxys : \/ h \in ack.proxys /\ (Contains(proxys, h) => Contains(l, h))
                               \/ saved /\ Contains(l, h)
    BY <1>3, <1>4
  <1>7. UNCHANGED <<engine, listeners, am, dialer, unloaded, left, calm>>
    BY DEF addProxyGateway
  <1>8. QED
    BY <1>4, <1>5, <1>6, <1>7, ProxyKeeps

LEMMA delProxyGatewayKeeps ==
    ASSUME Inv, NEW index \in 1 .. MaxProxys, delProxyGateway(index)
    PROVE  Inv'
  <1>1. proxys \in GatewayList /\ index <= Len(proxys)
    BY DEF delProxyGateway, getProxyByIndex, Inv, TypeOK
  <1>2. index \in 1 .. Len(proxys)
    BY <1>1, ListIsSeq, BoundsAssumption
  <1>3. PICK saved \in BOOLEAN : saveProxys(RemoveAt(proxys, index), saved)
    BY DEF delProxyGateway, delProxyByIndex
  <1>4. PICK l \in GatewayList :
          /\ l = RemoveAt(proxys, index)
          /\ \A h : Contains(proxys, h) /\ h # proxys[index] => Contains(l, h)
    BY <1>1, <1>2, RemoveList, Zenon
  <1>5. /\ ack' \in Acks /\ ack'.apps = ack.apps
        /\ \A h \in ack'.proxys : h \in ack.proxys /\ h # proxys[index]
    BY DEF delProxyGateway, Inv, TypeOK, Acks
  <1>6. saveProxys(l, saved)
    BY <1>3, <1>4
  <1>7. \A h \in ack'.proxys : \/ h \in ack.proxys /\ (Contains(proxys, h) => Contains(l, h))
                               \/ saved /\ Contains(l, h)
    BY <1>4, <1>5
  <1>8. UNCHANGED <<engine, listeners, am, dialer, unloaded, left, calm>>
    BY DEF delProxyGateway
  <1>9. QED
    BY <1>5, <1>6, <1>7, <1>8, ProxyKeeps

\* The TUN stack is told which gateway to dial, and nothing else changes.
LEMMA DialerKeeps ==
    ASSUME Inv, dialer' \in Gateways \cup {Nil},
           UNCHANGED <<engine, listeners, am, proxys, store, history, left, calm>>
    PROVE  Inv'
  <1> USE DEF Inv, engine, history
  <1>1. TypeOK'
    BY DEF TypeOK
  <1>2. EngineOwned' /\ HeldInv'
    BY DEF EngineOwned, HeldInv
  <1>3. AckedKept' /\ PortsInv' /\ ListenersAgree'
    BY DEF AckedKept, PortsInv, ListenersAgree
  <1>4. QED
    BY <1>1, <1>2, <1>3

LEMMA startTunProxyKeeps ==
    ASSUME Inv, NEW index \in 1 .. MaxProxys, startTunProxy(index)
    PROVE  Inv'
  <1>1. proxys \in GatewayList /\ index <= Len(proxys)
    BY DEF startTunProxy, getProxyByIndex, Inv, TypeOK
  <1>2. index \in 1 .. Len(proxys)
    BY <1>1, ListIsSeq, BoundsAssumption
  <1>3. proxys[index] \in Gateways
    BY <1>1, <1>2, RemoveList, Zenon
  <1>4. QED
    BY <1>3, DialerKeeps DEF startTunProxy

-----------------------------------------------------------------------------
LEMMA StepInv == Inv /\ [Next]_vars => Inv'
  <1> SUFFICES ASSUME Inv, [Next]_vars PROVE Inv'
    OBVIOUS
  <1>1. CASE StartFails \/ close \/ Exit
    BY <1>1, StartFailsKeeps, closeKeeps, ExitKeeps
  <1>2. CASE stopTunProxy
    BY <1>2, DialerKeeps DEF stopTunProxy
  <1>3. ASSUME NEW withPortmap \in BOOLEAN, NEW appsOk \in BOOLEAN, NEW proxysOk \in BOOLEAN,
               start(withPortmap, appsOk, proxysOk)
        PROVE  Inv'
    BY <1>3, startKeeps
  <1>4. ASSUME NEW i \in IDs, delApp(i) \/ \E a \in App : addApp(i, a) \/ updateAPP(i, a)
        PROVE  Inv'
    BY <1>4, delAppKeeps, addAppKeeps, updateAPPKeeps
  <1>5. ASSUME NEW g \in Gateways, addProxyGateway(g) PROVE Inv'
    BY <1>5, addProxyGatewayKeeps
  <1>6. ASSUME NEW index \in 1 .. MaxProxys, delProxyGateway(index) \/ startTunProxy(index)
        PROVE  Inv'
    BY <1>6, delProxyGatewayKeeps, startTunProxyKeeps
  <1>7. CASE UNCHANGED vars
    <2>1. dialer' \in Gateways \cup {Nil}
      BY <1>7 DEF vars, Inv, TypeOK
    <2>2. QED
      BY <1>7, <2>1, DialerKeeps DEF vars, engine, history
  <1>8. QED
    BY <1>1, <1>2, <1>3, <1>4, <1>5, <1>6, <1>7 DEF Next

\* The inductive invariant holds of the agent.
THEOREM Invariant == Spec => []Inv
  BY InitInv, StepInv, PTL DEF Spec

\* The variables of Agent keep their types.
THEOREM Typed == Spec => []TypeOK
  <1>1. Inv => TypeOK
    BY DEF Inv
  <1>2. QED
    BY <1>1, Invariant, PTL

\* However starts fail and are retried, an engine that is alive is the one the
\* agent can close, and its database is open (start, close).
THEOREM EngineKept == Spec => []EngineOwned
  <1>1. Inv => EngineOwned
    BY DEF Inv
  <1>2. QED
    BY <1>1, Invariant, PTL

\* While applications have ports of their own, those that run have their
\* listeners, and only updateAPP leaves one behind (startPortmap, addApp,
\* updateAPP, delApp).
THEOREM ListenersFollow == Spec => []ListenersAgree
  <1>1. Inv => ListenersAgree
    BY DEF Inv
  <1>2. QED
    BY <1>1, Invariant, PTL

\* Additions that were acknowledged stay in the database, and in a manager that
\* could load it, over failed saves, closes, starts and ends of the process; only
\* the saves of a manager whose load failed remove them (saveProxys, savePortmap).
THEOREM AcknowledgedKept == Spec => []AckedKept
  <1>1. Inv => AckedKept
    BY DEF Inv
  <1>2. QED
    BY <1>1, Invariant, PTL
=============================================================================
