-------------------------- MODULE ProxyRouterProofs --------------------------
(***************************************************************************)
(* Proofs about ProxyRouter, for any addresses, networks and dialers and   *)
(* any number of concurrent writers and readers: as long as no route is    *)
(* added or removed between the unlocked Get and Put of another addRoute,  *)
(* the ranges in the tree stay apart, a walk never leaves the subtree that *)
(* holds its target, and the router implements RouteTable.                 *)
(***************************************************************************)
EXTENDS ProxyRouter, TLAPS

-----------------------------------------------------------------------------
(* The inductive invariant.                                                 *)

\* Ranges are not empty: those in the tree and those being added.
Nonempty ==
    /\ \A r \in data : r.min <= r.max
    /\ \A c \in Writers : pc[c] # "idle" => req[c] \in Route /\ req[c].min <= req[c].max
    /\ \A c \in Readers : pc[c] = "get" => addr[c] \in Addr

\* Writers add, readers get, and while a writer walks no other writer walks and
\* no reader gets.
Control ==
    /\ \A c \in Writers : pc[c] # "get"
    /\ \A c \in Readers : pc[c] \in {"idle", "get"}
    /\ \A c, d \in Writers : pc[c] = "walk" /\ pc[d] = "walk" => c = d
    /\ \A c \in Writers, d \in Readers : ~(pc[c] = "walk" /\ pc[d] = "get")

\* The range addRoute has found is still there when it replaces the dialer.
StillThere ==
    ~torn => \A c \in Writers : pc[c] = "put" =>
        \E s \in data : s.min = req[c].min /\ s.max = req[c].max

Inv == TypeOK /\ Nonempty /\ Control /\ StillThere /\ Disjoint /\ WalkKeepsTarget

\* The range of an item that addRoute makes of a network is not empty.
LEMMA ItemType ==
    ASSUME NEW n \in Nets, NEW d \in Dialers
    PROVE  Item(n, d) \in Route /\ Item(n, d).min <= Item(n, d).max
BY NetsAssumption DEF Item, Route

\* What is right of a node that ends below the target, or left of one that
\* begins above it, keeps every range that meets the target: for an add.
LEMMA AddDescends ==
    ASSUME NEW r \in Route, NEW cur \in Route, NEW q \in Route,
           r.min <= r.max, cur.min <= cur.max, q.min <= q.max,
           r # cur => Apart(r, cur), ~Apart(r, q)
    PROVE  /\ q.min > cur.max => r.min > cur.min
           /\ q.max < cur.min => r.min < cur.min
<1>1. /\ r.min \in Nat /\ r.max \in Nat /\ cur.min \in Nat /\ cur.max \in Nat
      /\ q.min \in Nat /\ q.max \in Nat
  BY AddrAssumption DEF Route
<1>2. CASE r = cur
  BY <1>1, <1>2 DEF Apart
<1>3. CASE Apart(r, cur)
  BY <1>1, <1>3 DEF Apart
<1> QED  BY <1>2, <1>3

\* The same for a get.
LEMMA GetDescends ==
    ASSUME NEW r \in Route, NEW cur \in Route, NEW a \in Addr,
           r.min <= r.max, cur.min <= cur.max,
           r # cur => Apart(r, cur), Covers(r, a), ~Covers(cur, a)
    PROVE  IF a < cur.min THEN r.min < cur.min ELSE r.min > cur.min
<1>1. /\ r.min \in Nat /\ r.max \in Nat /\ cur.min \in Nat /\ cur.max \in Nat
      /\ a \in Nat
  BY AddrAssumption DEF Route
<1>2. Apart(r, cur)
  OBVIOUS
<1> QED  BY <1>1, <1>2 DEF Apart, Covers

\* Two ranges that do not meet have different keys.
LEMMA ApartKeys ==
    ASSUME NEW r \in Route, NEW s \in Route, r.min <= r.max, s.min <= s.max, Apart(r, s)
    PROVE  r.min # s.min
<1>1. r.min \in Nat /\ r.max \in Nat /\ s.min \in Nat /\ s.max \in Nat
  BY AddrAssumption DEF Route
<1> QED  BY <1>1 DEF Apart

\* Intersection does not depend on which range is named first, nor on the
\* dialers.
LEMMA ApartSymmetric ==
    ASSUME NEW r \in Route, NEW s \in Route, NEW t \in Route,
           r.min = t.min, r.max = t.max, Apart(r, s)
    PROVE  Apart(t, s) /\ Apart(s, t)
BY AddrAssumption DEF Apart, Route

\* The table is empty at first and everybody is idle.
LEMMA Initially == Init => Inv
BY CallersAssumption
   DEF Init, Inv, TypeOK, Nonempty, Control, StillThere, Disjoint, WalkKeepsTarget, Callers

-----------------------------------------------------------------------------
(* Writers.                                                                 *)

\* The first part of addRoute changes its own request and nothing else.
LEMMA BeginAddInv ==
    ASSUME Inv, NEW c \in Writers, NEW n \in Nets, NEW d \in Dialers,
           AddMiss(c, n, d) \/ AddFound(c, n, d)
    PROVE  Inv'
<1>0. /\ pc[c] = "idle"
      /\ data' = data /\ addr' = addr /\ sub' = sub /\ answer' = answer /\ torn' = torn
      /\ req' = [req EXCEPT ![c] = Item(n, d)]
      /\ pc' = [pc EXCEPT ![c] = "lock"] \/ pc' = [pc EXCEPT ![c] = "put"]
      /\ pc'[c] = "put" => \E s \in data : s.min = n.min /\ s.max = n.max
  BY DEF AddMiss, AddFound, Inv, TypeOK, Callers
<1>1. TypeOK'
  BY <1>0, ItemType DEF Inv, TypeOK, Callers
<1>2. /\ \A b \in Writers : b # c => pc'[b] = pc[b] /\ req'[b] = req[b]
      /\ \A b \in Readers : b # c /\ pc'[b] = pc[b]
      /\ req'[c] = Item(n, d)
      /\ pc'[c] \in {"lock", "put"}
  BY <1>0, CallersAssumption DEF Inv, TypeOK, Callers
<1>3. Nonempty'
  BY <1>0, <1>2, ItemType DEF Inv, Nonempty
<1>4. Control' /\ Disjoint'
  BY <1>0, <1>2 DEF Inv, Control, Disjoint
<1>5. StillThere'
  BY <1>0, <1>2 DEF Inv, StillThere, Item
<1>6. WalkKeepsTarget'
  BY <1>0, <1>2 DEF Inv, WalkKeepsTarget
<1> QED  BY <1>1, <1>3, <1>4, <1>5, <1>6 DEF Inv

\* Replacing the dialer keeps the range where it is.
LEMMA ReplaceInv ==
    ASSUME Inv, NEW c \in Writers, ReplaceDialer(c)
    PROVE  Inv'
<1>0. /\ pc[c] = "put"
      /\ data' = Put(req[c])
      /\ addr' = addr /\ sub' = sub /\ answer' = answer /\ torn' = torn
      /\ pc' = [pc EXCEPT ![c] = "idle"]
      /\ req' = [req EXCEPT ![c] = NoDialer]
  BY DEF ReplaceDialer, Return
<1>T. req[c] \in Route /\ data \subseteq Route /\ req[c].min <= req[c].max
  BY <1>0 DEF Inv, TypeOK, Nonempty
<1>2. TypeOK'
  BY <1>0, <1>T DEF Inv, TypeOK, Put, Callers
<1>3. /\ \A b \in Writers : b # c => pc'[b] = pc[b] /\ req'[b] = req[b]
      /\ \A b \in Readers : b # c /\ pc'[b] = pc[b]
      /\ pc'[c] = "idle"
  BY <1>0, CallersAssumption DEF Inv, TypeOK, Callers
<1>4. Nonempty'
  BY <1>0, <1>3, <1>T DEF Inv, Nonempty, Put
<1>5. Control'
  BY <1>3 DEF Inv, Control
<1>U. SUFFICES ASSUME ~torn PROVE StillThere' /\ Disjoint' /\ WalkKeepsTarget'
  BY <1>0, <1>2, <1>4, <1>5 DEF Inv, StillThere, Disjoint, WalkKeepsTarget
<1>1. PICK s \in data : s.min = req[c].min /\ s.max = req[c].max
  BY <1>0, <1>U DEF Inv, StillThere
\* Every range in the tree is still there, with one or the other dialer.
<1>R. \A r \in data : \E t \in data' : t.min = r.min /\ t.max = r.max
  <2> SUFFICES ASSUME NEW r \in data PROVE \E t \in Put(req[c]) : t.min = r.min /\ t.max = r.max
    BY <1>0
  <2>1. CASE r.min # req[c].min
    BY <2>1 DEF Put
  <2>2. CASE r.min = req[c].min
    <3>1. r \in Route /\ s \in Route /\ r.min <= r.max /\ s.min <= s.max
      BY <1>T DEF Inv, Nonempty
    <3>2. r = s
      BY <3>1, <2>2, <1>1, <1>U, ApartKeys DEF Inv, Disjoint
    <3> QED  BY <3>2, <1>1 DEF Put
  <2> QED  BY <2>1, <2>2
<1>S. StillThere'
  <2> SUFFICES ASSUME NEW b \in Writers, pc'[b] = "put"
               PROVE  \E t \in data' : t.min = req'[b].min /\ t.max = req'[b].max
    BY DEF StillThere
  <2>1. b # c /\ pc[b] = "put" /\ req'[b] = req[b]
    BY <1>3
  <2>2. PICK r \in data : r.min = req[b].min /\ r.max = req[b].max
    BY <2>1, <1>U DEF Inv, StillThere
  <2> QED  BY <2>1, <2>2, <1>R
<1>6. Disjoint'
  <2> SUFFICES ASSUME NEW r \in Put(req[c]), NEW t \in Put(req[c]), r # t
               PROVE  Apart(r, t)
    BY <1>0 DEF Disjoint
  <2>1. CASE r \in data /\ t \in data
    BY <2>1, <1>U DEF Inv, Disjoint
  <2>2. CASE r = req[c]
    <3>1. t \in data /\ t.min # req[c].min
      BY <2>2 DEF Put
    <3>2. Apart(s, t)
      BY <3>1, <1>1, <1>U DEF Inv, Disjoint
    <3> QED  BY <2>2, <3>1, <3>2, <1>1, <1>T, ApartSymmetric
  <2>3. CASE t = req[c]
    <3>1. r \in data /\ r.min # req[c].min
      BY <2>3 DEF Put
    <3>2. Apart(s, r)
      BY <3>1, <1>1, <1>U DEF Inv, Disjoint
    <3> QED  BY <2>3, <3>1, <3>2, <1>1, <1>T, ApartSymmetric
  <2> QED  BY <2>1, <2>2, <2>3 DEF Put
\* A range of the new tree is one of the old tree but for its dialer.
<1>O. \A r \in data' : \E t \in data : t.min = r.min /\ t.max = r.max
  BY <1>0, <1>1 DEF Put
<1>7. WalkKeepsTarget'
  <2>1. ASSUME NEW b \in Writers, pc'[b] = "walk", NEW r \in data', ~Apart(r, req'[b])
        PROVE  r.min \in sub'[b]
    <3>1. b # c /\ pc[b] = "walk" /\ req'[b] = req[b]
      BY <2>1, <1>3
    <3>2. PICK t \in data : t.min = r.min /\ t.max = r.max
      BY <1>O, <2>1
    <3>3. ~Apart(t, req[b])
      BY <3>1, <3>2, <2>1 DEF Apart
    <3> QED  BY <3>1, <3>2, <3>3, <1>0, <1>U DEF Inv, WalkKeepsTarget
  <2>2. ASSUME NEW b \in Readers, pc'[b] = "get", NEW r \in data', Covers(r, addr'[b])
        PROVE  r.min \in sub'[b]
    <3>1. pc[b] = "get" /\ addr'[b] = addr[b] /\ sub'[b] = sub[b]
      BY <2>2, <1>0, <1>3
    <3>2. PICK t \in data : t.min = r.min /\ t.max = r.max
      BY <1>O, <2>2
    <3> QED  BY <3>1, <3>2, <2>2, <1>U DEF Inv, WalkKeepsTarget, Covers
  <2> QED  BY <2>1, <2>2 DEF WalkKeepsTarget
<1> QED  BY <1>S, <1>6, <1>7

\* The mutex is free, so no reader is in the tree; the walk is at the root.
LEMMA LockInv ==
    ASSUME Inv, NEW c \in Writers, Lock(c)
    PROVE  Inv'
<1>0. /\ pc[c] = "lock" /\ Unlocked
      /\ data' = data /\ req' = req /\ addr' = addr /\ answer' = answer /\ torn' = torn
      /\ pc' = [pc EXCEPT ![c] = "walk"]
      /\ sub' = [sub EXCEPT ![c] = {s.min : s \in data}]
  BY DEF Lock
<1>1. TypeOK'
  <2>1. {s.min : s \in data} \subseteq Addr
    BY DEF Inv, TypeOK, Route
  <2> QED  BY <1>0, <2>1 DEF Inv, TypeOK, Callers
<1>2. /\ \A b \in Writers : b # c => pc'[b] = pc[b] /\ pc[b] # "walk"
      /\ \A b \in Readers : b # c /\ pc'[b] = pc[b] /\ sub'[b] = sub[b] /\ pc[b] # "get"
      /\ pc'[c] = "walk"
      /\ sub'[c] = {s.min : s \in data}
  BY <1>0, CallersAssumption DEF Inv, TypeOK, Callers, Unlocked
<1>3. Nonempty' /\ Control' /\ StillThere' /\ Disjoint'
  BY <1>0, <1>2 DEF Inv, Nonempty, Control, StillThere, Disjoint
<1>4. WalkKeepsTarget'
  BY <1>0, <1>2 DEF WalkKeepsTarget
<1> QED  BY <1>1, <1>3, <1>4 DEF Inv

\* Going down the tree keeps every range that intersects the new one.
LEMMA WalkInv ==
    ASSUME Inv, NEW c \in Writers, Walk(c)
    PROVE  Inv'
<1>0. /\ pc[c] = "walk" /\ torn' = torn
      /\ data' = data /\ pc' = pc /\ req' = req /\ addr' = addr /\ answer' = answer
  BY DEF Walk
<1>1. PICK cur \in data :
          \/ /\ req[c].min > cur.max
             /\ sub' = [sub EXCEPT ![c] = {m \in @ : m > cur.min}]
          \/ /\ req[c].max < cur.min
             /\ sub' = [sub EXCEPT ![c] = {m \in @ : m < cur.min}]
  BY DEF Walk
<1>2. TypeOK'
  BY <1>0, <1>1 DEF Inv, TypeOK, Callers
<1>3. /\ \A b \in Writers : b # c => sub'[b] = sub[b]
      /\ \A b \in Readers : b # c /\ sub'[b] = sub[b]
  BY <1>1, CallersAssumption DEF Inv, TypeOK, Callers
<1>4. Nonempty' /\ Control' /\ StillThere' /\ Disjoint'
  BY <1>0 DEF Inv, Nonempty, Control, StillThere, Disjoint
<1>5. ASSUME ~torn, NEW r \in data, ~Apart(r, req[c])
      PROVE  r.min \in sub'[c]
  <2>1. r.min \in sub[c]
    BY <1>0, <1>5 DEF Inv, WalkKeepsTarget
  <2>2. /\ req[c].min > cur.max => r.min > cur.min
        /\ req[c].max < cur.min => r.min < cur.min
    <3>1. /\ r \in Route /\ cur \in Route /\ req[c] \in Route
          /\ r.min <= r.max /\ cur.min <= cur.max /\ req[c].min <= req[c].max
          /\ r # cur => Apart(r, cur)
      BY <1>0, <1>5 DEF Inv, TypeOK, Nonempty, Disjoint
    <3> QED  BY <3>1, <1>5, AddDescends
  <2> QED  BY <1>1, <2>1, <2>2 DEF Inv, TypeOK, Callers
<1>6. WalkKeepsTarget'
  BY <1>0, <1>3, <1>5 DEF Inv, WalkKeepsTarget
<1> QED  BY <1>2, <1>4, <1>6 DEF Inv

\* The new range is refused.
LEMMA AddIntersectsInv ==
    ASSUME Inv, NEW c \in Writers, AddIntersects(c)
    PROVE  Inv'
<1>0. /\ data' = data /\ addr' = addr /\ answer' = answer /\ torn' = torn
      /\ pc' = [pc EXCEPT ![c] = "idle"]
      /\ req' = [req EXCEPT ![c] = NoDialer]
      /\ sub' = [sub EXCEPT ![c] = {}]
  BY DEF AddIntersects, Return
<1>1. TypeOK'
  BY <1>0 DEF Inv, TypeOK, Callers
<1>2. /\ \A b \in Writers : b # c => pc'[b] = pc[b] /\ sub'[b] = sub[b] /\ req'[b] = req[b]
      /\ \A b \in Readers : b # c /\ pc'[b] = pc[b] /\ sub'[b] = sub[b]
      /\ pc'[c] = "idle"
  BY <1>0, CallersAssumption DEF Inv, TypeOK, Callers
<1>3. Nonempty' /\ Control' /\ StillThere' /\ Disjoint' /\ WalkKeepsTarget'
  BY <1>0, <1>2 DEF Inv, Nonempty, Control, StillThere, Disjoint, WalkKeepsTarget
<1> QED  BY <1>1, <1>3 DEF Inv

\* When add runs out of nodes its range is apart from all the others, and its
\* key is new.
LEMMA EndIsApart ==
    ASSUME Inv, ~torn, NEW c \in Writers, AddEnd(c)
    PROVE  /\ \A s \in data : Apart(req[c], s)
           /\ data' = data \cup {req[c]}
<1>1. \A s \in data : Apart(s, req[c])
  BY DEF Inv, WalkKeepsTarget, AddEnd
<1>2. \A s \in data : Apart(req[c], s)
  BY <1>1 DEF Apart
<1>3. \A s \in data : s.min # req[c].min
  BY <1>1, ApartKeys DEF Inv, TypeOK, Nonempty, AddEnd
<1> QED  BY <1>2, <1>3 DEF AddEnd, Put

\* So the tree it leaves has no overlap.
LEMMA AddEndInv ==
    ASSUME Inv, NEW c \in Writers, AddEnd(c)
    PROVE  Inv'
<1>0. /\ pc[c] = "walk"
      /\ addr' = addr /\ sub' = sub /\ answer' = answer
      /\ pc' = [pc EXCEPT ![c] = "idle"]
      /\ req' = [req EXCEPT ![c] = NoDialer]
      /\ data' = Put(req[c])
      /\ torn' = (torn \/ BetweenGetAndPut(c))
  BY DEF AddEnd, Return
<1>T. req[c] \in Route /\ data \subseteq Route /\ req[c].min <= req[c].max
  BY <1>0 DEF Inv, TypeOK, Nonempty
<1>1. TypeOK'
  BY <1>0, <1>T DEF Inv, TypeOK, Callers, Put, BetweenGetAndPut
<1>2. /\ \A b \in Writers : b # c => pc'[b] = pc[b] /\ req'[b] = req[b] /\ pc[b] # "walk"
      /\ \A b \in Readers : b # c /\ pc'[b] = pc[b] /\ pc[b] # "get"
      /\ pc'[c] = "idle"
  BY <1>0, CallersAssumption DEF Inv, TypeOK, Callers, Control
<1>3. Nonempty'
  BY <1>0, <1>T, <1>2 DEF Inv, Nonempty, Put
<1>4. Control' /\ WalkKeepsTarget'
  BY <1>2 DEF Inv, Control, WalkKeepsTarget
<1>U. SUFFICES ASSUME ~torn, \A b \in Writers : b # c => pc[b] # "put"
               PROVE  StillThere' /\ Disjoint'
  BY <1>0, <1>1, <1>3, <1>4 DEF Inv, StillThere, Disjoint, BetweenGetAndPut
<1>D. /\ \A s \in data : Apart(req[c], s)
      /\ data' = data \cup {req[c]}
  BY <1>U, EndIsApart
<1>5. Disjoint'
  <2> SUFFICES ASSUME NEW r \in data', NEW s \in data', r # s
               PROVE  Apart(r, s)
    BY DEF Disjoint
  <2>1. CASE r \in data /\ s \in data
    BY <2>1, <1>U DEF Inv, Disjoint
  <2>2. CASE r = req[c] /\ s \in data
    BY <2>2, <1>D
  <2>3. CASE s = req[c] /\ r \in data
    BY <2>3, <1>D, <1>T, ApartSymmetric
  <2> QED  BY <2>1, <2>2, <2>3, <1>D
<1>6. StillThere'
  BY <1>2, <1>U DEF StillThere
<1> QED  BY <1>5, <1>6

\* A range leaves; nobody is in the tree.
LEMMA DelInv ==
    ASSUME Inv, NEW c \in Writers, NEW n \in Nets, delRoute(c, n)
    PROVE  Inv'
<1>0. /\ pc[c] = "idle" /\ Unlocked
      /\ data' \subseteq data
      /\ pc' = pc /\ req' = req /\ addr' = addr /\ sub' = sub /\ answer' = answer
      /\ torn' = (torn \/ (data' # data /\ BetweenGetAndPut(c)))
  BY DEF delRoute
<1>1. TypeOK'
  BY <1>0 DEF Inv, TypeOK, BetweenGetAndPut
<1>2. /\ \A b \in Writers : pc[b] # "walk"
      /\ \A b \in Readers : pc[b] # "get"
  BY <1>0 DEF Unlocked, Callers
<1>3. Nonempty' /\ Control' /\ Disjoint' /\ WalkKeepsTarget'
  BY <1>0, <1>2 DEF Inv, Nonempty, Control, Disjoint, WalkKeepsTarget
<1>4. StillThere'
  BY <1>0 DEF Inv, StillThere, BetweenGetAndPut
<1> QED  BY <1>1, <1>3, <1>4 DEF Inv

-----------------------------------------------------------------------------
(* Readers.                                                                 *)

\* A get begins at the root, while no writer holds the mutex.
LEMMA GetInv ==
    ASSUME Inv, NEW c \in Readers, NEW a \in Addr, get(c, a)
    PROVE  Inv'
<1>0. /\ pc[c] = "idle" /\ NotWriteLocked
      /\ data' = data /\ req' = req /\ answer' = answer /\ torn' = torn
      /\ pc' = [pc EXCEPT ![c] = "get"]
      /\ addr' = [addr EXCEPT ![c] = a]
      /\ sub' = [sub EXCEPT ![c] = {s.min : s \in data}]
  BY DEF get
<1>1. TypeOK'
  <2>1. {s.min : s \in data} \subseteq Addr
    BY DEF Inv, TypeOK, Route
  <2> QED  BY <1>0, <2>1 DEF Inv, TypeOK, Callers
<1>2. /\ \A b \in Writers : b # c /\ pc'[b] = pc[b] /\ pc[b] # "walk"
      /\ \A b \in Readers : b # c => pc'[b] = pc[b] /\ sub'[b] = sub[b] /\ addr'[b] = addr[b]
      /\ pc'[c] = "get" /\ addr'[c] = a
      /\ sub'[c] = {s.min : s \in data}
  BY <1>0, CallersAssumption DEF Inv, TypeOK, Callers, NotWriteLocked
<1>3. Nonempty' /\ Control' /\ StillThere' /\ Disjoint'
  BY <1>0, <1>2 DEF Inv, Nonempty, Control, StillThere, Disjoint
<1>4. WalkKeepsTarget'
  <2>1. \A r \in data : r.min \in sub'[c]
    BY <1>2
  <2> QED  BY <1>0, <1>2, <2>1 DEF Inv, WalkKeepsTarget
<1> QED  BY <1>1, <1>3, <1>4 DEF Inv

\* Going down the tree keeps the range that covers the address.
LEMMA GetWalkInv ==
    ASSUME Inv, NEW c \in Readers, GetWalk(c)
    PROVE  Inv'
<1>0. /\ pc[c] = "get" /\ torn' = torn
      /\ data' = data /\ pc' = pc /\ req' = req /\ addr' = addr /\ answer' = answer
  BY DEF GetWalk
<1>1. PICK cur \in data :
          /\ ~Covers(cur, addr[c])
          /\ sub' = [sub EXCEPT ![c] = {m \in @ : IF addr[c] < cur.min THEN m < cur.min
                                                                      ELSE m > cur.min}]
  BY DEF GetWalk, Covers
<1>2. TypeOK'
  BY <1>0, <1>1 DEF Inv, TypeOK, Callers
<1>3. /\ \A b \in Writers : b # c /\ sub'[b] = sub[b]
      /\ \A b \in Readers : b # c => sub'[b] = sub[b]
      /\ sub'[c] = {m \in sub[c] : IF addr[c] < cur.min THEN m < cur.min ELSE m > cur.min}
  BY <1>1, CallersAssumption DEF Inv, TypeOK, Callers
<1>4. Nonempty' /\ Control' /\ StillThere' /\ Disjoint'
  BY <1>0 DEF Inv, Nonempty, Control, StillThere, Disjoint
<1>5. ASSUME ~torn, NEW r \in data, Covers(r, addr[c])
      PROVE  r.min \in sub'[c]
  <2>1. r.min \in sub[c]
    BY <1>0, <1>5 DEF Inv, WalkKeepsTarget
  <2>2. IF addr[c] < cur.min THEN r.min < cur.min ELSE r.min > cur.min
    <3>1. /\ r \in Route /\ cur \in Route /\ addr[c] \in Addr
          /\ r.min <= r.max /\ cur.min <= cur.max
          /\ r # cur => Apart(r, cur)
      BY <1>0, <1>5 DEF Inv, TypeOK, Nonempty, Disjoint
    <3> QED  BY <3>1, <1>1, <1>5, GetDescends
  <2> QED  BY <1>3, <2>1, <2>2
<1>6. WalkKeepsTarget'
  BY <1>0, <1>3, <1>5 DEF Inv, WalkKeepsTarget
<1> QED  BY <1>2, <1>4, <1>6 DEF Inv

\* A get returns.
LEMMA GetEndInv ==
    ASSUME Inv, NEW c \in Readers, GetHit(c) \/ GetNone(c)
    PROVE  Inv'
<1>0. /\ data' = data /\ req' = req /\ torn' = torn
      /\ pc' = [pc EXCEPT ![c] = "idle"]
      /\ addr' = [addr EXCEPT ![c] = NoDialer]
      /\ sub' = sub \/ sub' = [sub EXCEPT ![c] = {}]
      /\ \E d \in Dialers \cup {NoDialer} : answer' = [answer EXCEPT ![c] = d]
  BY DEF GetHit, GetNone, Inv, TypeOK, Route
<1>1. TypeOK'
  BY <1>0 DEF Inv, TypeOK, Callers
<1>2. /\ \A b \in Writers : b # c /\ pc'[b] = pc[b] /\ sub'[b] = sub[b]
      /\ \A b \in Readers : b # c => pc'[b] = pc[b] /\ sub'[b] = sub[b] /\ addr'[b] = addr[b]
      /\ pc'[c] = "idle"
  BY <1>0, CallersAssumption DEF Inv, TypeOK, Callers
<1>3. Nonempty' /\ Control' /\ StillThere' /\ Disjoint' /\ WalkKeepsTarget'
  BY <1>0, <1>2 DEF Inv, Nonempty, Control, StillThere, Disjoint, WalkKeepsTarget
<1> QED  BY <1>1, <1>3 DEF Inv

-----------------------------------------------------------------------------
\* Every step preserves the invariant.
LEMMA Inductive == Inv /\ [Next]_vars => Inv'
<1> SUFFICES ASSUME Inv, [Next]_vars PROVE Inv'
  OBVIOUS
<1>1. CASE UNCHANGED vars
  BY <1>1 DEF vars, Inv, TypeOK, Nonempty, Control, StillThere, Disjoint, WalkKeepsTarget
<1>2. ASSUME NEW c \in Writers, WriterStep(c) PROVE Inv'
  BY <1>1, <1>2, BeginAddInv, ReplaceInv, LockInv, WalkInv, AddIntersectsInv, AddEndInv, DelInv
     DEF WriterStep, AddRejected
<1>3. ASSUME NEW c \in Readers, ReaderStep(c) PROVE Inv'
  BY <1>3, GetInv, GetWalkInv, GetEndInv DEF ReaderStep
<1> QED  BY <1>1, <1>2, <1>3 DEF Next

\* The invariant holds of every behaviour of the router.
LEMMA Invariant == Spec => []Inv
BY Initially, Inductive, PTL DEF Spec

\* The router's state has its types, whatever its callers do (addRoute, delRoute,
\* get).
THEOREM Typed == Spec => []TypeOK
<1>1. Inv => TypeOK
  BY DEF Inv
<1> QED  BY <1>1, Invariant, PTL

\* For any number of writers no two ranges in the tree intersect, unless a route
\* was added or removed between the Get and the Put of another addRoute: the walk
\* of add finds every range that does, in any search tree with these keys.
THEOREM RangesApart == Spec => []Disjoint
<1>1. Inv => Disjoint
  BY DEF Inv
<1> QED  BY <1>1, Invariant, PTL

\* No walk, of add or of get, leaves the subtree that holds its target, whatever
\* dialers others replace meanwhile.
THEOREM TargetKept == Spec => []WalkKeepsTarget
<1>1. Inv => WalkKeepsTarget
  BY DEF Inv
<1> QED  BY <1>1, Invariant, PTL

-----------------------------------------------------------------------------
(* Refinement: every step is a step of the route table, or none.            *)

\* A writer's step adds, replaces or removes a route, or is not visible.
LEMMA WriterRefines ==
    ASSUME Inv, ~torn, NEW c \in Writers, WriterStep(c)
    PROVE  [RT!Next]_<<data, answer>>
<1>T. pc[c] # "idle" => req[c] \in Route
  BY DEF Inv, Nonempty
<1>1. ASSUME NEW n \in Nets, NEW d \in Dialers,
             AddMiss(c, n, d) \/ AddFound(c, n, d) \/ AddRejected(c, n, d)
      PROVE  UNCHANGED <<data, answer>>
  BY <1>1 DEF AddMiss, AddFound, AddRejected, vars
<1>2. CASE Lock(c) \/ Walk(c) \/ AddIntersects(c)
  BY <1>2 DEF Lock, Walk, AddIntersects
<1>3. CASE ReplaceDialer(c)
  <2>1. RT!Replace(req[c])
    BY <1>3 DEF ReplaceDialer, Put, Inv, StillThere, RT!Replace
  <2> QED  BY <2>1, <1>3, <1>T DEF ReplaceDialer, RT!Next, RT!Route, Route
<1>4. CASE AddEnd(c)
  <2>1. RT!Add(req[c])
    BY <1>4, EndIsApart DEF AddEnd, RT!Add, RT!Apart, Apart
  <2> QED  BY <2>1, <1>4, <1>T DEF AddEnd, RT!Next, RT!Route, Route
<1>5. ASSUME NEW n \in Nets, delRoute(c, n)
      PROVE  RT!Next
  <2>1. RT!Remove(n.min) /\ n.min \in Addr
    BY <1>5, NetsAssumption DEF delRoute, RT!Remove
  <2> QED  BY <2>1 DEF RT!Next
<1> QED  BY <1>1, <1>2, <1>3, <1>4, <1>5 DEF WriterStep

\* A reader's step is a lookup, or is not visible.
LEMMA ReaderRefines ==
    ASSUME Inv, ~torn, NEW c \in Readers, ReaderStep(c)
    PROVE  [RT!Next]_<<data, answer>>
<1>T. (pc[c] = "get" => addr[c] \in Addr) /\ data \subseteq Route
  BY DEF Inv, TypeOK, Nonempty
<1>1. ASSUME NEW a \in Addr, get(c, a)
      PROVE  UNCHANGED <<data, answer>>
  BY <1>1 DEF get
<1>2. CASE GetWalk(c)
  BY <1>2 DEF GetWalk
<1>3. CASE GetHit(c)
  <2>1. PICK cur \in data :
            /\ Covers(cur, addr[c])
            /\ answer' = [answer EXCEPT ![c] = cur.dialer]
    BY <1>3 DEF GetHit, Covers
  <2>2. cur.dialer \in Dialers
    BY <1>T DEF Route
  <2>3. RT!Lookup(c, addr[c])
    BY <1>3, <2>1, <2>2 DEF GetHit, RT!Lookup, RT!Covers, Covers
  <2> QED  BY <2>3, <1>3, <1>T DEF GetHit, RT!Next
<1>4. CASE GetNone(c)
  <2>1. \A r \in data : ~Covers(r, addr[c])
    BY <1>4 DEF GetNone, Inv, WalkKeepsTarget
  <2>2. RT!Lookup(c, addr[c])
    BY <1>4, <2>1 DEF GetNone, RT!Lookup, RT!Covers, Covers
  <2> QED  BY <2>2, <1>4, <1>T DEF GetNone, RT!Next
<1> QED  BY <1>1, <1>2, <1>3, <1>4 DEF ReaderStep

\* For any number of writers and readers the router implements the route table
\* until a route is added or removed between the Get and the Put of another
\* addRoute: every change and every lookup is as if it took place in one step,
\* although walks, replaced dialers and lookups of several goroutines overlap.
THEOREM Refinement == Spec => ImplementsRouteTable
<1>1. Init => RT!Init
  BY DEF Init, RT!Init
<1>2. Inv /\ [Next]_vars => [torn \/ RT!Next]_<<data, answer>>
  <2> SUFFICES ASSUME Inv, [Next]_vars, ~torn PROVE [RT!Next]_<<data, answer>>
    OBVIOUS
  <2>1. CASE UNCHANGED vars
    BY <2>1 DEF vars
  <2>2. CASE Next
    BY <2>2, WriterRefines, ReaderRefines DEF Next
  <2> QED  BY <2>1, <2>2
<1> QED  BY <1>1, <1>2, Invariant, PTL DEF Spec, ImplementsRouteTable
=============================================================================
