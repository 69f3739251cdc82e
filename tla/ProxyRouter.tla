----------------------------- MODULE ProxyRouter -----------------------------
(***************************************************************************)
(* The routing table of the TUN proxy client, gateway/proxy_router.go: a   *)
(* search tree of address ranges keyed by their first address.  addRoute   *)
(* looks for the key without the mutex, replaces the dialer of a range it  *)
(* has found without it too, and inserts a new range under it after a walk *)
(* down the tree; delRoute removes under it; get walks under its read      *)
(* lock.                                                                   *)
(*                                                                         *)
(* The shape of the AVL tree is not modelled: a walk is at any node of the *)
(* subtree it is in, whose keys are sub, so it takes every path that some  *)
(* search tree with these keys offers.                                     *)
(*                                                                         *)
(* The Get and the Put that addRoute does without the mutex are single     *)
(* steps.  A Get that another writer rotates the tree under may miss the   *)
(* key.  A Put of a key that is in the tree changes the value of its node  *)
(* and not the shape of the tree, so it does no harm to a walk.  When      *)
(* another writer adds or removes a range between the Get and the end of   *)
(* the Put, the key may be gone, and the Put searches a tree that is being *)
(* rotated: from then on (torn) nothing is promised.                       *)
(***************************************************************************)
EXTENDS Naturals

CONSTANTS
    Writers,  \* HTTP handlers and the start-up code: addRoute and delRoute
    Readers,  \* dials of the TUN stack: get
    Addr,     \* the IPv4 addresses
    Nets,     \* the ranges [min, max] getCidrIntRange makes of the networks
    Dialers,  \* the dialers of the outbounds
    NoDialer  \* nil, and the locals of a call that has not begun

ASSUME AddrAssumption == Addr \subseteq Nat
ASSUME NetsAssumption ==
    \A n \in Nets : n.min \in Addr /\ n.max \in Addr /\ n.min <= n.max
ASSUME CallersAssumption == Writers \cap Readers = {}
ASSUME DialersAssumption == NoDialer \notin Dialers

VARIABLES
    data,    \* the items of the tree: key min, and max and dialer of routeItem
    pc,      \* where each caller is; "walk" holds the mutex, "get" its read lock
    req,     \* the item a writer is adding
    addr,    \* the address a reader looks up
    sub,     \* the keys of the subtree a walk has reached
    answer,  \* what the last get of each reader returned
    torn     \* the tree changed shape between the Get and the Put of an addRoute

vars == <<data, pc, req, addr, sub, answer, torn>>

Callers == Writers \cup Readers
Route == [min : Addr, max : Addr, dialer : Dialers]

TypeOK ==
    /\ data \subseteq Route
    /\ pc \in [Callers -> {"idle", "lock", "walk", "put", "get"}]
    /\ req \in [Writers -> Route \cup {NoDialer}]
    /\ addr \in [Readers -> Addr \cup {NoDialer}]
    /\ sub \in [Callers -> SUBSET Addr]
    /\ answer \in [Readers -> Dialers \cup {NoDialer}]
    /\ torn \in BOOLEAN

Init ==
    /\ data = {}
    /\ pc = [c \in Callers |-> "idle"]
    /\ req = [c \in Writers |-> NoDialer]
    /\ addr = [c \in Readers |-> NoDialer]
    /\ sub = [c \in Callers |-> {}]
    /\ answer = [c \in Readers |-> NoDialer]
    /\ torn = FALSE

-----------------------------------------------------------------------------
Item(n, d) == [min |-> n.min, max |-> n.max, dialer |-> d]

\* avltree.Put (external): the key's item is replaced, or a new one enters.
Put(r) == {s \in data : s.min # r.min} \cup {r}

\* sync.RWMutex (external).
Unlocked == \A c \in Callers : pc[c] \notin {"walk", "get"}
NotWriteLocked == \A c \in Callers : pc[c] # "walk"

\* Another addRoute has found its range and not yet replaced its dialer.
BetweenGetAndPut(c) == \E b \in Writers \ {c} : pc[b] = "put"

\* addRoute returns.
Return(c) ==
    /\ pc' = [pc EXCEPT ![c] = "idle"]
    /\ req' = [req EXCEPT ![c] = NoDialer]

\* addRoute, up to where it knows whether the key is in the tree.  The Get is
\* not under the mutex: beside another writer it may miss a key that is there.
AddMiss(c, n, d) ==
    /\ pc[c] = "idle"
    /\ (\A s \in data : s.min # n.min) \/ Writers # {c}
    /\ req' = [req EXCEPT ![c] = Item(n, d)]
    /\ pc' = [pc EXCEPT ![c] = "lock"]
    /\ UNCHANGED <<data, addr, sub, answer, torn>>

\* Faulty variant: a range found with another max is replaced too.
AddFoundAnyMax(c, n, d) ==
    /\ pc[c] = "idle"
    /\ \E s \in data : s.min = n.min
    /\ req' = [req EXCEPT ![c] = Item(n, d)]
    /\ pc' = [pc EXCEPT ![c] = "put"]
    /\ UNCHANGED <<data, addr, sub, answer, torn>>

AddFound(c, n, d) ==
    /\ pc[c] = "idle"
    /\ \E s \in data : s.min = n.min /\ s.max = n.max
    /\ req' = [req EXCEPT ![c] = Item(n, d)]
    /\ pc' = [pc EXCEPT ![c] = "put"]
    /\ UNCHANGED <<data, addr, sub, answer, torn>>

\* Found with another max: false.  Nothing changes.
AddRejected(c, n, d) ==
    /\ pc[c] = "idle"
    /\ \E s \in data : s.min = n.min /\ s.max # n.max
    /\ UNCHANGED vars

\* ... replaces the dialer, still without the mutex.
ReplaceDialer(c) ==
    /\ pc[c] = "put"
    /\ data' = Put(req[c])
    /\ Return(c)
    /\ UNCHANGED <<addr, sub, answer, torn>>

\* add.  Its test key > value.max never holds: see NetsAssumption.
Lock(c) ==
    /\ pc[c] = "lock"
    /\ Unlocked
    /\ pc' = [pc EXCEPT ![c] = "walk"]
    /\ sub' = [sub EXCEPT ![c] = {s.min : s \in data}]
    /\ UNCHANGED <<data, req, addr, answer, torn>>

\* Faulty variant: a range that begins where the node ends counts as apart.
WalkTouching(c) ==
    /\ pc[c] = "walk"
    /\ \E cur \in data :
          /\ cur.min \in sub[c]
          /\ \/ /\ req[c].min >= cur.max
                /\ sub' = [sub EXCEPT ![c] = {m \in @ : m > cur.min}]
             \/ /\ req[c].max < cur.min
                /\ sub' = [sub EXCEPT ![c] = {m \in @ : m < cur.min}]
    /\ UNCHANGED <<data, pc, req, addr, answer, torn>>

\* The node does not intersect: on to its right or left child.
Walk(c) ==
    /\ pc[c] = "walk"
    /\ \E cur \in data :
          /\ cur.min \in sub[c]
          /\ \/ /\ req[c].min > cur.max
                /\ sub' = [sub EXCEPT ![c] = {m \in @ : m > cur.min}]
             \/ /\ req[c].max < cur.min
                /\ sub' = [sub EXCEPT ![c] = {m \in @ : m < cur.min}]
    /\ UNCHANGED <<data, pc, req, addr, answer, torn>>

\* The node intersects: false.
AddIntersects(c) ==
    /\ pc[c] = "walk"
    /\ \E cur \in data :
          cur.min \in sub[c] /\ req[c].min <= cur.max /\ cur.min <= req[c].max
    /\ Return(c)
    /\ sub' = [sub EXCEPT ![c] = {}]
    /\ UNCHANGED <<data, addr, answer, torn>>

\* No node left: put the range in the tree.
AddEnd(c) ==
    /\ pc[c] = "walk"
    /\ sub[c] = {}
    /\ data' = Put(req[c])
    /\ Return(c)
    /\ torn' = (torn \/ BetweenGetAndPut(c))
    /\ UNCHANGED <<addr, sub, answer>>

delRoute(c, n) ==
    /\ pc[c] = "idle"
    /\ Unlocked
    /\ data' = {s \in data : s.min # n.min}
    /\ torn' = (torn \/ (data' # data /\ BetweenGetAndPut(c)))
    /\ UNCHANGED <<pc, req, addr, sub, answer>>

-----------------------------------------------------------------------------
get(c, a) ==
    /\ pc[c] = "idle"
    /\ NotWriteLocked
    /\ pc' = [pc EXCEPT ![c] = "get"]
    /\ addr' = [addr EXCEPT ![c] = a]
    /\ sub' = [sub EXCEPT ![c] = {s.min : s \in data}]
    /\ UNCHANGED <<data, req, answer, torn>>

GetHit(c) ==
    /\ pc[c] = "get"
    /\ \E cur \in data :
          /\ cur.min \in sub[c]
          /\ cur.min <= addr[c] /\ addr[c] <= cur.max
          /\ answer' = [answer EXCEPT ![c] = cur.dialer]
    /\ pc' = [pc EXCEPT ![c] = "idle"]
    /\ addr' = [addr EXCEPT ![c] = NoDialer]
    /\ sub' = [sub EXCEPT ![c] = {}]
    /\ UNCHANGED <<data, req, torn>>

\* Faulty variant: the comparison with the key is the wrong way round.
GetWalkReversed(c) ==
    /\ pc[c] = "get"
    /\ \E cur \in data :
          /\ cur.min \in sub[c]
          /\ ~(cur.min <= addr[c] /\ addr[c] <= cur.max)
          /\ sub' = [sub EXCEPT ![c] = {m \in @ : IF addr[c] < cur.min THEN m > cur.min
                                                                       ELSE m < cur.min}]
    /\ UNCHANGED <<data, pc, req, addr, answer, torn>>

GetWalk(c) ==
    /\ pc[c] = "get"
    /\ \E cur \in data :
          /\ cur.min \in sub[c]
          /\ ~(cur.min <= addr[c] /\ addr[c] <= cur.max)
          /\ sub' = [sub EXCEPT ![c] = {m \in @ : IF addr[c] < cur.min THEN m < cur.min
                                                                       ELSE m > cur.min}]
    /\ UNCHANGED <<data, pc, req, addr, answer, torn>>

GetNone(c) ==
    /\ pc[c] = "get"
    /\ sub[c] = {}
    /\ answer' = [answer EXCEPT ![c] = NoDialer]
    /\ pc' = [pc EXCEPT ![c] = "idle"]
    /\ addr' = [addr EXCEPT ![c] = NoDialer]
    /\ UNCHANGED <<data, req, sub, torn>>

-----------------------------------------------------------------------------
WriterStep(c) ==
    \/ \E n \in Nets, d \in Dialers :
          AddMiss(c, n, d) \/ AddFound(c, n, d) \/ AddRejected(c, n, d)
    \/ ReplaceDialer(c) \/ Lock(c) \/ Walk(c) \/ AddIntersects(c) \/ AddEnd(c)
    \/ \E n \in Nets : delRoute(c, n)

ReaderStep(c) ==
    \/ \E a \in Addr : get(c, a)
    \/ GetHit(c) \/ GetWalk(c) \/ GetNone(c)

Next == (\E c \in Writers : WriterStep(c)) \/ (\E c \in Readers : ReaderStep(c))

Spec == Init /\ [][Next]_vars

-----------------------------------------------------------------------------
Covers(r, a) == r.min <= a /\ a <= r.max
Apart(r, s) == r.max < s.min \/ s.max < r.min

\* However many handlers add and remove routes, no two ranges in the tree
\* intersect, so an address has at most one dialer: what the walk of add is for
\* ("has no interset").  What can break it is the unlocked half of addRoute: a
\* route added or removed between its Get and its Put (torn).
Disjoint == ~torn => \A r, s \in data : r # s => Apart(r, s)

\* A walk never leaves the subtree in which what it looks for would be, while
\* other writers replace dialers under it: add cannot miss a range that
\* intersects, get cannot miss one that covers.
WalkKeepsTarget ==
    ~torn =>
    /\ \A c \in Writers : pc[c] = "walk" =>
          \A r \in data : ~Apart(r, req[c]) => r.min \in sub[c]
    /\ \A c \in Readers : pc[c] = "get" =>
          \A r \in data : Covers(r, addr[c]) => r.min \in sub[c]

RT == INSTANCE RouteTable WITH routes <- data

\* Until a route is added or removed between the Get and the Put of another
\* addRoute, the router implements the route table for any number of callers:
\* addRoute takes effect at its Put, get at the node it returns or when it runs
\* out of nodes.
ImplementsRouteTable == RT!Init /\ [][torn \/ RT!Next]_<<data, answer>>
=============================================================================
