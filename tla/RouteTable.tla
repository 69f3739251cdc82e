----------------------------- MODULE RouteTable ------------------------------
(***************************************************************************)
(* What the proxy router promises its callers: a table of address ranges   *)
(* that never overlap, each with the dialer of its outbound, changed and   *)
(* looked up in single steps.                                              *)
(***************************************************************************)
EXTENDS Naturals

CONSTANTS
    Readers,  \* those who look addresses up
    Addr,     \* the addresses, a set of naturals
    Dialers,  \* what a lookup returns
    NoDialer  \* ... or this, when no route covers the address

VARIABLES
    routes,   \* the ranges in the table
    answer    \* what the last lookup of each reader returned

Route == [min : Addr, max : Addr, dialer : Dialers]

Covers(r, a) == r.min <= a /\ a <= r.max
Apart(r, s) == r.max < s.min \/ s.max < r.min

Init == routes = {} /\ answer = [c \in Readers |-> NoDialer]

\* A new range enters if it is apart from all the others.
Add(r) ==
    /\ \A s \in routes : Apart(r, s)
    /\ routes' = routes \cup {r}
    /\ UNCHANGED answer

\* A range that is in the table gets another dialer.
Replace(r) ==
    /\ \E s \in routes : s.min = r.min /\ s.max = r.max
    /\ routes' = {s \in routes : s.min # r.min} \cup {r}
    /\ UNCHANGED answer

\* The range that starts at m, if any, leaves.
Remove(m) ==
    /\ routes' = {s \in routes : s.min # m}
    /\ UNCHANGED answer

\* A lookup finds the dialer of the range that covers the address.
Lookup(c, a) ==
    /\ \E d \in Dialers \cup {NoDialer} :
          /\ answer' = [answer EXCEPT ![c] = d]
          /\ \/ \E r \in routes : Covers(r, a) /\ d = r.dialer
             \/ (\A r \in routes : ~Covers(r, a)) /\ d = NoDialer
    /\ UNCHANGED routes

Next ==
    \/ \E r \in Route : Add(r) \/ Replace(r)
    \/ \E m \in Addr : Remove(m)
    \/ \E c \in Readers, a \in Addr : Lookup(c, a)

Spec == Init /\ [][Next]_<<routes, answer>>
=============================================================================
