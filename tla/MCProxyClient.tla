---------------------------- MODULE MCProxyClient ----------------------------
(* Instances of ProxyClient for TLC. *)
EXTENDS ProxyClient, TLC

CONSTANTS h1, h2, i1, i2, p1, p2

TwoH == {h1, h2}
TwoIDs == {i1, i2}
TwoPeers == {p1, p2}
Addresses == 0 .. 2

N(a, b) == [min |-> a, max |-> b]

\* The first outbound keeps its network and may change its peer; the second may
\* have a network inside it that begins with it, or one apart.
Networks == [i \in TwoIDs |-> IF i = i1 THEN {<<N(0, 1), p1>>, <<N(0, 1), p2>>}
                              ELSE {<<N(0, 0), p1>>, <<N(2, 2), p1>>}]

\* Requests are interchangeable.
Alike == Permutations(TwoH)
=============================================================================
