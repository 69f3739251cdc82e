---------------------------- MODULE MCProxyRouter ----------------------------
(* Instances of ProxyRouter over all networks of W-bit addresses. *)
EXTENDS ProxyRouter, Cidr, TLC

CONSTANTS w1, w2, r1, d1, d2

TwoW == {w1, w2}
OneR == {r1}
TwoD == {d1, d2}
Addresses == 0 .. Word - 1
V4Ranges == {getCidrIntRange(n) : n \in V4Nets}

\* Writers and dialers are interchangeable.
Alike == Permutations(Writers) \cup Permutations(Dialers)
=============================================================================
