-------------------------------- MODULE Cidr ---------------------------------
(***************************************************************************)
(* getCidrIntRange of gateway/proxy_router.go: the range of addresses of a *)
(* network in prefix notation, in unsigned arithmetic of W bits (32 in the *)
(* code), and the networks net.ParseCIDR can hand to it.  An IPv6 network  *)
(* has 4 * W bits.                                                         *)
(***************************************************************************)
EXTENDS Integers

CONSTANT W

ASSUME WAssumption == W \in Nat \ {0}

Word == 2 ^ W

\* A shift of a W-bit word by s bits: 0 once s reaches the width.
Shl(m, s) == IF s >= W THEN 0 ELSE (m * (2 ^ s)) % Word

\* The address of a network, with its last W - p bits cleared.
Masked(a, p) == a - (a % (2 ^ (W - p)))

\* net.ParseCIDR (external): an IPv4 network, an IPv4 network written as an
\* IPv6 one (::ffff:a.b.c.d), and an IPv6 network proper, whose To4 is nil and
\* reads as the number 0.
V4Nets == {[ip |-> Masked(a, p), ones |-> p, bits |-> W] : a \in 0 .. Word - 1, p \in 0 .. W}
MappedNets == {[n EXCEPT !.ones = 3 * W + @, !.bits = 4 * W] : n \in V4Nets}
V6Nets == {[ip |-> 0, ones |-> p, bits |-> 4 * W] : p \in 0 .. 4 * W}

AllNets == V4Nets \cup MappedNets \cup V6Nets

\* Faulty variant: the range includes the address behind the network.
RangeOneMore(n) ==
    LET m == Shl(Word - 1, n.bits - n.ones)
    IN  [min |-> n.ip, max |-> (n.ip + (Word - m)) % Word]

getCidrIntRange(n) ==
    LET m == Shl(Word - 1, n.bits - n.ones)
    IN  [min |-> n.ip, max |-> (n.ip + (Word - 1 - m)) % Word]
=============================================================================
