------------------------------ MODULE MCSocks5 -------------------------------
(* Instances of Socks5 for TLC. *)
EXTENDS Socks5

CONSTANTS p, q, f, s1, s2

\* One peer that is trusted, one whose password is wrong, and a foreign one.
ThreePeers == {p, q, f}
OnlyP == {p}
OnlyF == {f}
TwoStreams == {s1, s2}

\* The first dial is the trusted peer's, the second anybody's: the streams are
\* interchangeable, and two dials of untrusted peers have nothing to share.  What
\* a dial has to do with one of a foreign peer is the same for both kinds.
OneTrusted ==
    {d \in [TwoStreams -> Dial] :
        /\ d[s1].peer = p
        /\ d[s2].peer = p /\ d[s1].kind = "packet" => d[s2].kind = "packet"
        /\ d[s2].peer = f => d[s1].kind = "connect"}
=============================================================================
