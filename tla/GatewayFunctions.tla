--------------------------- MODULE GatewayFunctions --------------------------
(***************************************************************************)
(* getCidrIntRange, packetReadWriter and CompareVersion, called on inputs: *)
(* networks, sequences of packets whose stream breaks after some bytes and *)
(* is read into a buffer of some size, and pairs of versions.              *)
(***************************************************************************)
EXTENDS Cidr, Wire

CONSTANTS
    Transfers,   \* the packets, the byte after which the stream ends, the buffer
    Releases     \* the version that runs and the one that is on offer

Component == [txt : STRING, val : Int]
Version == Seq(Component)

ASSUME TransfersAssumption == Transfers \subseteq [ps : Seq(Packet), cut : Nat, buf : Nat]
ASSUME ReleasesAssumption == Releases \subseteq [old : Version, new : Version]

VARIABLES fn, input

NoCall == fn = "none" /\ input = 0

Call(f, inputs) ==
    /\ fn = "none"
    /\ fn' = f
    /\ input' \in inputs

SomeCall ==
    \/ Call("getCidrIntRange", AllNets)
    \/ Call("packetReadWriter", Transfers)
    \/ Call("CompareVersion", Releases)

Calls == NoCall /\ [][SomeCall]_<<fn, input>>

-----------------------------------------------------------------------------
InRange(a, n) == LET r == getCidrIntRange(n) IN r.min <= a /\ a <= r.max

SamePrefix(a, b, p) == a \div (2 ^ (W - p)) = b \div (2 ^ (W - p))

\* The length of the IPv4 prefix of a network in either notation.
PrefixLength(n) ==
    IF n.bits = W THEN n.ones ELSE IF n.ones > 3 * W THEN n.ones - 3 * W ELSE 0

\* The range of an IPv4 network, in either notation, holds exactly the
\* addresses that share its prefix: the shift by 0 and by the full width and
\* the unsigned addition of getCidrIntRange neither lose an end nor wrap.
RangeIsNetwork ==
    fn = "getCidrIntRange" =>
    \A a \in 0 .. Word - 1 : InRange(a, input) <=> SamePrefix(a, input.ip, PrefixLength(input))

\* The byte of the stream behind the first k packets.
Behind(ps, k) == Len(WriteAll(SubSeq(ps, 1, k)).out)

\* Of a stream that breaks after cut bytes, Read returns exactly the packets that
\* arrived whole and in order, each in one piece.  It panics only at a packet
\* larger than its buffer, and reports the end of the stream when that is between
\* two packets or behind the header of one.
FramesExact ==
    fn = "packetReadWriter" =>
    LET stream   == WriteAll(input.ps).out
        written  == WriteAll(input.ps).written
        cut      == IF input.cut < Len(stream) THEN input.cut ELSE Len(stream)
        r        == ReadAll(SubSeq(stream, 1, cut), input.buf)
        n        == Len(r.got)
    IN  /\ n <= Len(written) /\ r.got = SubSeq(written, 1, n)
        /\ r.end # "panic" => \A k \in 1 .. Len(written) : k <= n <=> Behind(written, k) <= cut
        /\ r.end = "panic" => n < Len(written) /\ Len(written[n + 1]) > input.buf
        /\ r.end = "EOF" <=> \E k \in 0 .. Len(written) :
                                /\ \A j \in 1 .. k : Len(written[j]) <= input.buf
                                /\ \/ Behind(written, k) = cut
                                   \/ /\ Behind(written, k) + 2 = cut
                                      /\ k < Len(written) /\ Len(written[k + 1]) \in 1 .. input.buf

\* The components of v come before those of w as numbers, from the left.
Older(v, w) ==
    \E i \in 1 .. Len(w) :
        /\ i <= Len(v) + 1
        /\ \A j \in 1 .. i - 1 : v[j].val = w[j].val
        /\ i = Len(v) + 1 \/ v[i].val < w[i].val

\* A newer release is always offered, an older one never, and neither is a
\* release to itself, however the components are spelt (CompareVersion, as
\* upgradeMyself uses it).
UpgradeIsNewer ==
    fn = "CompareVersion" =>
    LET offered == CompareVersion(input.old, input.new) = LESS
    IN  /\ Older(input.old, input.new) => offered
        /\ Older(input.new, input.old) \/ input.new = input.old => ~offered
=============================================================================
