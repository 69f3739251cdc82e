-------------------------------- MODULE Wire ---------------------------------
(***************************************************************************)
(* Two small algorithms on sequences.                                      *)
(*                                                                         *)
(* packetReadWriter of socks5/util.go carries packets over a stream of     *)
(* bytes: a length of two bytes, the high one first, and the payload.      *)
(* Bytes are digits to the base B (256 in the code).                       *)
(*                                                                         *)
(* CompareVersion of common/version.go decides whether an upgrade is       *)
(* offered.  A version is the sequence of its components; a component is   *)
(* the value that strconv.Atoi reads from it, 0 when it reads none, and    *)
(* the way it is spelt, since the code also compares the two strings.      *)
(***************************************************************************)
EXTENDS Integers, Sequences

CONSTANT B

ASSUME BAssumption == B \in Nat /\ B > 1

Byte == 0 .. B - 1
Packet == Seq(Byte)

\* The largest length: 0xFFFF in the code.
MaxPacket == B * B - 1

\* Faulty variant: the low byte comes first.
FrameLittleEndian(p) == <<Len(p) % B, Len(p) \div B>> \o p

Frame(p) == <<Len(p) \div B, Len(p) % B>> \o p

\* Write refuses a packet that is too large and leaves the stream as it is.  out
\* is the stream so far, written are the packets that were not refused.
Write(w, p) ==
    IF Len(p) > MaxPacket THEN w
    ELSE [out |-> w.out \o Frame(p), written |-> Append(w.written, p)]

WriteAll(ps) ==
    LET upto[n \in 0 .. Len(ps)] ==
            IF n = 0 THEN [out |-> <<>>, written |-> <<>>] ELSE Write(upto[n - 1], ps[n])
    IN  upto[Len(ps)]

\* The packets that Read returns, one call after the other, from the stream s
\* that ends after its last byte, and how the last call ends: at the end of the
\* stream, inside a header or a payload, or with an index out of range, since
\* the buffer of size buf is cut to the length before it is compared with it.
\* io.ReadFull answers EOF when it gets no byte at all, for the payload too.
ReadAll(s, buf) ==
    LET from[i \in 1 .. Len(s) + 1] ==
            LET left == Len(s) + 1 - i
                l    == s[i] * B + s[i + 1]
            IN  CASE left = 0                -> [got |-> <<>>, end |-> "EOF"]
                  [] left = 1                -> [got |-> <<>>, end |-> "ErrUnexpectedEOF"]
                  [] left > 1 /\ l > buf      -> [got |-> <<>>, end |-> "panic"]
                  [] left > 1 /\ l <= buf /\ left < l + 2
                                             -> [got |-> <<>>,
                                                 end |-> IF left = 2 THEN "EOF" ELSE "ErrUnexpectedEOF"]
                  [] OTHER ->
                        LET rest == from[i + 2 + l]
                        IN  [got |-> <<SubSeq(s, i + 2, i + 1 + l)>> \o rest.got, end |-> rest.end]
    IN  from[1]

-----------------------------------------------------------------------------
EQUAL == 0
GREATER == 1
LESS == 0 - 1

\* Faulty variant: a version that is longer is taken to be older.
CompareVersionShort(v1, v2) ==
    LET from[i \in 1 .. Len(v1) + 1] ==
            CASE i > Len(v1) -> LESS
              [] i <= Len(v1) /\ i > Len(v2) -> LESS
              [] OTHER -> IF v1[i].val > v2[i].val THEN GREATER
                          ELSE IF v1[i].val < v2[i].val THEN LESS ELSE from[i + 1]
    IN  IF v1 = v2 THEN EQUAL ELSE from[1]

CompareVersion(v1, v2) ==
    LET from[i \in 1 .. Len(v1) + 1] ==
            CASE i > Len(v1) -> LESS
              [] i <= Len(v1) /\ i > Len(v2) -> GREATER
              [] OTHER -> IF v1[i].val > v2[i].val THEN GREATER
                          ELSE IF v1[i].val < v2[i].val THEN LESS ELSE from[i + 1]
    IN  IF v1 = v2 THEN EQUAL ELSE from[1]
=============================================================================
