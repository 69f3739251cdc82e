----------------------------- MODULE MCFunctions -----------------------------
(* GatewayFunctions on every input of a bounded size. *)
EXTENDS GatewayFunctions, SequencesExt

CONSTANTS
    MaxPackets,     \* how many packets are written
    MaxComponents   \* how many components a version has

\* Packets up to one byte more than may be written; a packet's bytes are told
\* apart by their place.
Packets == {[i \in 1 .. n |-> i % B] : n \in 0 .. MaxPacket + 1}
AllTransfers ==
    [ps  : BoundedSeq(Packets, MaxPackets),
     cut : 0 .. MaxPackets * (MaxPacket + 2),
     buf : 0 .. MaxPacket]

\* Components that are spelt "0", "1", "2", "01" and "x".
Components == {[txt |-> "0", val |-> 0], [txt |-> "1", val |-> 1], [txt |-> "2", val |-> 2],
               [txt |-> "01", val |-> 1], [txt |-> "x", val |-> 0]}
Versions == BoundedSeq(Components, MaxComponents) \ {<<>>}
AllReleases == [old : Versions, new : Versions]
=============================================================================
