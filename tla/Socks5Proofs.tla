----------------------------- MODULE Socks5Proofs ----------------------------
(***************************************************************************)
(* Socks5 serves only peers whose password was accepted, and fails to      *)
(* connect those only for a cause, for any number of peers, dials and lost *)
(* connections.                                                            *)
(*                                                                         *)
(* The first argument follows a dial of a peer that is not trusted.  When  *)
(* it runs client.go, client and server are in lock step as long as the    *)
(* stream is sound, and the step at which the server would read a request  *)
(* is not among those they can reach; the handler gets there only when the *)
(* negotiation fails, and then the stream is dead and no request can be    *)
(* read from it.  Of a foreign peer only the handler's place is known: it  *)
(* stays in the negotiation unless a Read or a Write fails, which takes a  *)
(* peer that has stopped reading.  The second one follows a connection of  *)
(* a trusted peer in lock step, up to the answer.                          *)
(***************************************************************************)
EXTENDS Socks5, TLAPS

\* The places of the handler of an untrusted peer.
Unserved == {"precheck", "readNeg", "writeMethod", "readAuth", "auth", "writeDenied",
             "readReq", "returned"}

\* No stream yet, or none at all.
Before(s) ==
    /\ client[s] \in {"idle", "failed"}
    /\ server[s] = "none"
    /\ end[<<"cl", s>>] = "none" /\ end[<<"sv", s>>] = "none"
    /\ buf[<<"cl", s>>] = <<>> /\ buf[<<"sv", s>>] = <<>>

\* The stream was lost or reset: nothing can be read or written.
Dead(s) ==
    /\ client[s] \notin {"idle", "foreign"}
    /\ server[s] \in Unserved
    /\ end[<<"cl", s>>] = "closed" /\ end[<<"sv", s>>] = "closed"

\* The stream is sound: where client and server are, and what is under way
\* to the client (c) and to the server (v).
At4(s, l, m, c, v) ==
    /\ client[s] = l /\ server[s] \in m
    /\ buf[<<"cl", s>>] = c /\ buf[<<"sv", s>>] = v

Live(s) ==
    /\ end[<<"cl", s>>] = "open" /\ end[<<"sv", s>>] = "open"
    /\ \/ At4(s, "writeNeg", {"precheck", "readNeg"}, <<>>, <<>>)
       \/ At4(s, "readNeg", {"precheck", "readNeg"}, <<>>, <<"neg">>)
       \/ At4(s, "readNeg", {"writeMethod"}, <<>>, <<>>)
       \/ At4(s, "readNeg", {"readAuth"}, <<"userpass">>, <<>>)
       \/ At4(s, "writeAuth", {"readAuth"}, <<>>, <<>>)
       \/ At4(s, "readAuth", {"readAuth"}, <<>>, <<"auth">>)
       \/ At4(s, "readAuth", {"auth", "writeDenied"}, <<>>, <<>>)
       \/ At4(s, "readAuth", {"returned"}, <<"denied">>, <<>>)
       \/ At4(s, "failed", {"returned"}, <<>>, <<>>)

Untrusted(s) == dial[s].peer \notin Trusted

Kept(s) ==
    /\ needAuth[s]
    /\ Before(s) \/ Dead(s) \/ Live(s)

\* The handler of a foreign peer negotiates, has returned, or has gone on where
\* the peer had stopped reading.
Apart(s) ==
    /\ client[s] = "foreign" /\ needAuth[s]
    /\ server[s] \notin {"none", "put", "writeStatus"}
    /\ server[s] \in Negotiating => end[<<"sv", s>>] = "open" \/ end[<<"cl", s>>] # "open"
    /\ server[s] \in Serving \cup {"readReq"} => end[<<"cl", s>>] # "open"

Inv ==
    /\ TypeOK
    /\ \A p \in Peers : events[p] <= drops
    /\ known \subseteq Trusted
    /\ \A s \in Streams : Untrusted(s) => Kept(s) \/ Apart(s)

\* A step of one stream.
StreamStep(s) ==
    \/ ClientStep(s) \/ ServerStep(s) \/ Environment(s)
    \/ \E d \in {"up", "down"} : ForwardEnds(s, d)

-----------------------------------------------------------------------------
(* Types.                                                                   *)

\* A Write of an item leaves streams of items.
LEMMA WriteType ==
    ASSUME NEW x \in Sides, NEW s \in Streams, NEW i \in Item,
           buf \in [Ends -> Seq(Item)], Write(x, s, i)
    PROVE  buf' \in [Ends -> Seq(Item)]
  BY DEF Write, Ends, Sides, Other

\* A Read leaves streams of items.
LEMMA TakeType ==
    ASSUME NEW x \in Sides, NEW s \in Streams,
           buf \in [Ends -> Seq(Item)], CanRead(x, s), Take(x, s)
    PROVE  buf' \in [Ends -> Seq(Item)] /\ First(x, s) \in Item
  BY DEF Take, CanRead, First, Ends

\* Closing and resetting leave handles and streams of items.
LEMMA CloseType ==
    ASSUME NEW s \in Streams, end \in [Ends -> {"none", "open", "deaf", "closed"}],
           buf \in [Ends -> Seq(Item)]
    PROVE  /\ \A x \in Sides : Close(x, s) => end' \in [Ends -> {"none", "open", "deaf", "closed"}]
           /\ Reset(s) => /\ end' \in [Ends -> {"none", "open", "deaf", "closed"}]
                          /\ buf' \in [Ends -> Seq(Item)]
<1>1. <<>> \in Seq(Item)
  OBVIOUS
<1>2. ASSUME NEW x \in Sides, Close(x, s)
      PROVE  end' \in [Ends -> {"none", "open", "deaf", "closed"}]
  BY <1>2 DEF Close
<1>3. ASSUME Reset(s)
      PROVE  end' \in [Ends -> {"none", "open", "deaf", "closed"}]
  BY <1>3 DEF Reset
<1>4. ASSUME Reset(s)
      PROVE  buf' \in [Ends -> Seq(Item)]
  BY <1>1, <1>4 DEF Reset
<1> QED BY <1>2, <1>3, <1>4

\* The steps of the client preserve the types.
LEMMA ClientType ==
    ASSUME TypeOK, NEW s \in Streams, ClientStep(s)
    PROVE  TypeOK'
<1>1. CASE ClientWrite(s)
  <2>1. buf' \in [Ends -> Seq(Item)]
    BY <1>1, WriteType DEF ClientWrite, TypeOK, Sides, Item
  <2> QED BY <1>1, <2>1 DEF ClientWrite, TypeOK, To, peerVars, serverVars
<1>2. CASE ReadMethod(s)
  <2>1. buf' \in [Ends -> Seq(Item)] /\ end' \in [Ends -> {"none", "open", "deaf", "closed"}]
    BY <1>2, TakeType, CloseType DEF ReadMethod, TypeOK, Sides
  <2> QED BY <1>2, <2>1 DEF ReadMethod, TypeOK, To, peerVars, serverVars
<1>3. CASE ReadStatus(s)
  <2>1. buf' \in [Ends -> Seq(Item)]
    BY <1>3, TakeType DEF ReadStatus, TypeOK, Sides
  <2> QED BY <1>3, <2>1 DEF ReadStatus, TypeOK, To, peerVars, serverVars
<1>4. CASE ReadReply(s)
  <2>1. buf' \in [Ends -> Seq(Item)] /\ end' \in [Ends -> {"none", "open", "deaf", "closed"}]
    BY <1>4, TakeType, CloseType DEF ReadReply, TypeOK, Sides
  <2> QED BY <1>4, <2>1 DEF ReadReply, TypeOK, To, peerVars, serverVars
<1>5. CASE ClientIOFails(s)
  <2>1. buf' \in [Ends -> Seq(Item)] /\ end' \in [Ends -> {"none", "open", "deaf", "closed"}]
    BY <1>5, CloseType DEF ClientIOFails, TypeOK
  <2> QED BY <1>5, <2>1 DEF ClientIOFails, TypeOK, To, peerVars, serverVars
<1> QED BY <1>1, <1>2, <1>3, <1>4, <1>5 DEF ClientStep

\* The steps of the server preserve the types.
LEMMA ServerType ==
    ASSUME TypeOK, NEW s \in Streams, ServerStep(s)
    PROVE  TypeOK'
<1>1. CASE Precheck(s) \/ Auth(s)
  BY <1>1, ZenonT(60) DEF Precheck, Auth, TypeOK, At, peerVars
<1>2. CASE ServerRead(s)
  <2>1. buf' \in [Ends -> Seq(Item)]
    BY <1>2, TakeType DEF ServerRead, TypeOK, Sides
  <2> QED BY <1>2, <2>1 DEF ServerRead, TypeOK, At, peerVars
<1>r. CASE ServerRefuses(s)
  <2>1. buf' \in [Ends -> Seq(Item)] /\ end' \in [Ends -> {"none", "open", "deaf", "closed"}]
    BY <1>r, TakeType, CloseType DEF ServerRefuses, TypeOK, Sides
  <2> QED BY <1>r, <2>1 DEF ServerRefuses, TypeOK, At, peerVars
<1>3. CASE WriteMethod(s) \/ WriteStatus(s) \/ WriteDenied(s)
  <2>1. buf' \in [Ends -> Seq(Item)]
    BY <1>3, WriteType DEF WriteMethod, WriteStatus, WriteDenied, TypeOK, Sides, Item
  <2> QED BY <1>3, <2>1 DEF WriteMethod, WriteStatus, WriteDenied, TypeOK, At, peerVars
<1>4. CASE PutSession(s)
  BY <1>4 DEF PutSession, TypeOK, At, Dial
<1>5. CASE NegotiateIOFails(s)
  BY <1>5 DEF NegotiateIOFails, TypeOK, At, peerVars
<1>6. CASE RequestIOFails(s)
  <2>1. end' \in [Ends -> {"none", "open", "deaf", "closed"}]
    BY <1>6, CloseType DEF RequestIOFails, TypeOK, Sides
  <2> QED BY <1>6, <2>1 DEF RequestIOFails, TypeOK, At, peerVars
<1>7. CASE DialTarget(s) \/ DialTargetFails(s)
  <2>1. forward' \in [Streams -> SUBSET {"up", "down"}]
    BY <1>7 DEF DialTarget, DialTargetFails, TypeOK
  <2> QED BY <1>7, <2>1, ZenonT(60) DEF DialTarget, DialTargetFails, TypeOK, At, peerVars
<1>8. CASE ReplyErr(s) \/ Reply(s)
  <2>1. buf' \in [Ends -> Seq(Item)]
    BY <1>8, WriteType DEF ReplyErr, Reply, TypeOK, Sides, Item
  <2>2. end' \in [Ends -> {"none", "open", "deaf", "closed"}]
    BY <1>8, CloseType DEF ReplyErr, Reply, TypeOK, Sides
  <2>3. forward' \in [Streams -> SUBSET {"up", "down"}]
    BY <1>8 DEF ReplyErr, Reply, TypeOK
  <2> QED BY <1>8, <2>1, <2>2, <2>3 DEF ReplyErr, Reply, TypeOK, At, peerVars
<1>9. CASE Return(s) \/ PacketLoopEnds(s)
  <2>1. end' \in [Ends -> {"none", "open", "deaf", "closed"}]
    BY <1>9, CloseType DEF Return, PacketLoopEnds, TypeOK, Sides
  <2> QED BY <1>9, <2>1 DEF Return, PacketLoopEnds, TypeOK, At, peerVars
<1> QED BY <1>1, <1>2, <1>r, <1>3, <1>4, <1>5, <1>6, <1>7, <1>8, <1>9 DEF ServerStep

\* The steps of users, targets and copies preserve the types.
LEMMA EnvironmentType ==
    ASSUME TypeOK, NEW s \in Streams,
           Environment(s) \/ \E d \in {"up", "down"} : ForwardEnds(s, d)
    PROVE  TypeOK'
<1>1. CASE NewStream(s) \/ NewStreamFails(s)
  BY <1>1 DEF NewStream, NewStreamFails, TypeOK, To, Ends, peerVars, serverVars
<1>2. CASE ClientClose(s)
  <2>1. end' \in [Ends -> {"none", "open", "deaf", "closed"}]
    BY <1>2, CloseType DEF ClientClose, TypeOK, Sides
  <2> QED BY <1>2, <2>1 DEF ClientClose, TypeOK, To, peerVars, serverVars
<1>3. CASE TargetEnds(s)
  BY <1>3 DEF TargetEnds, TypeOK, peerVars
<1>4. CASE PacketIn(s)
  <2>1. buf' \in [Ends -> Seq(Item)]
    BY <1>4, WriteType DEF PacketIn, TypeOK, Sides, Item
  <2> QED BY <1>4, <2>1 DEF PacketIn, TypeOK, peerVars, serverVars
<1>5. CASE \E d \in {"up", "down"} : ForwardEnds(s, d)
  BY <1>5 DEF ForwardEnds, TypeOK, peerVars
<1>6. CASE NewForeign(s)
  BY <1>6 DEF NewForeign, TypeOK, To, Ends, peerVars
<1>7. CASE ForeignWrite(s)
  <2>1. PICK i \in {"neg", "auth", "request"} : Write("cl", s, i)
    BY <1>7 DEF ForeignWrite
  <2>2. buf' \in [Ends -> Seq(Item)]
    BY <2>1, WriteType DEF TypeOK, Sides, Item
  <2> QED BY <1>7, <2>2 DEF ForeignWrite, TypeOK, peerVars, serverVars
<1>8. CASE ForeignStops(s)
  <2>1. end' \in [Ends -> {"none", "open", "deaf", "closed"}] /\ buf' \in [Ends -> Seq(Item)]
    BY <1>8, CloseType DEF ForeignStops, TypeOK, Sides
  <2> QED BY <1>8, <2>1 DEF ForeignStops, TypeOK, peerVars, serverVars
<1> QED BY <1>1, <1>2, <1>3, <1>4, <1>5, <1>6, <1>7, <1>8 DEF Environment

\* The loss of a connection, and what the engine makes of it.
LEMMA PeerType ==
    ASSUME Inv, NEW p \in Peers, Disconnect(p) \/ RemovePeer(p)
    PROVE  TypeOK' /\ \A r \in Peers : events'[r] <= drops'
<1>1. CASE Disconnect(p)
  <2> DEFINE gone == {s \in Streams : dial[s].peer = p /\ end[<<"cl", s>>] # "none"}
  <2>1. /\ end' \in [Ends -> {"none", "open", "deaf", "closed"}]
        /\ buf' \in [Ends -> Seq(Item)]
        /\ lost' \in [Streams -> BOOLEAN]
    <3> HIDE DEF gone
    <3>1. /\ end' = [e \in Ends |-> IF e[2] \in gone THEN "closed" ELSE end[e]]
          /\ buf' = [e \in Ends |-> IF e[2] \in gone THEN <<>> ELSE buf[e]]
          /\ lost' = [s \in Streams |-> lost[s] \/ s \in gone]
      BY <1>1 DEF Disconnect, gone
    <3> QED BY <3>1 DEF Inv, TypeOK
  <2>2. /\ drops \in Nat /\ drops + 1 \in 0 .. MaxDrops
        /\ drops' = drops + 1
        /\ events' = [events EXCEPT ![p] = @ + 1]
    BY <1>1, MaxDropsAssumption DEF Disconnect, Inv, TypeOK
  <2>3. \A r \in Peers : events[r] \in Nat /\ events[r] <= drops
    BY MaxDropsAssumption DEF Inv, TypeOK
  <2>4. \A r \in Peers : events'[r] \in 0 .. MaxDrops /\ events'[r] <= drops'
    BY <2>2, <2>3, MaxDropsAssumption DEF Inv, TypeOK
  <2>5. events' \in [Peers -> 0 .. MaxDrops]
    BY <2>2, <2>4 DEF Inv, TypeOK
  <2> QED BY <1>1, <2>1, <2>2, <2>4, <2>5 DEF Disconnect, Inv, TypeOK, serverVars
<1>2. CASE RemovePeer(p)
  <2>1. \A r \in Peers : events[r] \in 0 .. MaxDrops /\ events[r] <= drops /\ drops \in Nat
    BY MaxDropsAssumption DEF Inv, TypeOK
  <2>2. \A r \in Peers : events'[r] \in 0 .. MaxDrops /\ events'[r] <= drops
    BY <1>2, <2>1, MaxDropsAssumption DEF RemovePeer, Inv, TypeOK
  <2>3. events' \in [Peers -> 0 .. MaxDrops]
    BY <1>2, <2>2 DEF RemovePeer, Inv, TypeOK
  <2> QED BY <1>2, <2>2, <2>3 DEF RemovePeer, Inv, TypeOK, serverVars
<1> QED BY <1>1, <1>2

-----------------------------------------------------------------------------
(* The dials of untrusted peers.                                            *)

\* What a step may not do to another stream.
Same(j) ==
    /\ client'[j] = client[j] /\ server'[j] = server[j] /\ needAuth'[j] = needAuth[j]
    /\ \A x \in Sides : end'[<<x, j>>] = end[<<x, j>>] /\ buf'[<<x, j>>] = buf[<<x, j>>]

\* A step of one stream leaves the others alone.
LEMMA Frame ==
    ASSUME TypeOK, NEW s \in Streams, StreamStep(s), NEW j \in Streams, j # s
    PROVE  Same(j)
<1> USE DEF TypeOK, Same, Sides, Ends, peerVars, serverVars
<1>1. CASE ClientStep(s)
  BY <1>1 DEF ClientStep, ClientWrite, ReadMethod, ReadStatus, ReadReply, ClientIOFails,
     Write, Take, Reset, To, Other
<1>2. CASE ServerStep(s)
  <2>1. CASE Precheck(s) \/ ServerRead(s) \/ WriteMethod(s) \/ Auth(s) \/ PutSession(s)
    BY <2>1 DEF Precheck, ServerRead, WriteMethod, Auth, PutSession, Write, Take, At, Other
  <2>r. CASE ServerRefuses(s)
    BY <2>r DEF ServerRefuses, Take, Close, At
  <2>2. CASE WriteStatus(s) \/ WriteDenied(s) \/ NegotiateIOFails(s) \/ RequestIOFails(s)
    BY <2>2 DEF WriteStatus, WriteDenied, NegotiateIOFails, RequestIOFails, Write, Close, At, Other
  <2>3. CASE DialTarget(s) \/ DialTargetFails(s) \/ ReplyErr(s) \/ Reply(s) \/ Return(s)
             \/ PacketLoopEnds(s)
    BY <2>3 DEF DialTarget, DialTargetFails, ReplyErr, Reply, Return, PacketLoopEnds, Write,
       Close, At, Other
  <2> QED BY <1>2, <2>1, <2>r, <2>2, <2>3 DEF ServerStep
<1>3. CASE Environment(s)
  BY <1>3 DEF Environment, NewStream, NewStreamFails, ClientClose, TargetEnds, PacketIn,
     NewForeign, ForeignWrite, ForeignStops, Write, Close, Reset, To, Other
<1>4. CASE \E d \in {"up", "down"} : ForwardEnds(s, d)
  BY <1>4 DEF ForwardEnds
<1> QED BY <1>1, <1>2, <1>3, <1>4 DEF StreamStep

\* What holds of an untrusted stream is about that stream only.
LEMMA FrameKept ==
    ASSUME NEW j \in Streams, Same(j), Kept(j)
    PROVE  Kept(j)'
  BY DEF Same, Kept, Before, Dead, Live, At4, Sides

LEMMA FrameApart ==
    ASSUME NEW j \in Streams, Same(j), Apart(j)
    PROVE  Apart(j)'
  BY DEF Same, Apart, Sides

\* What a Write to an empty stream and the Read of its only item leave.
LEMMA OneItem ==
    ASSUME NEW i \in Item
    PROVE  Append(<<>>, i) = <<i>> /\ Head(<<i>>) = i /\ Tail(<<i>>) = <<>> /\ <<i>> # <<>>
  OBVIOUS

\* A Write to an empty stream whose other handle is open.
LEMMA WriteEffect ==
    ASSUME TypeOK, NEW x \in Sides, NEW s \in Streams, NEW i \in Item, Write(x, s, i),
           end[<<Other(x), s>>] = "open", buf[<<Other(x), s>>] = <<>>
    PROVE  buf'[<<Other(x), s>>] = <<i>> /\ buf'[<<x, s>>] = buf[<<x, s>>]
<1>1. buf'[<<Other(x), s>>] = Append(<<>>, i) /\ buf'[<<x, s>>] = buf[<<x, s>>]
  BY DEF TypeOK, Write, Other, Ends, Sides
<1> QED BY <1>1, OneItem

\* A Read of the only item under way.
LEMMA TakeEffect ==
    ASSUME TypeOK, NEW x \in Sides, NEW s \in Streams, NEW i \in Item, Take(x, s),
           buf[<<x, s>>] = <<i>>
    PROVE  First(x, s) = i /\ buf'[<<x, s>>] = <<>> /\ buf'[<<Other(x), s>>] = buf[<<Other(x), s>>]
<1>1. /\ First(x, s) = Head(<<i>>) /\ buf'[<<x, s>>] = Tail(<<i>>)
      /\ buf'[<<Other(x), s>>] = buf[<<Other(x), s>>]
  BY DEF TypeOK, Take, First, Other, Ends, Sides
<1> QED BY <1>1, OneItem

\* Steps of the client of an untrusted stream.
LEMMA ClientKept ==
    ASSUME TypeOK, NEW s \in Streams, Kept(s), ClientStep(s)
    PROVE  Kept(s)'
<1> USE DEF TypeOK, Ends, Sides, serverVars
<1>1. CASE ClientWrite(s)
  <2>1. Live(s) /\ client[s] \in {"writeNeg", "writeAuth"}
    BY <1>1 DEF ClientWrite, Write, CanWrite, Kept, Before, Dead, Live, At4
  <2>2. CASE client[s] = "writeNeg"
    <3>1. Write("cl", s, "neg") /\ client'[s] = "readNeg"
      BY <1>1, <2>2 DEF ClientWrite, To
    <3>2. buf'[<<"sv", s>>] = <<"neg">> /\ buf'[<<"cl", s>>] = <<>>
      BY <2>1, <2>2, <3>1, WriteEffect DEF Item, Other, Live, At4
    <3> QED BY <1>1, <2>1, <2>2, <3>1, <3>2 DEF ClientWrite, Kept, Live, At4
  <2>3. CASE client[s] = "writeAuth"
    <3>1. Write("cl", s, "auth") /\ client'[s] = "readAuth"
      BY <1>1, <2>3 DEF ClientWrite, To
    <3>2. buf'[<<"sv", s>>] = <<"auth">> /\ buf'[<<"cl", s>>] = <<>>
      BY <2>1, <2>3, <3>1, WriteEffect DEF Item, Other, Live, At4
    <3> QED BY <1>1, <2>1, <2>3, <3>1, <3>2 DEF ClientWrite, Kept, Live, At4
  <2> QED BY <2>1, <2>2, <2>3
<1>2. CASE ReadMethod(s)
  <2>1. Live(s) /\ server[s] = "readAuth" /\ buf[<<"cl", s>>] = <<"userpass">> /\ buf[<<"sv", s>>] = <<>>
    BY <1>2 DEF ReadMethod, CanRead, Kept, Before, Dead, Live, At4
  <2>2. First("cl", s) = "userpass"
    BY <2>1, OneItem DEF First, Item
  <2>3. Take("cl", s) /\ end' = end /\ client'[s] = "writeAuth"
    BY <1>2, <2>2 DEF ReadMethod, Acceptable, To
  <2>4. buf'[<<"cl", s>>] = <<>> /\ buf'[<<"sv", s>>] = <<>>
    BY <2>1, <2>3, TakeEffect DEF Item, Other
  <2> QED BY <1>2, <2>1, <2>3, <2>4 DEF ReadMethod, Kept, Live, At4
<1>3. CASE ReadStatus(s)
  <2>1. Live(s) /\ server[s] = "returned" /\ buf[<<"cl", s>>] = <<"denied">> /\ buf[<<"sv", s>>] = <<>>
    BY <1>3 DEF ReadStatus, CanRead, Kept, Before, Dead, Live, At4
  <2>2. First("cl", s) = "denied" /\ buf'[<<"cl", s>>] = <<>> /\ buf'[<<"sv", s>>] = <<>>
    BY <1>3, <2>1, TakeEffect DEF ReadStatus, Item, Other
  <2>3. client'[s] = "failed"
    BY <1>3, <2>2 DEF ReadStatus, To
  <2> QED BY <1>3, <2>1, <2>2, <2>3 DEF ReadStatus, Kept, Live, At4
<1>4. CASE ReadReply(s)
  BY <1>4 DEF ReadReply, CanRead, Kept, Before, Dead, Live, At4
<1>5. CASE ClientIOFails(s)
  BY <1>5 DEF ClientIOFails, ReadFails, WriteFails, Reset, To, Other, Kept, Before, Dead, Live, At4
<1> QED BY <1>1, <1>2, <1>3, <1>4, <1>5 DEF ClientStep

\* Steps of its handler: it never gets to serve a request.
LEMMA ServerKept ==
    ASSUME TypeOK, NEW s \in Streams, Untrusted(s), known \subseteq Trusted, Kept(s), ServerStep(s)
    PROVE  Kept(s)' /\ known' = known
<1> USE DEF TypeOK, Ends, Sides, At, Unserved, peerVars
<1>1. CASE Precheck(s)
  BY <1>1 DEF Precheck, Untrusted, Kept, Before, Dead, Live, At4
<1>2. CASE ServerRead(s)
  <2>1. /\ Live(s) /\ buf[<<"cl", s>>] = <<>>
        /\ \/ server[s] = "readNeg" /\ client[s] = "readNeg" /\ buf[<<"sv", s>>] = <<"neg">>
           \/ server[s] = "readAuth" /\ client[s] = "readAuth" /\ buf[<<"sv", s>>] = <<"auth">>
    BY <1>2 DEF ServerRead, CanRead, Kept, Before, Dead, Live, At4
  <2>2. buf'[<<"cl", s>>] = <<>> /\ buf'[<<"sv", s>>] = <<>>
    BY <1>2, <2>1, TakeEffect DEF ServerRead, Item, Other
  <2> QED BY <1>2, <2>1, <2>2 DEF ServerRead, Kept, Live, At4
<1>r. ~ServerRefuses(s)
  <2> SUFFICES ASSUME ServerRefuses(s) PROVE FALSE
    OBVIOUS
  <2>1. \/ server[s] = "readNeg" /\ buf[<<"sv", s>>] = <<"neg">>
        \/ server[s] = "readAuth" /\ buf[<<"sv", s>>] = <<"auth">>
    BY DEF ServerRefuses, CanRead, Kept, Before, Dead, Live, At4
  <2> QED BY <2>1, OneItem DEF ServerRefuses, First, Expected, Item
<1>3. CASE WriteMethod(s) \/ WriteDenied(s)
  <2>1. /\ Live(s) /\ buf[<<"cl", s>>] = <<>> /\ buf[<<"sv", s>>] = <<>>
        /\ \/ server[s] = "writeMethod" /\ client[s] = "readNeg"
           \/ server[s] = "writeDenied" /\ client[s] = "readAuth"
    BY <1>3 DEF WriteMethod, WriteDenied, Write, CanWrite, Kept, Before, Dead, Live, At4
  <2>2. CASE WriteMethod(s)
    <3>1. Write("sv", s, "userpass") /\ server'[s] = "readAuth" /\ server[s] = "writeMethod"
      BY <2>2 DEF WriteMethod, Kept
    <3>2. buf'[<<"cl", s>>] = <<"userpass">> /\ buf'[<<"sv", s>>] = <<>>
      BY <2>1, <3>1, WriteEffect DEF Item, Other, Live
    <3> QED BY <2>1, <2>2, <3>1, <3>2 DEF WriteMethod, Kept, Live, At4
  <2>3. CASE WriteDenied(s)
    <3>1. Write("sv", s, "denied") /\ server'[s] = "returned" /\ server[s] = "writeDenied"
      BY <2>3 DEF WriteDenied
    <3>2. buf'[<<"cl", s>>] = <<"denied">> /\ buf'[<<"sv", s>>] = <<>>
      BY <2>1, <3>1, WriteEffect DEF Item, Other, Live
    <3> QED BY <2>1, <2>3, <3>1, <3>2 DEF WriteDenied, Kept, Live, At4
  <2> QED BY <1>3, <2>2, <2>3
<1>4. CASE Auth(s)
  BY <1>4 DEF Auth, Untrusted, Kept, Before, Dead, Live, At4
<1>5. CASE NegotiateIOFails(s)
  BY <1>5 DEF NegotiateIOFails, ReadFails, WriteFails, Other, Kept, Before, Dead, Live, At4
<1>6. CASE RequestIOFails(s)
  BY <1>6 DEF RequestIOFails, ReadFails, Close, Other, Kept, Before, Dead, Live, At4
<1>7. server[s] \in Unserved \cup {"none"}
  BY DEF Kept, Before, Dead, Live, At4
<1>8. CASE PutSession(s) \/ WriteStatus(s) \/ DialTarget(s) \/ DialTargetFails(s) \/ ReplyErr(s)
           \/ Reply(s) \/ Return(s) \/ PacketLoopEnds(s)
  BY <1>7, <1>8 DEF PutSession, WriteStatus, DialTarget, DialTargetFails, ReplyErr, Reply, Return,
     PacketLoopEnds
<1> QED BY <1>1, <1>2, <1>r, <1>3, <1>4, <1>5, <1>6, <1>8 DEF ServerStep

\* Steps of its user, and of a target it does not have.
LEMMA EnvironmentKept ==
    ASSUME TypeOK, NEW s \in Streams, Kept(s),
           Environment(s) \/ \E d \in {"up", "down"} : ForwardEnds(s, d)
    PROVE  Kept(s)' \/ Apart(s)'
<1> USE DEF TypeOK, Ends, Sides, Unserved, serverVars
<1>1. CASE NewStream(s) \/ NewStreamFails(s)
  BY <1>1 DEF NewStream, NewStreamFails, To, Kept, Before, Dead, Live, At4
<1>2. CASE ClientClose(s)
  BY <1>2 DEF ClientClose, Close, To, Kept, Before, Dead, Live, At4
<1>3. CASE TargetEnds(s) \/ PacketIn(s)
  BY <1>3 DEF TargetEnds, PacketIn, Kept, Before, Dead, Live, At4
<1>4. CASE \E d \in {"up", "down"} : ForwardEnds(s, d)
  BY <1>4 DEF ForwardEnds, Kept, Before, Dead, Live, At4
<1>5. CASE NewForeign(s)
  BY <1>5 DEF NewForeign, To, Kept, Before, Dead, Live, At4, Apart, Negotiating, Serving
<1>6. CASE ForeignWrite(s) \/ ForeignStops(s)
  BY <1>6 DEF ForeignWrite, ForeignStops, Kept, Before, Dead, Live, At4
<1> QED BY <1>1, <1>2, <1>3, <1>4, <1>5, <1>6 DEF Environment

\* Nothing of client.go runs for a foreign peer, and what it does itself to its
\* stream does not open it again.
LEMMA ForeignApart ==
    ASSUME TypeOK, NEW s \in Streams, Apart(s),
           ClientStep(s) \/ Environment(s) \/ \E d \in {"up", "down"} : ForwardEnds(s, d)
    PROVE  Apart(s)'
<1> USE DEF TypeOK, Ends, Sides, serverVars
<1>1. CASE ClientStep(s) \/ NewStream(s) \/ NewStreamFails(s) \/ NewForeign(s) \/ ClientClose(s)
  BY <1>1 DEF ClientStep, ClientWrite, ReadMethod, ReadStatus, ReadReply, ClientIOFails, NewStream,
     NewStreamFails, NewForeign, ClientClose, Apart
<1>2. CASE TargetEnds(s) \/ PacketIn(s) \/ ForeignWrite(s)
  BY <1>2 DEF TargetEnds, PacketIn, ForeignWrite, Apart
<1>3. CASE ForeignStops(s)
  <2>1. end'[<<"cl", s>>] # "open"
    BY <1>3 DEF ForeignStops, Close, Reset
  <2> QED BY <1>3, <2>1 DEF ForeignStops, Apart
<1>4. CASE \E d \in {"up", "down"} : ForwardEnds(s, d)
  BY <1>4 DEF ForwardEnds, Apart
<1> QED BY <1>1, <1>2, <1>3, <1>4 DEF Environment

\* Its handler leaves the negotiation for a request only where a Read or a Write
\* fails, and no Read or Write fails on a stream that is open and read.
LEMMA ServerApart ==
    ASSUME TypeOK, NEW s \in Streams, Untrusted(s), known \subseteq Trusted, Apart(s), ServerStep(s)
    PROVE  Apart(s)' /\ known' = known
<1> USE DEF TypeOK, Ends, Sides, At, Negotiating, Serving, peerVars
<1>1. CASE Precheck(s) \/ Auth(s)
  BY <1>1 DEF Precheck, Auth, Untrusted, Apart
<1>2. CASE ServerRead(s) \/ WriteMethod(s) \/ WriteDenied(s)
  BY <1>2 DEF ServerRead, WriteMethod, WriteDenied, Apart
<1>3. CASE ServerRefuses(s)
  BY <1>3 DEF ServerRefuses, Apart
<1>4. CASE PutSession(s) \/ WriteStatus(s)
  BY <1>4 DEF PutSession, WriteStatus, Apart
<1>5. CASE NegotiateIOFails(s)
  <2>1. end[<<"cl", s>>] # "open"
    BY <1>5 DEF NegotiateIOFails, ReadFails, WriteFails, Other, Apart
  <2> QED BY <1>5, <2>1 DEF NegotiateIOFails, Apart
<1>6. CASE RequestIOFails(s) \/ ReplyErr(s) \/ Return(s) \/ PacketLoopEnds(s)
  BY <1>6 DEF RequestIOFails, ReplyErr, Return, PacketLoopEnds, Close, Apart
<1>7. CASE DialTarget(s) \/ DialTargetFails(s) \/ Reply(s)
  BY <1>7 DEF DialTarget, DialTargetFails, Reply, Apart
<1> QED BY <1>1, <1>2, <1>3, <1>4, <1>5, <1>6, <1>7 DEF ServerStep

\* A lost connection leaves its streams dead and the others as they were.
LEMMA DisconnectKept ==
    ASSUME TypeOK, NEW p \in Peers, Disconnect(p), NEW j \in Streams, Kept(j)
    PROVE  Kept(j)'
<1> DEFINE hit == dial[j].peer = p /\ end[<<"cl", j>>] # "none"
<1>1. /\ client'[j] = client[j] /\ server'[j] = server[j] /\ needAuth'[j] = needAuth[j]
      /\ \A x \in Sides : end'[<<x, j>>] = IF hit THEN "closed" ELSE end[<<x, j>>]
      /\ \A x \in Sides : buf'[<<x, j>>] = IF hit THEN <<>> ELSE buf[<<x, j>>]
  BY DEF Disconnect, Ends, serverVars
<1>2. CASE ~hit
  BY <1>1, <1>2, FrameKept DEF Same
<1>3. CASE hit
  <2>1. Dead(j) \/ Live(j)
    BY <1>3 DEF Kept, Before
  <2>2. client[j] \notin {"idle", "foreign"} /\ server[j] \in Unserved
    BY <2>1 DEF Dead, Live, At4, Unserved
  <2> QED BY <1>1, <1>3, <2>2 DEF Dead, Kept, Sides
<1> QED BY <1>2, <1>3

LEMMA DisconnectApart ==
    ASSUME TypeOK, NEW p \in Peers, Disconnect(p), NEW j \in Streams, Apart(j)
    PROVE  Apart(j)'
<1> DEFINE hit == dial[j].peer = p /\ end[<<"cl", j>>] # "none"
<1>1. /\ client'[j] = client[j] /\ server'[j] = server[j] /\ needAuth'[j] = needAuth[j]
      /\ \A x \in Sides : end'[<<x, j>>] = IF hit THEN "closed" ELSE end[<<x, j>>]
  BY DEF Disconnect, Ends, serverVars
<1> QED BY <1>1 DEF Apart, Sides

\* Sessions are stored for trusted peers only.
LEMMA KnownTrusted ==
    ASSUME Inv, NEW s \in Streams, StreamStep(s)
    PROVE  known' \subseteq Trusted
<1>1. CASE PutSession(s)
  <2>1. ~Untrusted(s)
    BY <1>1 DEF PutSession, Inv, Kept, Before, Dead, Live, At4, Unserved, Apart
  <2> QED BY <1>1, <2>1 DEF PutSession, Inv, Untrusted
<1>2. CASE ~PutSession(s)
  <2>1. known' = known
    BY <1>2 DEF StreamStep, ClientStep, ClientWrite, ReadMethod, ReadStatus, ReadReply, ClientIOFails,
       ServerStep, Precheck, ServerRead, WriteMethod, Auth, WriteStatus, WriteDenied,
       NegotiateIOFails, RequestIOFails, DialTarget, DialTargetFails, ReplyErr, Reply, Return,
       PacketLoopEnds, Environment, NewStream, NewStreamFails, ClientClose, TargetEnds, PacketIn,
       NewForeign, ForeignWrite, ForeignStops, ServerRefuses, ForwardEnds, peerVars
  <2> QED BY <2>1 DEF Inv
<1> QED BY <1>1, <1>2

\* A step of a stream changes neither the dials nor what the engine has to do.
LEMMA StreamFrame ==
    ASSUME NEW s \in Streams, StreamStep(s)
    PROVE  dial' = dial /\ drops' = drops /\ events' = events
  BY DEF StreamStep, ClientStep, ClientWrite, ReadMethod, ReadStatus, ReadReply, ClientIOFails,
     ServerStep, Precheck, ServerRead, WriteMethod, Auth, PutSession, WriteStatus, WriteDenied,
     NegotiateIOFails, RequestIOFails, DialTarget, DialTargetFails, ReplyErr, Reply, Return,
     PacketLoopEnds, Environment, NewStream, NewStreamFails, ClientClose, TargetEnds, PacketIn,
     NewForeign, ForeignWrite, ForeignStops, ServerRefuses, ForwardEnds, peerVars

-----------------------------------------------------------------------------
\* Before the first dial.
LEMMA Initially == Init => Inv
<1> SUFFICES ASSUME Init PROVE Inv
  OBVIOUS
<1>1. TypeOK
  BY MaxDropsAssumption, DialsAssumption DEF Init, TypeOK
<1>2. ASSUME NEW p \in Peers PROVE events[p] <= drops
  <2>1. events[p] = 0 /\ drops = 0
    BY DEF Init
  <2> QED BY <2>1
<1>3. ASSUME NEW s \in Streams PROVE Kept(s)
  BY DEF Init, Kept, Before, Ends, Sides
<1> QED BY <1>1, <1>2, <1>3 DEF Inv, Init

\* Every step preserves the invariant.
LEMMA Inductive == Inv /\ [Next]_vars => Inv'
<1> SUFFICES ASSUME Inv, [Next]_vars PROVE Inv'
  OBVIOUS
<1>1. ASSUME NEW s \in Streams, StreamStep(s) PROVE Inv'
  <2>1. TypeOK'
    BY <1>1, ClientType, ServerType, EnvironmentType DEF StreamStep, Inv
  <2>2. dial' = dial /\ drops' = drops /\ events' = events
    BY <1>1, StreamFrame
  <2>3. known' \subseteq Trusted
    BY <1>1, KnownTrusted
  <2>4. ASSUME NEW j \in Streams, Untrusted(j)' PROVE Kept(j)' \/ Apart(j)'
    <3>1. Untrusted(j) /\ (Kept(j) \/ Apart(j))
      BY <2>2, <2>4 DEF Inv, Untrusted
    <3>2. CASE j = s /\ Kept(j)
      BY <1>1, <3>1, <3>2, ClientKept, ServerKept, EnvironmentKept DEF StreamStep, Inv
    <3>3. CASE j = s /\ Apart(j)
      BY <1>1, <3>1, <3>3, ServerApart, ForeignApart DEF StreamStep, Inv
    <3>4. CASE j # s
      BY <1>1, <3>1, <3>4, Frame, FrameKept, FrameApart DEF Inv
    <3> QED BY <3>1, <3>2, <3>3, <3>4
  <2>5. \A p \in Peers : events'[p] <= drops'
    BY <2>2 DEF Inv
  <2> QED BY <2>1, <2>3, <2>4, <2>5 DEF Inv
<1>2. ASSUME NEW p \in Peers, Disconnect(p) \/ RemovePeer(p) PROVE Inv'
  <2>1. TypeOK' /\ \A r \in Peers : events'[r] <= drops'
    BY <1>2, PeerType
  <2>2. known' \subseteq Trusted /\ dial' = dial
    BY <1>2 DEF Disconnect, RemovePeer, Inv
  <2>3. ASSUME NEW j \in Streams, Untrusted(j)' PROVE Kept(j)' \/ Apart(j)'
    <3>1. Kept(j) \/ Apart(j)
      BY <2>2, <2>3 DEF Inv, Untrusted
    <3>2. CASE RemovePeer(p)
      BY <3>1, <3>2, FrameKept, FrameApart DEF RemovePeer, Same, serverVars
    <3> QED BY <1>2, <3>1, <3>2, DisconnectKept, DisconnectApart DEF Inv
  <2> QED BY <2>1, <2>2, <2>3 DEF Inv
<1>3. CASE UNCHANGED vars
  <2>1. TypeOK' /\ known' = known /\ dial' = dial /\ drops' = drops /\ events' = events
    BY <1>3 DEF vars, Inv, TypeOK
  <2>2. \A j \in Streams : Same(j)
    BY <1>3 DEF vars, Same
  <2> QED BY <2>1, <2>2, FrameKept, FrameApart DEF Inv, Untrusted
<1> QED BY <1>1, <1>2, <1>3 DEF Next, StreamStep

-----------------------------------------------------------------------------
(* The connections of trusted peers.                                        *)

Connects(s) == ~Untrusted(s) /\ dial[s].kind = "connect"

\* Client and handler in lock step, up to the reply to a target that was dialled.
Talking(s) ==
    /\ end[<<"cl", s>>] = "open" /\ end[<<"sv", s>>] = "open"
    /\ \/ At4(s, "writeNeg", {"precheck", "readNeg"}, <<>>, <<>>)
       \/ At4(s, "readNeg", {"precheck", "readNeg"}, <<>>, <<"neg">>)
       \/ At4(s, "readNeg", {"writeMethod"}, <<>>, <<>>)
       \/ At4(s, "readNeg", {"readReq"}, <<"none">>, <<>>)
       \/ At4(s, "readNeg", {"readAuth"}, <<"userpass">>, <<>>)
       \/ At4(s, "writeAuth", {"readAuth"}, <<>>, <<>>)
       \/ At4(s, "readAuth", {"readAuth"}, <<>>, <<"auth">>)
       \/ At4(s, "readAuth", {"auth", "put", "writeStatus"}, <<>>, <<>>)
       \/ At4(s, "readAuth", {"readReq"}, <<"accepted">>, <<>>)
       \/ At4(s, "writeReq", {"readReq"}, <<>>, <<>>)
       \/ At4(s, "readReply", {"readReq"}, <<>>, <<"request">>)
       \/ At4(s, "readReply", {"dial", "reply"}, <<>>, <<>>)

\* The reply is under way; the handler may have closed its side meanwhile.
Answered(s) ==
    /\ client[s] = "readReply" /\ server[s] \in {"tunnel", "returned"}
    /\ end[<<"cl", s>>] = "open" /\ buf[<<"cl", s>>] = <<"success">>

Refused(s) ==
    client[s] # "idle" /\ target[s] = "refused" /\ server[s] \in {"replyErr", "returned"}

Served(s) ==
    \/ lost[s] \/ Refused(s)
    \/ client[s] = "idle" /\ Before(s)
    \/ Talking(s) \/ Answered(s)
    \/ client[s] \in {"open", "closed"}

ServedInv == \A s \in Streams : Connects(s) => Served(s)

\* What a step of one stream may not do to another one, for these.
SameTarget(j) == Same(j) /\ target'[j] = target[j] /\ lost'[j] = lost[j]

LEMMA TargetFrame ==
    ASSUME TypeOK, NEW s \in Streams, StreamStep(s), NEW j \in Streams, j # s
    PROVE  SameTarget(j)
<1>1. Same(j)
  BY Frame
<1>2. target'[j] = target[j] /\ lost'[j] = lost[j]
  <2> USE DEF TypeOK, serverVars
  <2>1. CASE ClientStep(s)
    BY <2>1 DEF ClientStep, ClientWrite, ReadMethod, ReadStatus, ReadReply, ClientIOFails
  <2>2. CASE ServerStep(s)
    BY <2>2 DEF ServerStep, Precheck, ServerRead, ServerRefuses, WriteMethod, Auth, PutSession, WriteStatus,
       WriteDenied, NegotiateIOFails, RequestIOFails, DialTarget, DialTargetFails, ReplyErr, Reply,
       Return, PacketLoopEnds
  <2>3. CASE Environment(s)
    BY <2>3 DEF Environment, NewStream, NewStreamFails, ClientClose, TargetEnds, PacketIn, NewForeign,
     ForeignWrite, ForeignStops
  <2>4. CASE \E d \in {"up", "down"} : ForwardEnds(s, d)
    BY <2>4 DEF ForwardEnds
  <2> QED BY <2>1, <2>2, <2>3, <2>4 DEF StreamStep
<1> QED BY <1>1, <1>2 DEF SameTarget

LEMMA FrameServed ==
    ASSUME NEW j \in Streams, SameTarget(j), Served(j)
    PROVE  Served(j)'
  BY DEF SameTarget, Same, Served, Refused, Before, Talking, Answered, At4, Sides

\* Nothing makes up for a lost stream, and only a lost or refused one excuses.
LEMMA LostForGood ==
    ASSUME TypeOK, NEW s \in Streams, StreamStep(s), lost[s]
    PROVE  lost'[s]
<1> USE DEF TypeOK, serverVars
<1>1. CASE ClientStep(s)
  BY <1>1 DEF ClientStep, ClientWrite, ReadMethod, ReadStatus, ReadReply, ClientIOFails
<1>2. CASE ServerStep(s)
  BY <1>2 DEF ServerStep, Precheck, ServerRead, ServerRefuses, WriteMethod, Auth, PutSession, WriteStatus,
     WriteDenied, NegotiateIOFails, RequestIOFails, DialTarget, DialTargetFails, ReplyErr, Reply,
     Return, PacketLoopEnds
<1>3. CASE Environment(s)
  BY <1>3 DEF Environment, NewStream, NewStreamFails, ClientClose, TargetEnds, PacketIn, NewForeign,
     ForeignWrite, ForeignStops
<1>4. CASE \E d \in {"up", "down"} : ForwardEnds(s, d)
  BY <1>4 DEF ForwardEnds
<1> QED BY <1>1, <1>2, <1>3, <1>4 DEF StreamStep

\* Steps of the client: what it reads is what it waits for.
LEMMA ClientServed ==
    ASSUME TypeOK, NEW s \in Streams, Connects(s), Served(s), ~lost[s], ClientStep(s)
    PROVE  Served(s)'
<1> USE DEF TypeOK, Ends, Sides, serverVars
<1>r. CASE Refused(s)
  BY <1>r DEF Refused, Served, To, ClientStep, ClientWrite, ReadMethod, ReadStatus, ReadReply, ClientIOFails
<1>n. client[s] \notin {"idle", "open", "closed"}
  BY DEF ClientStep, ClientWrite, ReadMethod, ReadStatus, ReadReply, ClientIOFails
<1> SUFFICES ASSUME Talking(s) \/ Answered(s) PROVE Served(s)'
  BY <1>r, <1>n DEF Served
<1>1. CASE ClientWrite(s)
  <2>1. Talking(s) /\ buf[<<"cl", s>>] = <<>> /\ buf[<<"sv", s>>] = <<>>
    BY <1>1 DEF ClientWrite, Talking, Answered, At4
  <2>2. CASE client[s] = "writeNeg"
    <3>1. Write("cl", s, "neg") /\ client'[s] = "readNeg"
      BY <1>1, <2>2 DEF ClientWrite, To
    <3>2. buf'[<<"sv", s>>] = <<"neg">> /\ buf'[<<"cl", s>>] = <<>>
      BY <2>1, <3>1, WriteEffect DEF Item, Other, Talking
    <3> QED BY <1>1, <2>1, <2>2, <3>1, <3>2 DEF ClientWrite, Served, Talking, At4
  <2>3. CASE client[s] = "writeAuth"
    <3>1. Write("cl", s, "auth") /\ client'[s] = "readAuth"
      BY <1>1, <2>3 DEF ClientWrite, To
    <3>2. buf'[<<"sv", s>>] = <<"auth">> /\ buf'[<<"cl", s>>] = <<>>
      BY <2>1, <3>1, WriteEffect DEF Item, Other, Talking
    <3> QED BY <1>1, <2>1, <2>3, <3>1, <3>2 DEF ClientWrite, Served, Talking, At4
  <2>4. CASE client[s] = "writeReq"
    <3>1. Write("cl", s, "request") /\ client'[s] = "readReply"
      BY <1>1, <2>4 DEF ClientWrite, To
    <3>2. buf'[<<"sv", s>>] = <<"request">> /\ buf'[<<"cl", s>>] = <<>>
      BY <2>1, <3>1, WriteEffect DEF Item, Other, Talking
    <3> QED BY <1>1, <2>1, <2>4, <3>1, <3>2 DEF ClientWrite, Served, Talking, At4
  <2> QED BY <1>1, <2>2, <2>3, <2>4 DEF ClientWrite
<1>2. CASE ReadMethod(s)
  <2>1. /\ Talking(s) /\ client[s] = "readNeg" /\ buf[<<"sv", s>>] = <<>>
        /\ \/ server[s] = "readReq" /\ buf[<<"cl", s>>] = <<"none">>
           \/ server[s] = "readAuth" /\ buf[<<"cl", s>>] = <<"userpass">>
    BY <1>2 DEF ReadMethod, CanRead, Talking, Answered, At4
  <2>2. PICK m \in {"none", "userpass"} :
           /\ buf[<<"cl", s>>] = <<m>>
           /\ server[s] = IF m = "userpass" THEN "readAuth" ELSE "readReq"
    BY <2>1
  <2>3. First("cl", s) = m /\ Acceptable(s, m)
    BY <2>2, OneItem DEF First, Item, Acceptable, Connects
  <2>4. /\ Take("cl", s) /\ end' = end
        /\ client'[s] = IF m = "userpass" THEN "writeAuth" ELSE "writeReq"
    BY <1>2, <2>3 DEF ReadMethod, To
  <2>5. buf'[<<"cl", s>>] = <<>> /\ buf'[<<"sv", s>>] = <<>>
    BY <2>1, <2>2, <2>4, TakeEffect DEF Item, Other
  <2> QED BY <1>2, <2>1, <2>2, <2>4, <2>5 DEF ReadMethod, Served, Talking, At4
<1>3. CASE ReadStatus(s)
  <2>1. /\ Talking(s) /\ server[s] = "readReq" /\ buf[<<"cl", s>>] = <<"accepted">>
        /\ buf[<<"sv", s>>] = <<>>
    BY <1>3 DEF ReadStatus, CanRead, Talking, Answered, At4
  <2>2. First("cl", s) = "accepted" /\ buf'[<<"cl", s>>] = <<>> /\ buf'[<<"sv", s>>] = <<>>
    BY <1>3, <2>1, TakeEffect DEF ReadStatus, Item, Other
  <2>3. client'[s] = "writeReq"
    BY <1>3, <2>2 DEF ReadStatus, To
  <2> QED BY <1>3, <2>1, <2>2, <2>3 DEF ReadStatus, Served, Talking, At4
<1>4. CASE ReadReply(s)
  <2>1. buf[<<"cl", s>>] = <<"success">>
    BY <1>4 DEF ReadReply, CanRead, Talking, Answered, At4
  <2>2. First("cl", s) = "success"
    BY <2>1, OneItem DEF First, Item
  <2> QED BY <1>4, <2>2 DEF ReadReply, To, Served
<1>5. CASE ClientIOFails(s)
  <2>1. <<"success">> # <<>>
    OBVIOUS
  <2>2. ~Talking(s)
    BY <1>5 DEF ClientIOFails, ReadFails, WriteFails, Other, Talking, At4
  <2>3. ~Answered(s)
    BY <1>5, <2>1 DEF ClientIOFails, ReadFails, WriteFails, Other, Answered
  <2> QED BY <2>2, <2>3
<1> QED BY <1>1, <1>2, <1>3, <1>4, <1>5 DEF ClientStep

\* Steps of the handler: whether it finds a session or not, it says what the
\* client understands.
LEMMA ServerServed ==
    ASSUME TypeOK, NEW s \in Streams, Connects(s), Served(s), ~lost[s], ServerStep(s)
    PROVE  Served(s)'
<1> USE DEF TypeOK, Ends, Sides, At, peerVars
<1>c. client' = client
  BY DEF ServerStep, Precheck, ServerRead, ServerRefuses, WriteMethod, Auth, PutSession, WriteStatus,
     WriteDenied, NegotiateIOFails, RequestIOFails, DialTarget, DialTargetFails, ReplyErr, Reply,
     Return, PacketLoopEnds
<1>o. CASE client[s] \in {"open", "closed"}
  BY <1>c, <1>o DEF Served
<1>r. CASE Refused(s)
  BY <1>r DEF Refused, Served, ServerStep, Precheck, ServerRead, ServerRefuses, WriteMethod, Auth, PutSession,
     WriteStatus, WriteDenied, NegotiateIOFails, RequestIOFails, DialTarget, DialTargetFails,
     ReplyErr, Reply, Return, PacketLoopEnds
<1>b. server[s] # "none"
  BY DEF ServerStep, Precheck, ServerRead, ServerRefuses, WriteMethod, Auth, PutSession, WriteStatus,
     WriteDenied, NegotiateIOFails, RequestIOFails, DialTarget, DialTargetFails, ReplyErr, Reply,
     Return, PacketLoopEnds
<1> SUFFICES ASSUME Talking(s) \/ Answered(s) PROVE Served(s)'
  BY <1>b, <1>o, <1>r DEF Served, Before
<1>1. CASE Precheck(s)
  BY <1>1 DEF Precheck, Served, Talking, Answered, At4
<1>2. CASE ServerRead(s)
  <2>1. /\ Talking(s) /\ buf[<<"cl", s>>] = <<>>
        /\ \/ server[s] = "readNeg" /\ client[s] = "readNeg" /\ buf[<<"sv", s>>] = <<"neg">>
           \/ server[s] = "readAuth" /\ client[s] = "readAuth" /\ buf[<<"sv", s>>] = <<"auth">>
           \/ server[s] = "readReq" /\ client[s] = "readReply" /\ buf[<<"sv", s>>] = <<"request">>
    BY <1>2 DEF ServerRead, CanRead, Talking, Answered, At4
  <2>2. buf'[<<"cl", s>>] = <<>> /\ buf'[<<"sv", s>>] = <<>>
    BY <1>2, <2>1, TakeEffect DEF ServerRead, Item, Other
  <2> QED BY <1>2, <2>1, <2>2 DEF ServerRead, Connects, Served, Talking, At4
<1>f. ~ServerRefuses(s)
  <2> SUFFICES ASSUME ServerRefuses(s) PROVE FALSE
    OBVIOUS
  <2>1. \/ server[s] = "readNeg" /\ buf[<<"sv", s>>] = <<"neg">>
        \/ server[s] = "readAuth" /\ buf[<<"sv", s>>] = <<"auth">>
        \/ server[s] = "readReq" /\ buf[<<"sv", s>>] = <<"request">>
    BY DEF ServerRefuses, CanRead, Talking, Answered, At4
  <2> QED BY <2>1, OneItem DEF ServerRefuses, First, Expected, Item
<1>3. CASE WriteMethod(s)
  <2>1. /\ Talking(s) /\ buf[<<"cl", s>>] = <<>> /\ buf[<<"sv", s>>] = <<>>
        /\ server[s] = "writeMethod" /\ client[s] = "readNeg"
    BY <1>3 DEF WriteMethod, Talking, Answered, At4
  <2>2. PICK m \in {"userpass", "none"} : m = IF needAuth[s] THEN "userpass" ELSE "none"
    OBVIOUS
  <2>3. Write("sv", s, m) /\ server'[s] = IF m = "userpass" THEN "readAuth" ELSE "readReq"
    BY <1>3, <2>2 DEF WriteMethod
  <2>4. buf'[<<"cl", s>>] = <<m>> /\ buf'[<<"sv", s>>] = <<>>
    BY <2>1, <2>3, WriteEffect DEF Item, Other, Talking
  <2> QED BY <1>3, <2>1, <2>2, <2>3, <2>4 DEF WriteMethod, Served, Talking, At4
<1>4. CASE Auth(s) \/ PutSession(s)
  BY <1>4 DEF Auth, PutSession, Connects, Untrusted, Served, Talking, Answered, At4
<1>5. CASE WriteStatus(s)
  <2>1. /\ Talking(s) /\ buf[<<"cl", s>>] = <<>> /\ buf[<<"sv", s>>] = <<>> /\ client[s] = "readAuth"
    BY <1>5 DEF WriteStatus, Talking, Answered, At4
  <2>2. buf'[<<"cl", s>>] = <<"accepted">> /\ buf'[<<"sv", s>>] = <<>>
    BY <1>5, <2>1, WriteEffect DEF WriteStatus, Item, Other, Talking
  <2> QED BY <1>5, <2>1, <2>2 DEF WriteStatus, Served, Talking, At4
<1>6. CASE WriteDenied(s) \/ ReplyErr(s) \/ PacketLoopEnds(s)
  BY <1>6 DEF WriteDenied, ReplyErr, PacketLoopEnds, Talking, Answered, At4
<1>7. CASE NegotiateIOFails(s)
  BY <1>7 DEF NegotiateIOFails, ReadFails, WriteFails, Other, Talking, Answered, At4
<1>8. CASE RequestIOFails(s)
  BY <1>8 DEF RequestIOFails, ReadFails, Other, Talking, Answered, At4
<1>9. CASE DialTarget(s)
  BY <1>9 DEF DialTarget, Served, Talking, Answered, At4
<1>10. CASE DialTargetFails(s)
  BY <1>10 DEF DialTargetFails, Served, Refused, Talking, Answered, At4
<1>11. CASE Reply(s)
  <2>1. /\ Talking(s) /\ buf[<<"cl", s>>] = <<>> /\ client[s] = "readReply"
    BY <1>11 DEF Reply, Talking, Answered, At4
  <2>2. buf'[<<"cl", s>>] = <<"success">>
    BY <1>11, <2>1, WriteEffect DEF Reply, Item, Other, Talking
  <2> QED BY <1>11, <2>1, <2>2 DEF Reply, Served, Talking, Answered
<1>12. CASE Return(s)
  <2>1. Answered(s)
    BY <1>12 DEF Return, WriteFails, Other, Talking, At4
  <2> QED BY <1>12, <2>1 DEF Return, Close, Served, Answered
<1> QED BY <1>1, <1>2, <1>f, <1>3, <1>4, <1>5, <1>6, <1>7, <1>8, <1>9, <1>10, <1>11, <1>12 DEF ServerStep

\* Steps of the user and of the target.
LEMMA EnvironmentServed ==
    ASSUME TypeOK, NEW s \in Streams, Connects(s), Served(s), ~lost[s],
           Environment(s) \/ \E d \in {"up", "down"} : ForwardEnds(s, d)
    PROVE  Served(s)'
<1> USE DEF TypeOK, Ends, Sides, serverVars
<1>1. CASE NewStream(s)
  <2>1. Before(s)
    BY <1>1 DEF NewStream, Served, Refused, Talking, Answered, At4
  <2> QED BY <1>1, <2>1 DEF NewStream, To, Before, Served, Talking, At4
<1>2. CASE NewStreamFails(s)
  BY <1>2 DEF NewStreamFails, Served
<1>3. CASE ClientClose(s)
  BY <1>3 DEF ClientClose, To, Served
<1>4. CASE TargetEnds(s)
  BY <1>4 DEF TargetEnds, Served, Refused, Before, Talking, Answered, At4
<1>5. CASE PacketIn(s)
  BY <1>5 DEF PacketIn, Served, Refused, Before, Talking, Answered, At4
<1>6. CASE \E d \in {"up", "down"} : ForwardEnds(s, d)
  BY <1>6, ZenonT(60) DEF ForwardEnds, Served, Refused, Before, Talking, Answered, At4
<1>7. ~NewForeign(s)
  BY ForeignAssumption DEF NewForeign, Connects, Untrusted
<1>8. CASE ForeignWrite(s) \/ ForeignStops(s)
  BY <1>8 DEF ForeignWrite, ForeignStops, Served, Refused, Before, Talking, Answered, At4
<1> QED BY <1>1, <1>2, <1>3, <1>4, <1>5, <1>6, <1>7, <1>8 DEF Environment

\* The stream of a lost connection is lost, and the others are as they were.
LEMMA DisconnectServed ==
    ASSUME TypeOK, NEW p \in Peers, Disconnect(p), NEW j \in Streams, Served(j)
    PROVE  Served(j)'
<1> DEFINE hit == dial[j].peer = p /\ end[<<"cl", j>>] # "none"
<1>1. /\ client'[j] = client[j] /\ server'[j] = server[j] /\ needAuth'[j] = needAuth[j]
      /\ target'[j] = target[j] /\ lost'[j] = (lost[j] \/ hit)
      /\ \A x \in Sides : end'[<<x, j>>] = IF hit THEN "closed" ELSE end[<<x, j>>]
      /\ \A x \in Sides : buf'[<<x, j>>] = IF hit THEN <<>> ELSE buf[<<x, j>>]
  BY DEF Disconnect, Ends, serverVars
<1>2. CASE ~hit
  <2>1. lost'[j] = lost[j]
    BY <1>1, <1>2 DEF TypeOK
  <2> QED BY <1>1, <1>2, <2>1, FrameServed DEF SameTarget, Same
<1>3. CASE hit
  BY <1>1, <1>3 DEF Served
<1> QED BY <1>2, <1>3

LEMMA ServedInitially == Init => ServedInv
<1> SUFFICES ASSUME Init, NEW s \in Streams PROVE Served(s)
  BY DEF ServedInv
<1> QED BY DEF Init, Served, Before, Ends, Sides

LEMMA ServedInductive == TypeOK /\ ServedInv /\ [Next]_vars => ServedInv'
<1> SUFFICES ASSUME TypeOK, ServedInv, [Next]_vars PROVE ServedInv'
  OBVIOUS
<1>1. ASSUME NEW s \in Streams, StreamStep(s), NEW j \in Streams, Connects(j)' PROVE Served(j)'
  <2>1. Connects(j) /\ Served(j)
    BY <1>1, StreamFrame DEF ServedInv, Connects, Untrusted
  <2>2. CASE j # s
    BY <1>1, <2>1, <2>2, TargetFrame, FrameServed
  <2>3. CASE j = s /\ lost[s]
    BY <1>1, <2>3, LostForGood DEF Served
  <2>4. CASE j = s /\ ~lost[s]
    BY <1>1, <2>1, <2>4, ClientServed, ServerServed, EnvironmentServed DEF StreamStep
  <2> QED BY <2>2, <2>3, <2>4
<1>2. ASSUME NEW p \in Peers, Disconnect(p) \/ RemovePeer(p), NEW j \in Streams, Connects(j)'
      PROVE  Served(j)'
  <2>1. Connects(j) /\ Served(j)
    BY <1>2 DEF Disconnect, RemovePeer, ServedInv, Connects, Untrusted
  <2>2. CASE RemovePeer(p)
    BY <2>1, <2>2, FrameServed DEF RemovePeer, SameTarget, Same, serverVars
  <2> QED BY <1>2, <2>1, <2>2, DisconnectServed
<1>3. ASSUME UNCHANGED vars, NEW j \in Streams, Connects(j)' PROVE Served(j)'
  <2>1. Connects(j) /\ Served(j) /\ SameTarget(j)
    BY <1>3 DEF vars, ServedInv, Connects, Untrusted, SameTarget, Same
  <2> QED BY <2>1, FrameServed
<1> QED BY <1>1, <1>2, <1>3 DEF Next, StreamStep, ServedInv

-----------------------------------------------------------------------------
\* The state of the SOCKS5 service has its types, for any number of peers,
\* dials and lost connections.
THEOREM Typed == Spec => []TypeOK
<1>1. Inv => TypeOK
  BY DEF Inv
<1> QED BY Initially, Inductive, <1>1, PTL DEF Spec

\* Whatever peers that do not run client.go write, and however streams fail, the
\* handler of socks5/server.go stores a session only for a peer whose password was
\* accepted, and dials a target or opens a UDP socket for another one only on a
\* stream that peer had stopped reading.
THEOREM ServesOnlyTrusted == Spec => []OnlyTrusted
<1>1. Inv => OnlyTrusted
  BY DEF Inv, OnlyTrusted, Untrusted, Kept, Before, Dead, Live, At4, Unserved, Apart, Serving
<1> QED BY Initially, Inductive, <1>1, PTL DEF Spec

\* dialContext of a peer with the right password fails only when its connection
\* is lost or the target refuses: whatever session precheck finds, and whoever
\* stores or removes it meanwhile, client and handler agree on the method.
THEOREM ConnectsUnlessCause == Spec => []ConnectFailsForCause
<1>1. ServedInv => ConnectFailsForCause
  BY DEF ServedInv, Connects, Untrusted, Served, Refused, Before, Talking, Answered, At4,
     ConnectFailsForCause, FailsForCause
<1> QED BY Typed, ServedInitially, ServedInductive, <1>1, PTL DEF Spec
=============================================================================
