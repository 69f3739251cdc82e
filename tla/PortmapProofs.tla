---------------------------- MODULE PortmapProofs ----------------------------
(***************************************************************************)
(* Proofs about the port-mapping relay, for any set of connections and any *)
(* number of chunks.  Inv is the inductive invariant: the safety           *)
(* properties of Portmap, strengthened by how far the goroutines of the    *)
(* two sides can be apart (Phase) and by what is under way between them    *)
(* (Flow).                                                                 *)
(***************************************************************************)
EXTENDS Portmap, SequenceTheorems, TLAPS

\* The target has sent more than white space.
Spoken(k) == \E i \in 1 .. sent[<<"sv", k>>] : i \notin Blank

\* How far each goroutine of a connection can be, given the others.
Phase(k) ==
    /\ copier[<<"cl", k>>] # "none" => opener[k] \in {"arm", "done"}
    /\ copier[<<"sv", k>>] # "none" => handler[k] = "serve"
    /\ sess[<<"cl", k>>] => opener[k] \in {"arm", "done"}
    /\ armed[<<"cl", k>>] => opener[k] = "done"
    /\ armed[<<"sv", k>>] => handler[k] = "serve"
    /\ opener[k] \in {"wait", "open"} => handler[k] = "none"
    /\ opener[k] = "writeHs" => handler[k] \in {"readHs", "ioerr"}
    /\ opener[k] = "refused" => handler[k] \in {"none", "refused", "addConn", "serve"}
    /\ opener[k] \in {"setSession", "arm", "done"} => handler[k] \in {"addConn", "serve"}
    /\ opener[k] \in {"writeHs", "readRsp", "setSession"} => end[<<"cl", k>>] = "open"
    /\ opener[k] = "refused" /\ handler[k] \in {"addConn", "serve"} => Spoken(k)
    /\ lost[<<"sv", k>>] = 0
    /\ opener[k] \notin {"setSession", "arm", "done"} => lost[<<"cl", k>>] = 0

\* What the poller has taken from the connection of a side.
Polled(x, k) ==
    /\ read[<<x, k>>] <= sent[<<x, k>>]
    /\ poll[<<x, k>>] = "write" => armed[<<x, k>>] /\ read[<<x, k>>] >= 1
    /\ ~armed[<<x, k>>] => read[<<x, k>>] = 0

\* The control messages: where the handshake and the response can be.
Control(k) ==
    /\ opener[k] \in {"wait", "open", "writeHs"} => buf[<<"sv", k>>] = <<>>
    /\ handler[k] \in {"none", "readHs", "handle", "dial", "writeRsp", "ioerr"} =>
          buf[<<"cl", k>>] = <<>>
    /\ handler[k] = "readHs" => buf[<<"sv", k>>] \in {<<>>, <<Hs>>}
    /\ \A i \in 1 .. Len(buf[<<"cl", k>>]) :
          buf[<<"cl", k>>][i] = Ok => handler[k] \in {"addConn", "serve"}
    /\ opener[k] = "readRsp" /\ handler[k] \in {"addConn", "serve"} =>
          Len(buf[<<"cl", k>>]) >= 1 /\ buf[<<"cl", k>>][1] = Ok

\* The control messages that may still be ahead of the payload for side x.
Ahead(x, k) == IF x = "cl" /\ opener[k] = "readRsp" THEN 1 ELSE 0

\* Side x relays, or is about to, and still reads its stream.
Relaying(x, k) ==
    /\ end[<<x, k>>] = "open"
    /\ copier[<<x, k>>] \in {"none", "copy"}
    /\ handler[k] \in {"addConn", "serve"}
    /\ x = "cl" => opener[k] \in {"readRsp", "setSession", "arm", "done"}

\* After the first d chunks, g has been written to an outer peer and b is on its
\* way to it, behind a control messages; the other side has read r chunks, its
\* poller is in state p and its connection in state c.
Continues(g, d, b, a, r, p, c) ==
    LET n == d + Len(g) + Len(b) - a
    IN  /\ \A i \in 1 .. Len(b) : i > a => b[i] = d + Len(g) + i - a
        /\ p = "write" => n = r - 1
        /\ p = "idle" => n <= r
        /\ p = "idle" /\ c = "open" => n = r

\* The chunks for x that are under way follow those written to its outer peer,
\* up to the last one the poller of the other side has read.
InFlight(x, k) ==
    Continues(got[<<x, k>>], lost[<<x, k>>], buf[<<x, k>>], Ahead(x, k),
              read[<<Other(x), k>>], poll[<<Other(x), k>>], conn[<<Other(x), k>>])

\* The chunks from the one after d on, in order, up to chunk r at most.
InOrder(g, d, r) == Len(g) + d <= r /\ \A i \in 1 .. Len(g) : g[i] = d + i

\* What has been written to the outer peer of x, and what is on its way.
Flow(x, k) ==
    /\ InOrder(got[<<x, k>>], lost[<<x, k>>], read[<<Other(x), k>>])
    /\ 1 .. lost[<<x, k>>] \subseteq Blank
    /\ copier[<<x, k>>] = "none" => got[<<x, k>>] = <<>>
    /\ x = "sv" /\ handler[k] \in {"handle", "dial", "writeRsp"} => buf[<<x, k>>] = <<>>
    /\ Relaying(x, k) => InFlight(x, k)

\* A goroutine will close what side x has open.
Owned(x, k) ==
    /\ end[<<x, k>>] = "open" => StreamOwner(x, k)
    /\ conn[<<x, k>>] = "open" => ConnOwner(x, k)

ConnInv(k) ==
    /\ Phase(k) /\ Control(k)
    /\ \A x \in Sides : Polled(x, k) /\ Flow(x, k) /\ Owned(x, k)

Inv == TypeOK /\ \A k \in Conns : ConnInv(k)
-----------------------------------------------------------------------------
(* Types.                                                                   *)

\* What is left of a sequence after its first n elements.
LEMMA Dropped ==
    ASSUME NEW S, NEW s \in Seq(S), NEW n \in 1 .. Len(s)
    PROVE  /\ SubSeq(s, n + 1, Len(s)) \in Seq(S)
           /\ Len(SubSeq(s, n + 1, Len(s))) = Len(s) - n
           /\ \A i \in 1 .. Len(s) - n : SubSeq(s, n + 1, Len(s))[i] = s[n + i]
  OBVIOUS

\* The first element of a sequence that has one.
LEMMA Nonempty ==
    ASSUME NEW S, NEW s \in Seq(S), s # <<>>
    PROVE  1 \in 1 .. Len(s) /\ Head(s) = s[1] /\ s[1] \in S
  OBVIOUS

\* Reading just the first element.
LEMMA DroppedOne ==
    ASSUME NEW S, NEW s \in Seq(S), s # <<>>
    PROVE  /\ SubSeq(s, 1, 1) = <<s[1]>>
           /\ SubSeq(s, 1 + 1, Len(s)) \in Seq(S)
           /\ Len(SubSeq(s, 1 + 1, Len(s))) = Len(s) - 1
           /\ \A i \in 1 .. Len(s) - 1 : SubSeq(s, 1 + 1, Len(s))[i] = s[i + 1]
<1> DEFINE t == SubSeq(s, 1, 1)
           u == <<s[1]>>
<1>1. 1 \in 1 .. Len(s) /\ Len(s) \in Nat
  BY Nonempty
<1>2. t \in Seq(S) /\ Len(t) = 1 /\ t[1] = s[1]
  BY <1>1
<1>3. u \in Seq(S) /\ Len(u) = 1 /\ u[1] = s[1]
  BY <1>1
<1>4. t = u
  <2> HIDE DEF t, u
  <2>1. \A i \in 1 .. Len(t) : t[i] = u[i]
    BY <1>2, <1>3
  <2> QED BY <1>2, <1>3, <2>1, SeqEqual
<1> DEFINE v == SubSeq(s, 1 + 1, Len(s))
<1>5. v \in Seq(S) /\ Len(v) = Len(s) - 1 /\ \A i \in 1 .. Len(s) - 1 : v[i] = s[1 + i]
  BY <1>1, Dropped, Zenon
<1>6. \A i \in 1 .. Len(s) - 1 : 1 + i = i + 1
  BY <1>1
<1>7. \A i \in 1 .. Len(s) - 1 : v[i] = s[i + 1]
  <2> HIDE DEF v
  <2> QED BY <1>5, <1>6, Zenon
<1> QED BY <1>4, <1>5, <1>7

\* Appending keeps the first element.
LEMMA AppendKeeps ==
    ASSUME NEW S, NEW s \in Seq(S), NEW e \in S, Len(s) >= 1
    PROVE  Len(Append(s, e)) >= 1 /\ Append(s, e)[1] = s[1]
<1>1. Len(s) \in Nat /\ 1 \in 1 .. Len(s)
  OBVIOUS
<1> QED BY <1>1

\* Appending to the empty sequence.
LEMMA AppendEmpty == ASSUME NEW S, NEW e \in S PROVE Append(<<>>, e) = <<e>>
  OBVIOUS

\* A Write of an item leaves streams of items.
LEMMA WriteType ==
    ASSUME NEW x \in Sides, NEW k \in Conns, NEW i \in Item,
           buf \in [Ends -> Seq(Item)], WriteOk(x, k, i)
    PROVE  buf' \in [Ends -> Seq(Item)]
  BY DEF WriteOk, Ends, Sides, Other

\* A Read leaves streams of items.
LEMMA ConsumeType ==
    ASSUME NEW x \in Sides, NEW k \in Conns, NEW n \in 1 .. Len(buf[<<x, k>>]),
           buf \in [Ends -> Seq(Item)], Consume(x, k, n)
    PROVE  buf' \in [Ends -> Seq(Item)]
<1>1. SubSeq(buf[<<x, k>>], n + 1, Len(buf[<<x, k>>])) \in Seq(Item)
  BY Dropped DEF Ends
<1> QED BY <1>1 DEF Consume, Ends

\* The control messages and the chunks the poller reads are items.
LEMMA ItemType == {Hs, Ok, Err} \subseteq Item /\ Chunk \subseteq Item
  BY DEF Item

-----------------------------------------------------------------------------
(* What the steps of the relay do to the chunks that are under way.         *)

\* What a Read that returned one ok response has read.
LEMMA ReadOk ==
    ASSUME NEW S, NEW s \in Seq(S), NEW n \in 1 .. Len(s), OneOk(SubSeq(s, 1, n))
    PROVE  s[1] = Ok /\ 1 \in 1 .. Len(s) /\ \A i \in 2 .. n : s[i] \in Blank
<1> DEFINE t == SubSeq(s, 1, n)
<1>1. Len(t) = n /\ \A i \in 1 .. n : t[i] = s[i]
  OBVIOUS
<1>2. 1 \in 1 .. Len(s) /\ 1 \in 1 .. n /\ \A i \in 2 .. n : i \in 1 .. n
  OBVIOUS
<1>3. t[1] = Ok /\ \A i \in 2 .. Len(t) : t[i] \in Blank
  BY DEF OneOk
<1> HIDE DEF t
<1> QED BY <1>1, <1>2, <1>3

\* ... and a Read that begins with one and is not.
LEMMA ReadMore ==
    ASSUME NEW S, NEW s \in Seq(S), NEW n \in 1 .. Len(s), ~OneOk(SubSeq(s, 1, n)), s[1] = Ok
    PROVE  \E i \in 2 .. n : s[i] \notin Blank
<1> DEFINE t == SubSeq(s, 1, n)
<1>1. Len(t) = n /\ \A i \in 1 .. n : t[i] = s[i]
  OBVIOUS
<1>2. 1 \in 1 .. n /\ (\A i \in 2 .. n : i \in 1 .. n) /\ n > 0
  OBVIOUS
<1>3. ~(Len(t) > 0 /\ t[1] = Ok /\ \A i \in 2 .. Len(t) : t[i] \in Blank)
  BY DEF OneOk
<1> HIDE DEF t
<1> QED BY <1>1, <1>2, <1>3

\* Before the first chunk.
LEMMA FlowStart ==
    ASSUME NEW c, NEW e
    PROVE  Continues(<<>>, 0, <<e>>, 1, 0, "idle", c) /\ Continues(<<>>, 0, <<>>, 0, 0, "idle", c)
  BY DEF Continues

\* The poller reads a chunk: to write it, or to drop it and close.
LEMMA FlowRead ==
    ASSUME NEW S, NEW g \in Seq(S), NEW d \in Nat, NEW b \in Seq(S), NEW a \in Nat, NEW r \in Nat,
           Continues(g, d, b, a, r, "idle", "open")
    PROVE  /\ Continues(g, d, b, a, r + 1, "write", "open")
           /\ Continues(g, d, b, a, r + 1, "idle", "closed")
  BY DEF Continues

\* onConnData writes the chunk it has read.
LEMMA FlowWrite ==
    ASSUME NEW S, NEW g \in Seq(S), NEW d \in Nat, NEW b \in Seq(S), NEW a \in Nat,
           NEW r \in S, r \in Nat, a <= Len(b), NEW c, Continues(g, d, b, a, r, "write", c)
    PROVE  Continues(g, d, Append(b, r), a, r, "idle", c)
<1>1. /\ Len(Append(b, r)) = Len(b) + 1 /\ Append(b, r)[Len(b) + 1] = r
      /\ \A i \in 1 .. Len(b) : Append(b, r)[i] = b[i]
      /\ Len(g) \in Nat /\ Len(b) \in Nat
  OBVIOUS
<1> QED BY <1>1 DEF Continues

\* The connection is closed, whatever onConnData was about to write.
LEMMA FlowStop ==
    ASSUME NEW S, NEW g \in Seq(S), NEW d \in Nat, NEW b \in Seq(S), NEW a \in Nat, NEW r \in Nat,
           NEW p \in {"idle", "write"}, NEW c, Continues(g, d, b, a, r, p, c)
    PROVE  Continues(g, d, b, a, r, "idle", "closed") /\ Continues(g, d, b, a, r, p, "closed")
  BY DEF Continues

\* The client reads the response, which is ahead of the payload, and with it
\* the first n - 1 chunks.
LEMMA FlowAck ==
    ASSUME NEW S, NEW b \in Seq(S), NEW n \in 1 .. Len(b), NEW r \in Nat,
           NEW p \in {"idle", "write"}, NEW c, Continues(<<>>, 0, b, 1, r, p, c)
    PROVE  /\ Continues(<<>>, n - 1, SubSeq(b, n + 1, Len(b)), 0, r, p, c)
           /\ InOrder(<<>>, n - 1, r)
           /\ \A i \in 2 .. n : b[i] = i - 1
<1> DEFINE t == SubSeq(b, n + 1, Len(b))
<1>1. /\ Len(t) = Len(b) - n /\ Len(b) \in Nat /\ t \in Seq(S)
      /\ \A i \in 1 .. Len(b) - n : t[i] = b[n + i]
  BY Dropped
<1>2. /\ \A i \in 2 .. Len(b) : b[i] = i - 1
      /\ p = "write" => Len(b) - 1 = r - 1
      /\ p = "idle" => Len(b) - 1 <= r
      /\ p = "idle" /\ c = "open" => Len(b) - 1 = r
  BY <1>1 DEF Continues
<1> HIDE DEF t
<1>3. \A i \in 1 .. Len(t) : t[i] = (n - 1) + i
  BY <1>1, <1>2
<1>4. (n - 1) + 0 + Len(t) - 0 = Len(b) - 1
  BY <1>1
<1>5. Continues(<<>>, n - 1, t, 0, r, p, c)
  <2>1. \A i \in 1 .. Len(t) : i > 0 => t[i] = (n - 1) + 0 + i - 0
    BY <1>1, <1>3
  <2>2. Len(<<>>) = 0
    OBVIOUS
  <2> QED BY <1>2, <1>4, <2>1, <2>2 DEF Continues
<1>6. InOrder(<<>>, n - 1, r)
  BY <1>1, <1>2 DEF InOrder
<1>7. \A i \in 2 .. n : b[i] = i - 1
  BY <1>1, <1>2
<1> QED BY <1>5, <1>6, <1>7 DEF t

\* io.Copy moves a chunk from the stream to the connection.
LEMMA FlowCopy ==
    ASSUME NEW S, NEW g \in Seq(S), NEW d \in Nat, NEW b \in Seq(S), b # <<>>, NEW r \in Nat,
           NEW p \in {"idle", "write"}, NEW c, Continues(g, d, b, 0, r, p, c), InOrder(g, d, r)
    PROVE  /\ Continues(Append(g, Head(b)), d, SubSeq(b, 1 + 1, Len(b)), 0, r, p, c)
           /\ InOrder(Append(g, Head(b)), d, r)
<1> DEFINE t == SubSeq(b, 1 + 1, Len(b))
           h == Append(g, Head(b))
<1>1. /\ Len(t) = Len(b) - 1 /\ Len(b) \in Nat /\ Len(g) \in Nat /\ Len(b) >= 1
      /\ \A i \in 1 .. Len(b) - 1 : t[i] = b[i + 1]
  BY DroppedOne, Nonempty
<1>2. /\ Len(h) = Len(g) + 1 /\ h[Len(g) + 1] = b[1]
      /\ \A i \in 1 .. Len(g) : h[i] = g[i]
  BY Nonempty
<1>3. b[1] = d + Len(g) + 1 /\ d + Len(g) + Len(b) <= r
  BY <1>1 DEF Continues
<1>4. \A i \in 1 .. Len(b) : b[i] = d + Len(g) + i
  BY <1>1 DEF Continues
<1>5. /\ p = "write" => d + Len(g) + Len(b) = r - 1
      /\ p = "idle" /\ c = "open" => d + Len(g) + Len(b) = r
  BY <1>1 DEF Continues
<1> HIDE DEF t, h
<1>6. Continues(h, d, t, 0, r, p, c)
  <2>1. \A i \in 1 .. Len(t) : t[i] = d + Len(h) + i
    BY <1>1, <1>2, <1>4
  <2>2. d + Len(h) + Len(t) - 0 = d + Len(g) + Len(b)
    BY <1>1, <1>2
  <2>3. /\ \A i \in 1 .. Len(t) : i > 0 => t[i] = d + Len(h) + i - 0
        /\ d + Len(g) + Len(b) <= r
    BY <1>1, <1>2, <1>3, <2>1
  <2> QED BY <1>5, <2>2, <2>3 DEF Continues
<1>7. InOrder(h, d, r)
  <2>1. Len(h) + d <= r
    BY <1>1, <1>2, <1>3
  <2>2. \A i \in 1 .. Len(g) : g[i] = d + i
    BY DEF InOrder
  <2>3. \A i \in 1 .. Len(h) : i \in 1 .. Len(g) \/ i = Len(g) + 1
    BY <1>1, <1>2
  <2>4. h[Len(g) + 1] = d + (Len(g) + 1)
    BY <1>1, <1>2, <1>3
  <2>5. \A i \in 1 .. Len(h) : h[i] = d + i
    BY <1>2, <2>2, <2>3, <2>4
  <2> QED BY <2>1, <2>5 DEF InOrder
<1> QED BY <1>6, <1>7 DEF t, h

\* More chunks may be read than written.
LEMMA PrefixMore ==
    ASSUME NEW S, NEW g \in Seq(S), NEW d \in Nat, NEW r \in Nat, InOrder(g, d, r)
    PROVE  InOrder(g, d, r + 1)
  BY DEF InOrder

\* Every step preserves the types.
LEMMA TypeStep ==
    ASSUME TypeOK, \A x \in Sides, k \in Conns : Polled(x, k), [Next]_vars
    PROVE  TypeOK'
<1> USE DEF TypeOK, outer, given, nb
<1>0. "cl" \in Sides /\ "sv" \in Sides /\ Ends = Sides \X Conns
  BY DEF Sides, Ends
<1>1. CASE UNCHANGED vars
  BY <1>1 DEF vars
<1>2. ASSUME NEW k \in Conns, OpenerStep(k)
      PROVE  TypeOK'
  <2>1. CASE Accept(k)
    BY <1>0, <2>1 DEF Accept
  <2>2. CASE OpenStream(k)
    BY <1>0, <2>2 DEF OpenStream
  <2>3. CASE OpenStreamFails(k)
    BY <1>0, <2>3 DEF OpenStreamFails, CloseConn
  <2>4. CASE WriteHandshake(k)
    <3>1. buf' \in [Ends -> Seq(Item)]
      BY <1>0, <2>4, WriteType, ItemType DEF WriteHandshake
    <3> QED BY <1>0, <2>4, <3>1 DEF WriteHandshake
  <2>5. CASE HandshakeIOFails(k)
    BY <1>0, <2>5 DEF HandshakeIOFails, CloseConn
  <2>6. CASE ResponseOk(k)
    <3>1. PICK n \in 1 .. Len(buf[<<"cl", k>>]) :
              Consume("cl", k, n) /\ lost' = [lost EXCEPT ![<<"cl", k>>] = n - 1]
      BY <2>6 DEF ResponseOk
    <3>2. buf' \in [Ends -> Seq(Item)]
      BY <1>0, <3>1, ConsumeType
    <3>3. lost' \in [Ends -> Nat]
      <4>1. n - 1 \in Nat
        OBVIOUS
      <4> QED BY <1>0, <3>1, <4>1
    <3> QED BY <1>0, <2>6, <3>2, <3>3 DEF ResponseOk
  <2>7. CASE ResponseBad(k)
    <3>1. buf' \in [Ends -> Seq(Item)]
      BY <1>0, <2>7, ConsumeType DEF ResponseBad
    <3> QED BY <1>0, <2>7, <3>1 DEF ResponseBad, CloseConn
  <2>8. CASE SetSession(k)
    BY <1>0, <2>8 DEF SetSession
  <2>9. CASE Arm(k)
    BY <1>0, <2>9 DEF Arm
  <2> QED BY <1>2, <2>1, <2>2, <2>3, <2>4, <2>5, <2>6, <2>7, <2>8, <2>9 DEF OpenerStep
<1>3. ASSUME NEW k \in Conns, HandlerStep(k)
      PROVE  TypeOK'
  <2>1. CASE ReadHandshake(k)
    <3>1. buf' \in [Ends -> Seq(Item)]
      BY <1>0, <2>1, ConsumeType DEF ReadHandshake
    <3> QED BY <1>0, <2>1, <3>1 DEF ReadHandshake
  <2>2. CASE ReadHandshakeFails(k)
    BY <1>0, <2>2 DEF ReadHandshakeFails
  <2>3. CASE HandleHandshake(k)
    BY <1>0, <2>3 DEF HandleHandshake
  <2>4. CASE HandleHandshakeFails(k)
    <3>1. buf' \in [Ends -> Seq(Item)]
      BY <1>0, <2>4, WriteType, ItemType DEF HandleHandshakeFails, Refuse
    <3> QED BY <1>0, <2>4, <3>1 DEF HandleHandshakeFails, Refuse
  <2>5. CASE DialTarget(k)
    BY <1>0, <2>5 DEF DialTarget
  <2>6. CASE DialTargetFails(k)
    <3>1. buf' \in [Ends -> Seq(Item)]
      BY <1>0, <2>6, WriteType, ItemType DEF DialTargetFails, Refuse
    <3> QED BY <1>0, <2>6, <3>1 DEF DialTargetFails, Refuse
  <2>7. CASE WriteResponse(k)
    <3>1. buf' \in [Ends -> Seq(Item)]
      BY <1>0, <2>7, WriteType, ItemType DEF WriteResponse
    <3> QED BY <1>0, <2>7, <3>1 DEF WriteResponse
  <2>8. CASE WriteResponseFails(k)
    BY <1>0, <2>8 DEF WriteResponseFails
  <2>9. CASE AddConn(k)
    BY <1>0, <2>9 DEF AddConn
  <2> QED BY <1>3, <2>1, <2>2, <2>3, <2>4, <2>5, <2>6, <2>7, <2>8, <2>9 DEF HandlerStep
<1>4. ASSUME NEW k \in Conns, Environment(k)
      PROVE  TypeOK'
  <2>1. CASE AppConnect(k)
    BY <1>0, <2>1 DEF AppConnect
  <2>2. CASE StreamFail(k)
    BY <1>0, <2>2 DEF StreamFail
  <2>3. ASSUME NEW x \in Sides, OuterSend(x, k)
        PROVE  TypeOK'
    <3>1. <<x, k>> \in Ends /\ sent[<<x, k>>] + 1 \in 0 .. MaxSend
      BY <1>0, <2>3, MaxSendAssumption DEF OuterSend
    <3> QED BY <2>3, <3>1 DEF OuterSend
  <2>4. ASSUME NEW x \in Sides, OuterClose(x, k)
        PROVE  TypeOK'
    BY <1>0, <2>4 DEF OuterClose
  <2> QED BY <1>4, <2>1, <2>2, <2>3, <2>4 DEF Environment
<1>5. ASSUME NEW x \in Sides, NEW k \in Conns, PollStep(x, k)
      PROVE  TypeOK'
  <2>1. CASE onConnData(x, k)
    <3>1. <<x, k>> \in Ends /\ read[<<x, k>>] + 1 \in 0 .. MaxSend
      BY <1>0, <2>1, MaxSendAssumption DEF onConnData
    <3> QED BY <2>1, <3>1, ZenonT(60) DEF onConnData, CloseConn
  <2>2. CASE onConnDataWrite(x, k)
    <3>0. read[<<x, k>>] \in Chunk
      BY <1>0, <2>2, MaxSendAssumption DEF onConnDataWrite, Polled, Chunk
    <3>1. buf' \in [Ends -> Seq(Item)]
      BY <1>0, <2>2, <3>0, WriteType, ItemType DEF onConnDataWrite
    <3> QED BY <1>0, <2>2, <3>1 DEF onConnDataWrite
  <2>3. CASE onConnDataWriteFails(x, k)
    BY <1>0, <2>3 DEF onConnDataWriteFails, CloseConn
  <2>4. CASE PollEOF(x, k)
    BY <1>0, <2>4 DEF PollEOF, CloseConn
  <2> QED BY <1>5, <2>1, <2>2, <2>3, <2>4 DEF PollStep
<1>6. ASSUME NEW x \in Sides, NEW k \in Conns, CopyStep(x, k)
      PROVE  TypeOK'
  <2>1. CASE Copy(x, k)
    <3>0. 1 \in 1 .. Len(buf[<<x, k>>])
      BY <1>0, <2>1, Nonempty DEF Copy, CanRead
    <3>1. buf' \in [Ends -> Seq(Item)]
      BY <1>0, <2>1, <3>0, ConsumeType DEF Copy
    <3>2. Append(got[<<x, k>>], Head(buf[<<x, k>>])) \in Seq(Item)
      BY <1>0, <2>1, Nonempty DEF Copy, CanRead
    <3> QED BY <1>0, <2>1, <3>1, <3>2 DEF Copy
  <2>2. CASE CopyEnds(x, k)
    <3>1. buf' \in [Ends -> Seq(Item)]
      <4>1. CASE UNCHANGED buf
        BY <1>0, <4>1
      <4>2. CASE CanRead(x, k) /\ Consume(x, k, 1)
        <5>1. 1 \in 1 .. Len(buf[<<x, k>>])
          BY <1>0, <4>2, Nonempty DEF CanRead
        <5> QED BY <1>0, <4>2, <5>1, ConsumeType
      <4> QED BY <2>2, <4>1, <4>2 DEF CopyEnds
    <3> QED BY <1>0, <2>2, <3>1 DEF CopyEnds
  <2>3. CASE CopyUnset(x, k)
    BY <1>0, <2>3 DEF CopyUnset
  <2>4. CASE CopyCloseStream(x, k)
    BY <1>0, <2>4 DEF CopyCloseStream
  <2>5. CASE CopyCloseConn(x, k)
    BY <1>0, <2>5 DEF CopyCloseConn, CloseConn
  <2> QED BY <1>6, <2>1, <2>2, <2>3, <2>4, <2>5 DEF CopyStep
<1>7. ASSUME NEW x \in Sides, NEW k \in Conns, onConnClose(x, k)
      PROVE  TypeOK'
  BY <1>0, <1>7 DEF onConnClose
<1> QED BY <1>1, <1>2, <1>3, <1>4, <1>5, <1>6, <1>7 DEF Next, ConnStep

-----------------------------------------------------------------------------
(* The inductive invariant.                                                 *)

\* At most one control message is ahead of the payload.
LEMMA AheadType == \A x, k : Ahead(x, k) \in Nat
  BY DEF Ahead

\* A step leaves the connection j of side x alone.
SameEnd(x, j) ==
    /\ ext'[<<x, j>>] = ext[<<x, j>>] /\ sent'[<<x, j>>] = sent[<<x, j>>]
    /\ got'[<<x, j>>] = got[<<x, j>>] /\ lost'[<<x, j>>] = lost[<<x, j>>]
    /\ conn'[<<x, j>>] = conn[<<x, j>>]
    /\ armed'[<<x, j>>] = armed[<<x, j>>] /\ read'[<<x, j>>] = read[<<x, j>>]
    /\ sess'[<<x, j>>] = sess[<<x, j>>] /\ poll'[<<x, j>>] = poll[<<x, j>>]
    /\ onclose'[<<x, j>>] = onclose[<<x, j>>] /\ end'[<<x, j>>] = end[<<x, j>>]
    /\ buf'[<<x, j>>] = buf[<<x, j>>] /\ copier'[<<x, j>>] = copier[<<x, j>>]
    /\ opener'[j] = opener[j] /\ handler'[j] = handler[j] /\ link'[j] = link[j]

\* A step of one connection leaves the others alone.
LEMMA Frame ==
    ASSUME TypeOK, NEW k \in Conns, NEW j \in Conns, j # k, ConnStep(k), NEW y \in Sides
    PROVE  SameEnd(y, j)
<1> DEFINE e == <<y, j>>
<1>0. e \in Ends /\ \A x : e # <<x, k>>
  BY DEF Ends
<1> HIDE DEF e
<1> SUFFICES /\ ext'[e] = ext[e] /\ sent'[e] = sent[e] /\ got'[e] = got[e] /\ lost'[e] = lost[e]
             /\ conn'[e] = conn[e] /\ armed'[e] = armed[e] /\ read'[e] = read[e]
             /\ sess'[e] = sess[e] /\ poll'[e] = poll[e] /\ onclose'[e] = onclose[e]
             /\ end'[e] = end[e] /\ buf'[e] = buf[e] /\ copier'[e] = copier[e]
             /\ opener'[j] = opener[j] /\ handler'[j] = handler[j] /\ link'[j] = link[j]
  BY DEF SameEnd, e
<1> USE <1>0 DEF TypeOK, outer, given, nb
<1>1. CASE OpenerStep(k)
  <2>1. CASE Accept(k) \/ OpenStream(k) \/ SetSession(k) \/ Arm(k)
    BY <2>1 DEF Accept, OpenStream, SetSession, Arm
  <2>2. CASE OpenStreamFails(k) \/ HandshakeIOFails(k)
    BY <2>2 DEF OpenStreamFails, HandshakeIOFails, CloseConn
  <2>3. CASE WriteHandshake(k)
    BY <2>3 DEF WriteHandshake, WriteOk
  <2>4. CASE ResponseOk(k)
    BY <2>4 DEF ResponseOk, Consume
  <2>5. CASE ResponseBad(k)
    BY <2>5 DEF ResponseBad, CloseConn, Consume
  <2> QED BY <1>1, <2>1, <2>2, <2>3, <2>4, <2>5 DEF OpenerStep
<1>2. CASE HandlerStep(k)
  <2>1. CASE ReadHandshake(k) \/ ReadHandshakeFails(k) \/ HandleHandshake(k)
    BY <2>1 DEF ReadHandshake, ReadHandshakeFails, HandleHandshake, Consume
  <2>2. CASE HandleHandshakeFails(k)
    BY <2>2, SMTT(30) DEF HandleHandshakeFails, Refuse, WriteOk
  <2>5. CASE DialTargetFails(k)
    BY <2>5, SMTT(30) DEF DialTargetFails, Refuse, WriteOk
  <2>3. CASE DialTarget(k) \/ AddConn(k)
    BY <2>3, SMTT(30) DEF DialTarget, AddConn
  <2>4. CASE WriteResponse(k) \/ WriteResponseFails(k)
    BY <2>4 DEF WriteResponse, WriteResponseFails, WriteOk
  <2> QED BY <1>2, <2>1, <2>2, <2>3, <2>4, <2>5 DEF HandlerStep
<1>3. CASE Environment(k)
  <2>1. CASE AppConnect(k) \/ StreamFail(k)
    BY <2>1 DEF AppConnect, StreamFail
  <2>2. ASSUME NEW x \in Sides, OuterSend(x, k) \/ OuterClose(x, k)
        PROVE  SameEnd(y, j)
    BY <2>2 DEF OuterSend, OuterClose, SameEnd, e
  <2> QED BY <1>3, <2>1, <2>2 DEF Environment, SameEnd, e
<1>4. ASSUME NEW x \in Sides, PollStep(x, k) \/ onConnClose(x, k)
      PROVE  SameEnd(y, j)
  <2>1. CASE onConnData(x, k) \/ onConnDataWriteFails(x, k) \/ PollEOF(x, k)
    BY <2>1 DEF onConnData, onConnDataWriteFails, PollEOF, CloseConn, SameEnd, e
  <2>2. CASE onConnDataWrite(x, k) \/ onConnClose(x, k)
    BY <2>2 DEF onConnDataWrite, onConnClose, WriteOk, SameEnd, e
  <2> QED BY <1>4, <2>1, <2>2 DEF PollStep
<1>5. ASSUME NEW x \in Sides, CopyStep(x, k)
      PROVE  SameEnd(y, j)
  <2>1. CASE Copy(x, k) \/ CopyEnds(x, k)
    BY <2>1 DEF Copy, CopyEnds, Consume, SameEnd, e
  <2>2. CASE CopyUnset(x, k) \/ CopyCloseStream(x, k) \/ CopyCloseConn(x, k)
    BY <2>2 DEF CopyUnset, CopyCloseStream, CopyCloseConn, CloseConn, SameEnd, e
  <2> QED BY <1>5, <2>1, <2>2 DEF CopyStep
<1> QED BY <1>1, <1>2, <1>3, <1>4, <1>5 DEF ConnStep, SameEnd, e

\* The invariant of a connection is about that connection only.
LEMMA FrameInv ==
    ASSUME NEW j \in Conns, ConnInv(j), \A x \in Sides : SameEnd(x, j)
    PROVE  ConnInv(j)'
<1> "cl" \in Sides /\ "sv" \in Sides /\ \A x \in Sides : Other(x) \in Sides
  BY DEF Sides, Other
<1>1. Phase(j)'
  BY DEF ConnInv, Phase, SameEnd, Spoken
<1>2. Control(j)'
  BY DEF ConnInv, Control, SameEnd
<1>3. ASSUME NEW x \in Sides
      PROVE  Polled(x, j)' /\ Flow(x, j)' /\ Owned(x, j)'
  <2>1. Polled(x, j)'
    BY DEF ConnInv, Polled, SameEnd
  <2>2. Flow(x, j)'
    <3>1. Flow(x, j) /\ SameEnd(x, j) /\ SameEnd(Other(x), j)
      BY DEF ConnInv
    <3>2. (Relaying(x, j)' <=> Relaying(x, j)) /\ Ahead(x, j)' = Ahead(x, j)
      BY <3>1 DEF Relaying, Ahead, SameEnd
    <3>3. InFlight(x, j)' <=> InFlight(x, j)
      BY <3>1, <3>2 DEF InFlight, SameEnd
    <3> QED BY <3>1, <3>2, <3>3 DEF Flow, SameEnd
  <2>3. Owned(x, j)'
    BY DEF ConnInv, Owned, StreamOwner, ConnOwner, SameEnd
  <2> QED BY <2>1, <2>2, <2>3
<1> QED BY <1>1, <1>2, <1>3 DEF ConnInv

\* OpenerStep preserves the invariant of its connection.
LEMMA OpenerInv ==
    ASSUME TypeOK, NEW k \in Conns, ConnInv(k), OpenerStep(k)
    PROVE  ConnInv(k)'
<1> USE DEF outer, given, nb
<1>0. /\ <<"cl", k>> \in Ends /\ <<"sv", k>> \in Ends /\ <<"cl", k>> # <<"sv", k>>
      /\ Sides = {"cl", "sv"} /\ Other("cl") = "sv" /\ Other("sv") = "cl"
  BY DEF Sides, Ends, Other
<1>P. /\ Polled("cl", k) /\ Polled("sv", k) /\ Flow("cl", k) /\ Flow("sv", k)
      /\ Owned("cl", k) /\ Owned("sv", k)
  BY <1>0 DEF ConnInv
<1>T. /\ buf[<<"cl", k>>] \in Seq(Item) /\ buf[<<"sv", k>>] \in Seq(Item)
      /\ got[<<"cl", k>>] \in Seq(Item) /\ got[<<"sv", k>>] \in Seq(Item)
      /\ lost[<<"cl", k>>] \in Nat /\ lost[<<"sv", k>>] \in Nat
      /\ Len(buf[<<"cl", k>>]) \in Nat /\ Len(buf[<<"sv", k>>]) \in Nat
      /\ Len(got[<<"cl", k>>]) \in Nat /\ Len(got[<<"sv", k>>]) \in Nat
      /\ read[<<"cl", k>>] \in Nat /\ read[<<"sv", k>>] \in Nat
      /\ sent[<<"cl", k>>] \in Nat /\ sent[<<"sv", k>>] \in Nat
      /\ poll[<<"cl", k>>] \in {"idle", "write"} /\ poll[<<"sv", k>>] \in {"idle", "write"}
  BY <1>0, MaxSendAssumption DEF TypeOK
<1>1. CASE Accept(k)
  <2>0. /\ opener'[k] = "open" /\ conn'[<<"cl", k>>] = "open"
        /\ conn'[<<"sv", k>>] = conn[<<"sv", k>>]
        /\ UNCHANGED <<handler, sess, end, armed, poll, read, sent, got, lost, buf, copier>>
    BY <1>0, <1>1 DEF TypeOK, Accept
  <2>1. opener[k] = "wait"
    BY <1>1 DEF Accept
  <2>2. Phase(k)'
    BY <2>0, <2>1 DEF ConnInv, Phase, Spoken
  <2>3. Control(k)'
    BY <1>T, <2>0, <2>1 DEF ConnInv, Phase, Control
  <2>4. Polled("cl", k)' /\ Polled("sv", k)'
    BY <1>P, <2>0, <2>1 DEF ConnInv, Phase, Polled
  <2>5. Flow("cl", k)' /\ Flow("sv", k)'
    <3>1. ~Relaying("cl", k)' /\ ~Relaying("sv", k)'
      BY <2>0, <2>1 DEF ConnInv, Phase, Relaying
    <3> QED BY <1>0, <1>P, <2>0, <2>1, <3>1 DEF ConnInv, Phase, Flow
  <2>6. Owned("cl", k)' /\ Owned("sv", k)'
    BY <1>P, <2>0, <2>1 DEF ConnInv, Phase, Owned, StreamOwner, ConnOwner
  <2> QED BY <1>0, <2>2, <2>3, <2>4, <2>5, <2>6 DEF ConnInv
<1>2. CASE OpenStream(k)
  <2>0. /\ opener'[k] = "writeHs" /\ handler'[k] = "readHs"
        /\ end'[<<"cl", k>>] = "open" /\ end'[<<"sv", k>>] = "open"
        /\ UNCHANGED <<sess, conn, armed, poll, read, sent, got, lost, buf, copier>>
    BY <1>0, <1>2 DEF TypeOK, OpenStream
  <2>1. opener[k] = "open"
    BY <1>2 DEF OpenStream
  <2>2. Phase(k)'
    BY <2>0, <2>1 DEF ConnInv, Phase, Spoken
  <2>3. Control(k)'
    BY <1>T, <2>0, <2>1 DEF ConnInv, Phase, Control
  <2>4. Polled("cl", k)' /\ Polled("sv", k)'
    BY <1>P, <2>0, <2>1 DEF ConnInv, Phase, Polled
  <2>5. Flow("cl", k)' /\ Flow("sv", k)'
    <3>1. /\ Relaying("cl", k)' => Relaying("cl", k) /\ Ahead("cl", k)' = Ahead("cl", k)
          /\ Relaying("sv", k)' => Relaying("sv", k) /\ Ahead("sv", k)' = Ahead("sv", k)
      BY <2>0, <2>1 DEF ConnInv, Phase, Relaying, Ahead
    <3>2. Relaying("cl", k)' => InFlight("cl", k)'
      BY <1>0, <1>P, <2>0, <3>1 DEF Flow, InFlight
    <3>3. Relaying("sv", k)' => InFlight("sv", k)'
      BY <1>0, <1>P, <2>0, <3>1 DEF Flow, InFlight
    <3> QED BY <1>0, <1>P, <2>0, <2>1, <3>2, <3>3 DEF ConnInv, Phase, Flow
  <2>6. Owned("cl", k)' /\ Owned("sv", k)'
    BY <1>P, <2>0, <2>1 DEF ConnInv, Phase, Owned, StreamOwner, ConnOwner
  <2> QED BY <1>0, <2>2, <2>3, <2>4, <2>5, <2>6 DEF ConnInv
<1>3. CASE OpenStreamFails(k)
  <2>0. /\ opener'[k] = "refused" /\ conn'[<<"cl", k>>] = "closed"
        /\ conn'[<<"sv", k>>] = conn[<<"sv", k>>]
        /\ UNCHANGED <<handler, sess, end, armed, poll, read, sent, got, lost, buf, copier>>
    BY <1>0, <1>3 DEF TypeOK, OpenStreamFails, CloseConn
  <2>1. opener[k] = "open"
    BY <1>3 DEF OpenStreamFails
  <2>2. Phase(k)'
    BY <2>0, <2>1 DEF ConnInv, Phase, Spoken
  <2>3. Control(k)'
    BY <1>T, <2>0, <2>1 DEF ConnInv, Phase, Control
  <2>4. Polled("cl", k)' /\ Polled("sv", k)'
    BY <1>P, <2>0, <2>1 DEF ConnInv, Phase, Polled
  <2>5. Flow("cl", k)' /\ Flow("sv", k)'
    <3>1. ~Relaying("cl", k)' /\ ~Relaying("sv", k)'
      BY <2>0, <2>1 DEF ConnInv, Phase, Relaying
    <3> QED BY <1>0, <1>P, <2>0, <2>1, <3>1 DEF ConnInv, Phase, Flow
  <2>6. Owned("cl", k)' /\ Owned("sv", k)'
    BY <1>P, <2>0, <2>1 DEF ConnInv, Phase, Owned, StreamOwner, ConnOwner
  <2> QED BY <1>0, <2>2, <2>3, <2>4, <2>5, <2>6 DEF ConnInv
<1>4. CASE WriteHandshake(k)
  <2>0. /\ opener'[k] = "readRsp" /\ buf'[<<"cl", k>>] = buf[<<"cl", k>>]
        /\ buf'[<<"sv", k>>] = (IF end[<<"sv", k>>] = "open" THEN Append(buf[<<"sv", k>>], Hs)
                                  ELSE buf[<<"sv", k>>])
        /\ UNCHANGED <<handler, sess, end, conn, armed, poll, read, sent, got, lost, copier>>
    BY <1>0, <1>4, ZenonT(60) DEF TypeOK, WriteHandshake, WriteOk
  <2>1. opener[k] = "writeHs"
    BY <1>4 DEF WriteHandshake
  <2>2. Phase(k)'
    BY <2>0, <2>1 DEF ConnInv, Phase, Spoken
  <2>3. Control(k)'
    <3>1. buf'[<<"sv", k>>] \in {<<>>, <<Hs>>}
      BY <2>0, <2>1, AppendEmpty, ItemType DEF ConnInv, Control
    <3> QED BY <2>0, <2>1, <3>1 DEF ConnInv, Phase, Control
  <2>4. Polled("cl", k)' /\ Polled("sv", k)'
    BY <1>P, <2>0, <2>1 DEF ConnInv, Phase, Polled
  <2>5. Flow("cl", k)' /\ Flow("sv", k)'
    <3>1. ~Relaying("cl", k)' /\ ~Relaying("sv", k)'
      BY <2>0, <2>1 DEF ConnInv, Phase, Relaying
    <3> QED BY <1>0, <1>P, <2>0, <2>1, <3>1 DEF ConnInv, Phase, Flow
  <2>6. Owned("cl", k)' /\ Owned("sv", k)'
    BY <1>P, <2>0, <2>1 DEF ConnInv, Phase, Owned, StreamOwner, ConnOwner
  <2> QED BY <1>0, <2>2, <2>3, <2>4, <2>5, <2>6 DEF ConnInv
<1>5. CASE HandshakeIOFails(k)
  <2>0. /\ opener'[k] = "ioerr" /\ conn'[<<"cl", k>>] = "closed"
        /\ conn'[<<"sv", k>>] = conn[<<"sv", k>>]
        /\ UNCHANGED <<handler, sess, end, armed, poll, read, sent, got, lost, buf, copier>>
    BY <1>0, <1>5 DEF TypeOK, HandshakeIOFails, CloseConn
  <2>1. opener[k] \in {"writeHs", "readRsp"}
    BY <1>5 DEF HandshakeIOFails
  <2>2. Phase(k)'
    BY <2>0, <2>1 DEF ConnInv, Phase, Spoken
  <2>3. Control(k)'
    BY <1>T, <2>0, <2>1 DEF ConnInv, Phase, Control
  <2>4. Polled("cl", k)' /\ Polled("sv", k)'
    BY <1>P, <2>0, <2>1 DEF ConnInv, Phase, Polled
  <2>5. Flow("cl", k)' /\ Flow("sv", k)'
    <3>1. /\ Relaying("cl", k)' => Relaying("cl", k) /\ Ahead("cl", k)' = Ahead("cl", k)
          /\ Relaying("sv", k)' => Relaying("sv", k) /\ Ahead("sv", k)' = Ahead("sv", k)
      BY <2>0, <2>1 DEF ConnInv, Phase, Relaying, Ahead
    <3>2. Relaying("cl", k)' => InFlight("cl", k)'
      BY <1>0, <1>P, <2>0, <3>1 DEF Flow, InFlight
    <3>3. ASSUME Relaying("sv", k)' PROVE InFlight("sv", k)'
      <4>1. Continues(got[<<"sv", k>>], lost[<<"sv", k>>], buf[<<"sv", k>>], Ahead("sv", k),
                      read[<<"cl", k>>], poll[<<"cl", k>>], conn[<<"cl", k>>])
        BY <1>0, <1>P, <3>1, <3>3 DEF Flow, InFlight
      <4>2. Continues(got[<<"sv", k>>], lost[<<"sv", k>>], buf[<<"sv", k>>], Ahead("sv", k),
                      read[<<"cl", k>>], poll[<<"cl", k>>], "closed")
        BY <1>T, <4>1, FlowStop, AheadType, SMTT(30)
      <4> QED BY <1>0, <2>0, <3>1, <3>3, <4>2 DEF InFlight
    <3> QED BY <1>0, <1>P, <2>0, <2>1, <3>2, <3>3 DEF ConnInv, Phase, Flow
  <2>6. Owned("cl", k)' /\ Owned("sv", k)'
    BY <1>P, <2>0, <2>1 DEF ConnInv, Phase, Owned, StreamOwner, ConnOwner
  <2> QED BY <1>0, <2>2, <2>3, <2>4, <2>5, <2>6 DEF ConnInv
<1>6. CASE ResponseOk(k)
  <2>n. PICK n \in 1 .. Len(buf[<<"cl", k>>]) :
            /\ OneOk(SubSeq(buf[<<"cl", k>>], 1, n)) /\ Consume("cl", k, n)
            /\ lost' = [lost EXCEPT ![<<"cl", k>>] = n - 1]
    BY <1>6 DEF ResponseOk, Arrived
  <2>o. /\ buf[<<"cl", k>>][1] = Ok /\ 1 \in 1 .. Len(buf[<<"cl", k>>])
        /\ \A i \in 2 .. n : buf[<<"cl", k>>][i] \in Blank
    BY <1>T, <2>n, ReadOk
  <2>1. opener[k] = "readRsp" /\ handler[k] \in {"addConn", "serve"}
    <3>1. opener[k] = "readRsp"
      BY <1>6 DEF ResponseOk
    <3> QED BY <2>o, <3>1 DEF ConnInv, Control
  <2>0. /\ opener'[k] = "setSession"
        /\ buf'[<<"cl", k>>] = SubSeq(buf[<<"cl", k>>], n + 1, Len(buf[<<"cl", k>>]))
        /\ buf'[<<"sv", k>>] = buf[<<"sv", k>>]
        /\ lost'[<<"cl", k>>] = n - 1 /\ lost'[<<"sv", k>>] = lost[<<"sv", k>>]
        /\ UNCHANGED <<handler, sess, end, conn, armed, poll, read, sent, got, copier>>
    <3>1. /\ buf'[<<"cl", k>>] = SubSeq(buf[<<"cl", k>>], n + 1, Len(buf[<<"cl", k>>]))
          /\ buf'[<<"sv", k>>] = buf[<<"sv", k>>]
          /\ lost'[<<"cl", k>>] = n - 1 /\ lost'[<<"sv", k>>] = lost[<<"sv", k>>]
      BY <1>0, <2>n DEF TypeOK, Consume
    <3> HIDE <2>n
    <3> QED BY <1>0, <1>6, <3>1 DEF TypeOK, ResponseOk
  <2>2. Phase(k)'
    BY <2>0, <2>1 DEF ConnInv, Phase, Spoken
  <2>3. Control(k)'
    BY <2>0, <2>1 DEF ConnInv, Phase, Control
  <2>4. Polled("cl", k)' /\ Polled("sv", k)'
    BY <1>P, <2>0, <2>1 DEF ConnInv, Phase, Polled
  <2>5. Flow("cl", k)' /\ Flow("sv", k)'
    <3>1. /\ Relaying("cl", k) /\ Ahead("cl", k) = 1 /\ Ahead("cl", k)' = 0
          /\ Relaying("sv", k)' => Relaying("sv", k) /\ Ahead("sv", k)' = Ahead("sv", k)
      BY <2>0, <2>1 DEF ConnInv, Phase, Relaying, Ahead
    <3>2. got[<<"cl", k>>] = <<>> /\ lost[<<"cl", k>>] = 0
      BY <1>P, <2>1 DEF ConnInv, Phase, Flow
    <3>3. Continues(<<>>, 0, buf[<<"cl", k>>], 1,
                    read[<<"sv", k>>], poll[<<"sv", k>>], conn[<<"sv", k>>])
      BY <1>0, <1>P, <3>1, <3>2 DEF Flow, InFlight
    <3>4. /\ Continues(<<>>, n - 1, buf'[<<"cl", k>>], 0,
                       read[<<"sv", k>>], poll[<<"sv", k>>], conn[<<"sv", k>>])
          /\ InOrder(<<>>, n - 1, read[<<"sv", k>>])
          /\ \A i \in 2 .. n : buf[<<"cl", k>>][i] = i - 1
      <4> DEFINE b == buf[<<"cl", k>>]
                 r == read[<<"sv", k>>]
                 p == poll[<<"sv", k>>]
                 c == conn[<<"sv", k>>]
                 t == SubSeq(b, n + 1, Len(b))
      <4>1. b \in Seq(Item) /\ n \in 1 .. Len(b) /\ r \in Nat /\ p \in {"idle", "write"}
        BY <1>T
      <4>2. Continues(<<>>, 0, b, 1, r, p, c)
        BY <3>3
      <4>3. buf'[<<"cl", k>>] = t
        BY <2>0
      <4> HIDE DEF b, r, p, c
      <4>4. /\ Continues(<<>>, n - 1, t, 0, r, p, c) /\ InOrder(<<>>, n - 1, r)
            /\ \A i \in 2 .. n : b[i] = i - 1
        BY <4>1, <4>2, FlowAck
      <4> QED BY <4>3, <4>4 DEF b, r, p, c
    <3>5. InFlight("cl", k)' /\ InOrder(got[<<"cl", k>>], lost[<<"cl", k>>], read[<<"sv", k>>])'
      BY <1>0, <2>0, <3>1, <3>2, <3>4 DEF InFlight
    <3>6. 1 .. lost'[<<"cl", k>>] \subseteq Blank
      <4>1. ASSUME NEW i \in 1 .. n - 1 PROVE i \in Blank
        <5>1. i + 1 \in 2 .. n /\ (i + 1) - 1 = i
          OBVIOUS
        <5> QED BY <2>o, <3>4, <5>1
      <4> QED BY <2>0, <4>1
    <3>7. Relaying("sv", k)' => InFlight("sv", k)'
      BY <1>0, <1>P, <2>0, <3>1 DEF Flow, InFlight
    <3>8. Flow("cl", k)'
      BY <1>0, <1>P, <2>0, <2>1, <3>5, <3>6 DEF ConnInv, Phase, Flow
    <3> QED BY <1>0, <1>P, <2>0, <2>1, <3>7, <3>8 DEF ConnInv, Phase, Flow
  <2>6. Owned("cl", k)' /\ Owned("sv", k)'
    BY <1>P, <2>0, <2>1 DEF ConnInv, Phase, Owned, StreamOwner, ConnOwner
  <2> QED BY <1>0, <2>2, <2>3, <2>4, <2>5, <2>6 DEF ConnInv
<1>7. CASE ResponseBad(k)
  <2>n. PICK n \in 1 .. Len(buf[<<"cl", k>>]) :
            ~OneOk(SubSeq(buf[<<"cl", k>>], 1, n)) /\ Consume("cl", k, n)
    BY <1>7 DEF ResponseBad, Arrived
  <2>1. opener[k] = "readRsp"
    BY <1>7 DEF ResponseBad
  <2>0. /\ opener'[k] = "refused"
        /\ buf'[<<"cl", k>>] = SubSeq(buf[<<"cl", k>>], n + 1, Len(buf[<<"cl", k>>]))
        /\ buf'[<<"sv", k>>] = buf[<<"sv", k>>]
        /\ end'[<<"cl", k>>] = "closed" /\ end'[<<"sv", k>>] = end[<<"sv", k>>]
        /\ conn'[<<"cl", k>>] = "closed" /\ conn'[<<"sv", k>>] = conn[<<"sv", k>>]
        /\ UNCHANGED <<handler, sess, armed, poll, read, sent, got, lost, copier>>
    <3>1. /\ buf'[<<"cl", k>>] = SubSeq(buf[<<"cl", k>>], n + 1, Len(buf[<<"cl", k>>]))
          /\ buf'[<<"sv", k>>] = buf[<<"sv", k>>]
      BY <1>0, <2>n DEF TypeOK, Consume
    <3> HIDE <2>n
    <3> QED BY <1>0, <1>7, <3>1 DEF TypeOK, ResponseBad, CloseConn
  <2>d. /\ Len(buf'[<<"cl", k>>]) = Len(buf[<<"cl", k>>]) - n
        /\ \A i \in 1 .. Len(buf'[<<"cl", k>>]) : buf'[<<"cl", k>>][i] = buf[<<"cl", k>>][n + i]
    <3> DEFINE b == buf[<<"cl", k>>]
               t == SubSeq(b, n + 1, Len(b))
    <3>1. b \in Seq(Item) /\ n \in 1 .. Len(b) /\ buf'[<<"cl", k>>] = t
      BY <1>T, <2>0
    <3>2. Len(t) = Len(b) - n /\ \A i \in 1 .. Len(b) - n : t[i] = b[n + i]
      <4> HIDE DEF b
      <4> QED BY <3>1, Dropped, Zenon
    <3> HIDE DEF t
    <3> QED BY <3>1, <3>2
  <2>r. /\ handler[k] \in {"refused", "addConn", "serve"}
        /\ handler[k] \in {"addConn", "serve"} => Spoken(k)
    <3>1. Len(buf[<<"cl", k>>]) # 0
      OBVIOUS
    <3>2. handler[k] \notin {"none", "readHs", "handle", "dial", "writeRsp"}
      BY <1>T, <3>1 DEF ConnInv, Control
    <3>3. handler[k] # "ioerr"
      BY <1>T, <2>1, <3>1 DEF ConnInv, Control
    <3>4. ASSUME handler[k] \in {"addConn", "serve"} PROVE Spoken(k)
      <4>1. buf[<<"cl", k>>][1] = Ok
        BY <2>1, <3>4 DEF ConnInv, Control
      <4>2. PICK i \in 2 .. n : buf[<<"cl", k>>][i] \notin Blank
        BY <1>T, <2>n, <4>1, ReadMore
      <4>3. Relaying("cl", k) /\ Ahead("cl", k) = 1 /\ lost[<<"cl", k>>] = 0
        BY <2>1, <3>4 DEF ConnInv, Phase, Relaying, Ahead
      <4>4. got[<<"cl", k>>] = <<>>
        BY <1>P, <2>1 DEF ConnInv, Phase, Flow
      <4> DEFINE b == buf[<<"cl", k>>]
                 r == read[<<"sv", k>>]
                 p == poll[<<"sv", k>>]
                 c == conn[<<"sv", k>>]
      <4>5. Continues(<<>>, 0, b, 1, r, p, c)
        BY <1>0, <1>P, <4>3, <4>4 DEF Flow, InFlight
      <4>6. /\ b \in Seq(Item) /\ n \in 1 .. Len(b) /\ r \in Nat /\ p \in {"idle", "write"}
            /\ b[i] \notin Blank /\ r <= sent[<<"sv", k>>] /\ sent[<<"sv", k>>] \in Nat
        BY <1>P, <1>T, <4>2 DEF Polled
      <4> HIDE DEF b, r, p, c
      <4>7. InOrder(<<>>, n - 1, r) /\ b[i] = i - 1
        BY <4>5, <4>6, FlowAck
      <4>8. n - 1 <= r
        BY <4>6, <4>7 DEF InOrder
      <4>9. i - 1 \in 1 .. sent[<<"sv", k>>]
        BY <4>6, <4>8
      <4> QED BY <4>6, <4>7, <4>9 DEF Spoken
    <3> QED BY <3>2, <3>3, <3>4 DEF TypeOK
  <2>2. Phase(k)'
    BY <2>0, <2>1, <2>r DEF ConnInv, Phase, Spoken
  <2>3. Control(k)'
    <3>1. ASSUME NEW i \in 1 .. Len(buf'[<<"cl", k>>]), buf'[<<"cl", k>>][i] = Ok
          PROVE  handler[k] \in {"addConn", "serve"}
      <4>1. \A b \in Seq(Item) : n \in 1 .. Len(b) /\ i \in 1 .. Len(b) - n
                                    => n + i \in 1 .. Len(b)
        OBVIOUS
      <4>2. n + i \in 1 .. Len(buf[<<"cl", k>>])
        BY <1>T, <2>d, <4>1
      <4>3. buf[<<"cl", k>>][n + i] = Ok
        BY <2>d, <3>1
      <4> QED BY <4>2, <4>3 DEF ConnInv, Control
    <3> QED BY <2>0, <2>1, <2>r, <3>1 DEF ConnInv, Phase, Control
  <2>4. Polled("cl", k)' /\ Polled("sv", k)'
    BY <1>P, <2>0, <2>1 DEF ConnInv, Phase, Polled
  <2>5. Flow("cl", k)' /\ Flow("sv", k)'
    <3>1. /\ ~Relaying("cl", k)'
          /\ Relaying("sv", k)' => Relaying("sv", k) /\ Ahead("sv", k)' = Ahead("sv", k)
      BY <2>0, <2>1 DEF ConnInv, Phase, Relaying, Ahead
    <3>2. ASSUME Relaying("sv", k)' PROVE InFlight("sv", k)'
      <4>1. Continues(got[<<"sv", k>>], lost[<<"sv", k>>], buf[<<"sv", k>>], Ahead("sv", k),
                      read[<<"cl", k>>], poll[<<"cl", k>>], conn[<<"cl", k>>])
        BY <1>0, <1>P, <3>1, <3>2 DEF Flow, InFlight
      <4>2. Continues(got[<<"sv", k>>], lost[<<"sv", k>>], buf[<<"sv", k>>], Ahead("sv", k),
                      read[<<"cl", k>>], poll[<<"cl", k>>], "closed")
        BY <1>T, <4>1, FlowStop, AheadType, SMTT(30)
      <4> QED BY <1>0, <2>0, <3>1, <3>2, <4>2 DEF InFlight
    <3> QED BY <1>0, <1>P, <2>0, <2>1, <3>1, <3>2 DEF ConnInv, Phase, Flow
  <2>6. Owned("cl", k)' /\ Owned("sv", k)'
    BY <1>P, <2>0, <2>1 DEF ConnInv, Phase, Owned, StreamOwner, ConnOwner
  <2> QED BY <1>0, <2>2, <2>3, <2>4, <2>5, <2>6 DEF ConnInv
<1>8. CASE SetSession(k)
  <2>0. /\ opener'[k] = "arm" /\ sess'[<<"cl", k>>] = TRUE
        /\ sess'[<<"sv", k>>] = sess[<<"sv", k>>] /\ copier'[<<"cl", k>>] = "copy"
        /\ copier'[<<"sv", k>>] = copier[<<"sv", k>>]
        /\ UNCHANGED <<handler, end, conn, armed, poll, read, sent, got, lost, buf>>
    BY <1>0, <1>8 DEF TypeOK, SetSession
  <2>1. opener[k] = "setSession"
    BY <1>8 DEF SetSession
  <2>2. Phase(k)'
    BY <2>0, <2>1 DEF ConnInv, Phase, Spoken
  <2>3. Control(k)'
    BY <1>T, <2>0, <2>1 DEF ConnInv, Phase, Control
  <2>4. Polled("cl", k)' /\ Polled("sv", k)'
    BY <1>P, <2>0, <2>1 DEF ConnInv, Phase, Polled
  <2>5. Flow("cl", k)' /\ Flow("sv", k)'
    <3>1. /\ Relaying("cl", k)' => Relaying("cl", k) /\ Ahead("cl", k)' = Ahead("cl", k)
          /\ Relaying("sv", k)' => Relaying("sv", k) /\ Ahead("sv", k)' = Ahead("sv", k)
      BY <2>0, <2>1 DEF ConnInv, Phase, Relaying, Ahead
    <3>2. Relaying("cl", k)' => InFlight("cl", k)'
      BY <1>0, <1>P, <2>0, <3>1 DEF Flow, InFlight
    <3>3. Relaying("sv", k)' => InFlight("sv", k)'
      BY <1>0, <1>P, <2>0, <3>1 DEF Flow, InFlight
    <3> QED BY <1>0, <1>P, <2>0, <2>1, <3>2, <3>3 DEF ConnInv, Phase, Flow
  <2>6. Owned("cl", k)' /\ Owned("sv", k)'
    BY <1>P, <2>0, <2>1 DEF ConnInv, Phase, Owned, StreamOwner, ConnOwner
  <2> QED BY <1>0, <2>2, <2>3, <2>4, <2>5, <2>6 DEF ConnInv
<1>9. CASE Arm(k)
  <2>0. /\ opener'[k] = "done" /\ armed'[<<"cl", k>>] = TRUE
        /\ armed'[<<"sv", k>>] = armed[<<"sv", k>>]
        /\ UNCHANGED <<handler, sess, end, conn, poll, read, sent, got, lost, buf, copier>>
    BY <1>0, <1>9 DEF TypeOK, Arm
  <2>1. opener[k] = "arm"
    BY <1>9 DEF Arm
  <2>2. Phase(k)'
    BY <2>0, <2>1 DEF ConnInv, Phase, Spoken
  <2>3. Control(k)'
    BY <1>T, <2>0, <2>1 DEF ConnInv, Phase, Control
  <2>4. Polled("cl", k)' /\ Polled("sv", k)'
    BY <1>P, <2>0, <2>1 DEF ConnInv, Phase, Polled
  <2>5. Flow("cl", k)' /\ Flow("sv", k)'
    <3>1. /\ Relaying("cl", k)' => Relaying("cl", k) /\ Ahead("cl", k)' = Ahead("cl", k)
          /\ Relaying("sv", k)' => Relaying("sv", k) /\ Ahead("sv", k)' = Ahead("sv", k)
      BY <2>0, <2>1 DEF ConnInv, Phase, Relaying, Ahead
    <3>2. Relaying("cl", k)' => InFlight("cl", k)'
      BY <1>0, <1>P, <2>0, <3>1 DEF Flow, InFlight
    <3>3. Relaying("sv", k)' => InFlight("sv", k)'
      BY <1>0, <1>P, <2>0, <3>1 DEF Flow, InFlight
    <3> QED BY <1>0, <1>P, <2>0, <2>1, <3>2, <3>3 DEF ConnInv, Phase, Flow
  <2>6. Owned("cl", k)' /\ Owned("sv", k)'
    BY <1>P, <2>0, <2>1 DEF ConnInv, Phase, Owned, StreamOwner, ConnOwner
  <2> QED BY <1>0, <2>2, <2>3, <2>4, <2>5, <2>6 DEF ConnInv
<1> QED BY <1>1, <1>2, <1>3, <1>4, <1>5, <1>6, <1>7, <1>8, <1>9 DEF OpenerStep

\* HandlerStep preserves the invariant of its connection.
LEMMA HandlerInv ==
    ASSUME TypeOK, NEW k \in Conns, ConnInv(k), HandlerStep(k)
    PROVE  ConnInv(k)'
<1> USE DEF outer, given, nb
<1>0. /\ <<"cl", k>> \in Ends /\ <<"sv", k>> \in Ends /\ <<"cl", k>> # <<"sv", k>>
      /\ Sides = {"cl", "sv"} /\ Other("cl") = "sv" /\ Other("sv") = "cl"
  BY DEF Sides, Ends, Other
<1>P. /\ Polled("cl", k) /\ Polled("sv", k) /\ Flow("cl", k) /\ Flow("sv", k)
      /\ Owned("cl", k) /\ Owned("sv", k)
  BY <1>0 DEF ConnInv
<1>T. /\ buf[<<"cl", k>>] \in Seq(Item) /\ buf[<<"sv", k>>] \in Seq(Item)
      /\ got[<<"cl", k>>] \in Seq(Item) /\ got[<<"sv", k>>] \in Seq(Item)
      /\ lost[<<"cl", k>>] \in Nat /\ lost[<<"sv", k>>] \in Nat
      /\ Len(buf[<<"cl", k>>]) \in Nat /\ Len(buf[<<"sv", k>>]) \in Nat
      /\ Len(got[<<"cl", k>>]) \in Nat /\ Len(got[<<"sv", k>>]) \in Nat
      /\ read[<<"cl", k>>] \in Nat /\ read[<<"sv", k>>] \in Nat
      /\ sent[<<"cl", k>>] \in Nat /\ sent[<<"sv", k>>] \in Nat
      /\ poll[<<"cl", k>>] \in {"idle", "write"} /\ poll[<<"sv", k>>] \in {"idle", "write"}
  BY <1>0, MaxSendAssumption DEF TypeOK
<1>1. CASE ReadHandshake(k)
  <2>n. PICK n \in 1 .. Len(buf[<<"sv", k>>]) : Consume("sv", k, n)
    BY <1>1 DEF ReadHandshake
  <2>1. handler[k] = "readHs"
    BY <1>1 DEF ReadHandshake
  <2>s. buf[<<"sv", k>>] = <<Hs>> /\ n = 1
    BY <1>1, <2>1 DEF ReadHandshake, CanRead, ConnInv, Control
  <2>0. /\ handler'[k] = "handle"
        /\ buf'[<<"sv", k>>] = SubSeq(buf[<<"sv", k>>], n + 1, Len(buf[<<"sv", k>>]))
        /\ buf'[<<"cl", k>>] = buf[<<"cl", k>>]
        /\ UNCHANGED <<opener, sess, end, conn, armed, poll, read, sent, got, lost, copier>>
    <3>1. /\ buf'[<<"sv", k>>] = SubSeq(buf[<<"sv", k>>], n + 1, Len(buf[<<"sv", k>>]))
          /\ buf'[<<"cl", k>>] = buf[<<"cl", k>>]
      BY <1>0, <2>n DEF TypeOK, Consume
    <3> QED BY <1>0, <1>1, <3>1 DEF TypeOK, ReadHandshake
  <2>d. buf'[<<"sv", k>>] = <<>>
    BY <1>T, <2>0, <2>s, Dropped
  <2>2. Phase(k)'
    BY <2>0, <2>1, <2>s DEF ConnInv, Phase, Control, Spoken
  <2>3. Control(k)'
    BY <2>0, <2>1, <2>d DEF ConnInv, Control
  <2>4. Polled("cl", k)' /\ Polled("sv", k)'
    BY <1>P, <2>0, <2>1 DEF ConnInv, Phase, Polled
  <2>5. Flow("cl", k)' /\ Flow("sv", k)'
    <3>1. ~Relaying("cl", k)' /\ ~Relaying("sv", k)'
      BY <2>0, <2>1 DEF ConnInv, Phase, Relaying
    <3> QED BY <1>0, <1>P, <2>0, <2>1, <2>d, <3>1 DEF ConnInv, Phase, Flow
  <2>6. Owned("cl", k)' /\ Owned("sv", k)'
    BY <1>P, <2>0, <2>1 DEF ConnInv, Phase, Owned, StreamOwner, ConnOwner
  <2> QED BY <1>0, <2>2, <2>3, <2>4, <2>5, <2>6 DEF ConnInv
<1>2. CASE ReadHandshakeFails(k)
  <2>0. /\ handler'[k] = "ioerr" /\ end'[<<"cl", k>>] = end[<<"cl", k>>]
        /\ end'[<<"sv", k>>] = "closed"
        /\ UNCHANGED <<opener, sess, conn, armed, poll, read, sent, got, lost, buf, copier>>
    BY <1>0, <1>2 DEF TypeOK, ReadHandshakeFails
  <2>1. handler[k] = "readHs"
    BY <1>2 DEF ReadHandshakeFails
  <2>2. Phase(k)'
    BY <2>0, <2>1 DEF ConnInv, Phase, Spoken
  <2>3. Control(k)'
    BY <1>T, <2>0, <2>1 DEF ConnInv, Phase, Control
  <2>4. Polled("cl", k)' /\ Polled("sv", k)'
    BY <1>P, <2>0, <2>1 DEF ConnInv, Phase, Polled
  <2>5. Flow("cl", k)' /\ Flow("sv", k)'
    <3>1. /\ Relaying("cl", k)' => Relaying("cl", k) /\ Ahead("cl", k)' = Ahead("cl", k)
          /\ Relaying("sv", k)' => Relaying("sv", k) /\ Ahead("sv", k)' = Ahead("sv", k)
      BY <2>0, <2>1 DEF ConnInv, Phase, Relaying, Ahead
    <3>2. Relaying("cl", k)' => InFlight("cl", k)'
      BY <1>0, <1>P, <2>0, <3>1 DEF Flow, InFlight
    <3>3. Relaying("sv", k)' => InFlight("sv", k)'
      BY <1>0, <1>P, <2>0, <3>1 DEF Flow, InFlight
    <3> QED BY <1>0, <1>P, <2>0, <2>1, <3>2, <3>3 DEF ConnInv, Phase, Flow
  <2>6. Owned("cl", k)' /\ Owned("sv", k)'
    BY <1>P, <2>0, <2>1 DEF ConnInv, Phase, Owned, StreamOwner, ConnOwner
  <2> QED BY <1>0, <2>2, <2>3, <2>4, <2>5, <2>6 DEF ConnInv
<1>3. CASE HandleHandshake(k)
  <2>0. /\ handler'[k] = "dial"
        /\ UNCHANGED <<opener, sess, end, conn, armed, poll, read, sent, got, lost, buf, copier>>
    BY <1>0, <1>3 DEF TypeOK, HandleHandshake
  <2>1. handler[k] = "handle"
    BY <1>3 DEF HandleHandshake
  <2>2. Phase(k)'
    BY <2>0, <2>1 DEF ConnInv, Phase, Spoken
  <2>3. Control(k)'
    BY <1>T, <2>0, <2>1 DEF ConnInv, Phase, Control
  <2>4. Polled("cl", k)' /\ Polled("sv", k)'
    BY <1>P, <2>0, <2>1 DEF ConnInv, Phase, Polled
  <2>5. Flow("cl", k)' /\ Flow("sv", k)'
    <3>1. /\ Relaying("cl", k)' => Relaying("cl", k) /\ Ahead("cl", k)' = Ahead("cl", k)
          /\ Relaying("sv", k)' => Relaying("sv", k) /\ Ahead("sv", k)' = Ahead("sv", k)
      BY <2>0, <2>1 DEF ConnInv, Phase, Relaying, Ahead
    <3>2. Relaying("cl", k)' => InFlight("cl", k)'
      BY <1>0, <1>P, <2>0, <3>1 DEF Flow, InFlight
    <3>3. Relaying("sv", k)' => InFlight("sv", k)'
      BY <1>0, <1>P, <2>0, <3>1 DEF Flow, InFlight
    <3> QED BY <1>0, <1>P, <2>0, <2>1, <3>2, <3>3 DEF ConnInv, Phase, Flow
  <2>6. Owned("cl", k)' /\ Owned("sv", k)'
    BY <1>P, <2>0, <2>1 DEF ConnInv, Phase, Owned, StreamOwner, ConnOwner
  <2> QED BY <1>0, <2>2, <2>3, <2>4, <2>5, <2>6 DEF ConnInv
<1>4. CASE HandleHandshakeFails(k)
  <2>1. handler[k] = "handle" /\ buf[<<"cl", k>>] = <<>>
    BY <1>4 DEF HandleHandshakeFails, ConnInv, Control
  <2>0. /\ handler'[k] = "refused"
        /\ buf'[<<"cl", k>>] \in {<<>>, <<Err>>} /\ buf'[<<"sv", k>>] = buf[<<"sv", k>>]
        /\ end'[<<"sv", k>>] = "closed" /\ end'[<<"cl", k>>] = end[<<"cl", k>>]
        /\ UNCHANGED <<opener, sess, conn, armed, poll, read, sent, got, lost, copier>>
    <3>1. buf'[<<"cl", k>>] \in {<<>>, <<Err>>} /\ buf'[<<"sv", k>>] = buf[<<"sv", k>>]
      <4>1. CASE WriteOk("sv", k, Err)
        <5>1. /\ buf'[<<"sv", k>>] = buf[<<"sv", k>>]
              /\ \/ buf'[<<"cl", k>>] = Append(<<>>, Err)
                 \/ buf'[<<"cl", k>>] = <<>>
          BY <1>0, <2>1, <4>1, ZenonT(60) DEF TypeOK, WriteOk
        <5> QED BY <5>1, AppendEmpty, ItemType
      <4>2. CASE UNCHANGED buf
        BY <2>1, <4>2
      <4> QED BY <1>4, <4>1, <4>2 DEF HandleHandshakeFails, Refuse
    <3> QED BY <1>0, <1>4, <3>1 DEF TypeOK, HandleHandshakeFails, Refuse
  <2>2. Phase(k)'
    BY <2>0, <2>1 DEF ConnInv, Phase, Spoken
  <2>3. Control(k)'
    <3>1. \A i \in 1 .. Len(buf'[<<"cl", k>>]) : buf'[<<"cl", k>>][i] # Ok
      BY <2>0, MaxSendAssumption DEF Ok, Err
    <3> QED BY <2>0, <2>1, <3>1 DEF ConnInv, Phase, Control
  <2>4. Polled("cl", k)' /\ Polled("sv", k)'
    BY <1>P, <2>0, <2>1 DEF ConnInv, Phase, Polled
  <2>5. Flow("cl", k)' /\ Flow("sv", k)'
    <3>1. ~Relaying("cl", k)' /\ ~Relaying("sv", k)'
      BY <2>0, <2>1 DEF ConnInv, Phase, Relaying
    <3> QED BY <1>0, <1>P, <2>0, <2>1, <3>1 DEF ConnInv, Phase, Flow
  <2>6. Owned("cl", k)' /\ Owned("sv", k)'
    BY <1>P, <2>0, <2>1 DEF ConnInv, Phase, Owned, StreamOwner, ConnOwner
  <2> QED BY <1>0, <2>2, <2>3, <2>4, <2>5, <2>6 DEF ConnInv
<1>5. CASE DialTarget(k)
  <2>0. /\ handler'[k] = "writeRsp" /\ sess'[<<"cl", k>>] = sess[<<"cl", k>>]
        /\ sess'[<<"sv", k>>] = TRUE /\ conn'[<<"cl", k>>] = conn[<<"cl", k>>]
        /\ conn'[<<"sv", k>>] = "open"
        /\ UNCHANGED <<opener, end, armed, poll, read, sent, got, lost, buf, copier>>
    BY <1>0, <1>5 DEF TypeOK, DialTarget
  <2>1. handler[k] = "dial"
    BY <1>5 DEF DialTarget
  <2>2. Phase(k)'
    BY <2>0, <2>1 DEF ConnInv, Phase, Spoken
  <2>3. Control(k)'
    BY <1>T, <2>0, <2>1 DEF ConnInv, Phase, Control
  <2>4. Polled("cl", k)' /\ Polled("sv", k)'
    BY <1>P, <2>0, <2>1 DEF ConnInv, Phase, Polled
  <2>5. Flow("cl", k)' /\ Flow("sv", k)'
    <3>1. ~Relaying("cl", k)' /\ ~Relaying("sv", k)'
      BY <2>0, <2>1 DEF ConnInv, Phase, Relaying
    <3> QED BY <1>0, <1>P, <2>0, <2>1, <3>1 DEF ConnInv, Phase, Flow
  <2>6. Owned("cl", k)' /\ Owned("sv", k)'
    BY <1>P, <2>0, <2>1 DEF ConnInv, Phase, Owned, StreamOwner, ConnOwner
  <2> QED BY <1>0, <2>2, <2>3, <2>4, <2>5, <2>6 DEF ConnInv
<1>6. CASE DialTargetFails(k)
  <2>1. handler[k] = "dial" /\ buf[<<"cl", k>>] = <<>>
    BY <1>6 DEF DialTargetFails, ConnInv, Control
  <2>0. /\ handler'[k] = "refused"
        /\ buf'[<<"cl", k>>] \in {<<>>, <<Err>>} /\ buf'[<<"sv", k>>] = buf[<<"sv", k>>]
        /\ end'[<<"sv", k>>] = "closed" /\ end'[<<"cl", k>>] = end[<<"cl", k>>]
        /\ UNCHANGED <<opener, sess, conn, armed, poll, read, sent, got, lost, copier>>
    <3>1. buf'[<<"cl", k>>] \in {<<>>, <<Err>>} /\ buf'[<<"sv", k>>] = buf[<<"sv", k>>]
      <4>1. CASE WriteOk("sv", k, Err)
        <5>1. /\ buf'[<<"sv", k>>] = buf[<<"sv", k>>]
              /\ \/ buf'[<<"cl", k>>] = Append(<<>>, Err)
                 \/ buf'[<<"cl", k>>] = <<>>
          BY <1>0, <2>1, <4>1, ZenonT(60) DEF TypeOK, WriteOk
        <5> QED BY <5>1, AppendEmpty, ItemType
      <4>2. CASE UNCHANGED buf
        BY <2>1, <4>2
      <4> QED BY <1>6, <4>1, <4>2 DEF DialTargetFails, Refuse
    <3> QED BY <1>0, <1>6, <3>1 DEF TypeOK, DialTargetFails, Refuse
  <2>2. Phase(k)'
    BY <2>0, <2>1 DEF ConnInv, Phase, Spoken
  <2>3. Control(k)'
    <3>1. \A i \in 1 .. Len(buf'[<<"cl", k>>]) : buf'[<<"cl", k>>][i] # Ok
      BY <2>0, MaxSendAssumption DEF Ok, Err
    <3> QED BY <2>0, <2>1, <3>1 DEF ConnInv, Phase, Control
  <2>4. Polled("cl", k)' /\ Polled("sv", k)'
    BY <1>P, <2>0, <2>1 DEF ConnInv, Phase, Polled
  <2>5. Flow("cl", k)' /\ Flow("sv", k)'
    <3>1. ~Relaying("cl", k)' /\ ~Relaying("sv", k)'
      BY <2>0, <2>1 DEF ConnInv, Phase, Relaying
    <3> QED BY <1>0, <1>P, <2>0, <2>1, <3>1 DEF ConnInv, Phase, Flow
  <2>6. Owned("cl", k)' /\ Owned("sv", k)'
    BY <1>P, <2>0, <2>1 DEF ConnInv, Phase, Owned, StreamOwner, ConnOwner
  <2> QED BY <1>0, <2>2, <2>3, <2>4, <2>5, <2>6 DEF ConnInv
<1>7. CASE WriteResponse(k)
  <2>0. /\ handler'[k] = "addConn"
        /\ buf'[<<"cl", k>>] = (IF end[<<"cl", k>>] = "open" THEN Append(buf[<<"cl", k>>], Ok)
                                  ELSE buf[<<"cl", k>>])
        /\ buf'[<<"sv", k>>] = buf[<<"sv", k>>]
        /\ UNCHANGED <<opener, sess, end, conn, armed, poll, read, sent, got, lost, copier>>
    BY <1>0, <1>7, ZenonT(60) DEF TypeOK, WriteResponse, WriteOk
  <2>1. handler[k] = "writeRsp"
    BY <1>7 DEF WriteResponse
  <2>2. Phase(k)'
    BY <2>0, <2>1 DEF ConnInv, Phase, Spoken
  <2>3. Control(k)'
    BY <1>T, <2>0, <2>1 DEF ConnInv, Phase, Control
  <2>4. Polled("cl", k)' /\ Polled("sv", k)'
    BY <1>P, <2>0, <2>1 DEF ConnInv, Phase, Polled
  <2>5. Flow("cl", k)' /\ Flow("sv", k)'
    <3>1. /\ poll[<<"cl", k>>] = "idle" /\ poll[<<"sv", k>>] = "idle"
          /\ read[<<"cl", k>>] = 0 /\ read[<<"sv", k>>] = 0
          /\ got[<<"cl", k>>] = <<>> /\ got[<<"sv", k>>] = <<>>
          /\ lost[<<"cl", k>>] = 0 /\ lost[<<"sv", k>>] = 0
          /\ buf[<<"cl", k>>] = <<>> /\ buf[<<"sv", k>>] = <<>>
      BY <1>P, <1>T, <2>1 DEF ConnInv, Phase, Control, Polled, Flow
    <3>2. Relaying("cl", k)' => Ahead("cl", k)' = 1 /\ buf'[<<"cl", k>>] = <<Ok>>
      BY <2>0, <2>1, <3>1 DEF ConnInv, Phase, Relaying, Ahead
    <3>3. Relaying("cl", k)' => InFlight("cl", k)'
      BY <1>0, <2>0, <3>1, <3>2, FlowStart DEF InFlight
    <3>4. Ahead("sv", k)' = 0
      BY DEF Ahead
    <3>5. InFlight("sv", k)'
      BY <1>0, <2>0, <3>1, <3>4, FlowStart DEF InFlight
    <3> QED BY <1>0, <1>P, <2>0, <2>1, <3>3, <3>5 DEF Flow
  <2>6. Owned("cl", k)' /\ Owned("sv", k)'
    BY <1>P, <2>0, <2>1 DEF ConnInv, Phase, Owned, StreamOwner, ConnOwner
  <2> QED BY <1>0, <2>2, <2>3, <2>4, <2>5, <2>6 DEF ConnInv
<1>8. CASE WriteResponseFails(k)
  <2>0. /\ handler'[k] = "ioerr" /\ end'[<<"cl", k>>] = end[<<"cl", k>>]
        /\ end'[<<"sv", k>>] = "closed" /\ conn'[<<"cl", k>>] = conn[<<"cl", k>>]
        /\ conn'[<<"sv", k>>] = "closed"
        /\ UNCHANGED <<opener, sess, armed, poll, read, sent, got, lost, buf, copier>>
    BY <1>0, <1>8 DEF TypeOK, WriteResponseFails
  <2>1. handler[k] = "writeRsp"
    BY <1>8 DEF WriteResponseFails
  <2>2. Phase(k)'
    BY <2>0, <2>1 DEF ConnInv, Phase, Spoken
  <2>3. Control(k)'
    BY <1>T, <2>0, <2>1 DEF ConnInv, Phase, Control
  <2>4. Polled("cl", k)' /\ Polled("sv", k)'
    BY <1>P, <2>0, <2>1 DEF ConnInv, Phase, Polled
  <2>5. Flow("cl", k)' /\ Flow("sv", k)'
    <3>1. ~Relaying("cl", k)' /\ ~Relaying("sv", k)'
      BY <2>0, <2>1 DEF ConnInv, Phase, Relaying
    <3> QED BY <1>0, <1>P, <2>0, <2>1, <3>1 DEF ConnInv, Phase, Flow
  <2>6. Owned("cl", k)' /\ Owned("sv", k)'
    BY <1>P, <2>0, <2>1 DEF ConnInv, Phase, Owned, StreamOwner, ConnOwner
  <2> QED BY <1>0, <2>2, <2>3, <2>4, <2>5, <2>6 DEF ConnInv
<1>9. CASE AddConn(k)
  <2>0. /\ handler'[k] = "serve" /\ armed'[<<"cl", k>>] = armed[<<"cl", k>>]
        /\ armed'[<<"sv", k>>] = TRUE /\ copier'[<<"cl", k>>] = copier[<<"cl", k>>]
        /\ copier'[<<"sv", k>>] = "copy"
        /\ UNCHANGED <<opener, sess, end, conn, poll, read, sent, got, lost, buf>>
    BY <1>0, <1>9 DEF TypeOK, AddConn
  <2>1. handler[k] = "addConn"
    BY <1>9 DEF AddConn
  <2>2. Phase(k)'
    BY <2>0, <2>1 DEF ConnInv, Phase, Spoken
  <2>3. Control(k)'
    BY <1>T, <2>0, <2>1 DEF ConnInv, Phase, Control
  <2>4. Polled("cl", k)' /\ Polled("sv", k)'
    BY <1>P, <2>0, <2>1 DEF ConnInv, Phase, Polled
  <2>5. Flow("cl", k)' /\ Flow("sv", k)'
    <3>1. /\ Relaying("cl", k)' => Relaying("cl", k) /\ Ahead("cl", k)' = Ahead("cl", k)
          /\ Relaying("sv", k)' => Relaying("sv", k) /\ Ahead("sv", k)' = Ahead("sv", k)
      BY <2>0, <2>1 DEF ConnInv, Phase, Relaying, Ahead
    <3>2. Relaying("cl", k)' => InFlight("cl", k)'
      BY <1>0, <1>P, <2>0, <3>1 DEF Flow, InFlight
    <3>3. Relaying("sv", k)' => InFlight("sv", k)'
      BY <1>0, <1>P, <2>0, <3>1 DEF Flow, InFlight
    <3> QED BY <1>0, <1>P, <2>0, <2>1, <3>2, <3>3 DEF ConnInv, Phase, Flow
  <2>6. Owned("cl", k)' /\ Owned("sv", k)'
    BY <1>P, <2>0, <2>1 DEF ConnInv, Phase, Owned, StreamOwner, ConnOwner
  <2> QED BY <1>0, <2>2, <2>3, <2>4, <2>5, <2>6 DEF ConnInv
<1> QED BY <1>1, <1>2, <1>3, <1>4, <1>5, <1>6, <1>7, <1>8, <1>9 DEF HandlerStep

\* What is under way to side z does not change with the rest.
LEMMA FlowFrame ==
    ASSUME NEW k \in Conns, NEW z \in Sides, Flow(z, k),
           got'[<<z, k>>] = got[<<z, k>>], lost'[<<z, k>>] = lost[<<z, k>>], buf'[<<z, k>>] = buf[<<z, k>>],
           opener'[k] = opener[k], handler'[k] = handler[k],
           Relaying(z, k)' => Relaying(z, k),
           copier'[<<z, k>>] = "none" => copier[<<z, k>>] = "none",
           read'[<<Other(z), k>>] = read[<<Other(z), k>>],
           poll'[<<Other(z), k>>] = poll[<<Other(z), k>>],
           conn'[<<Other(z), k>>] = conn[<<Other(z), k>>]
    PROVE  Flow(z, k)'
<1>1. Ahead(z, k)' = Ahead(z, k)
  BY DEF Ahead
<1> QED BY <1>1 DEF Flow, InFlight

\* The poller callbacks preserve the invariant of their connection.
LEMMA PollInv ==
    ASSUME TypeOK, NEW k \in Conns, NEW x \in Sides, ConnInv(k), PollStep(x, k)
    PROVE  ConnInv(k)'
<1> DEFINE y == Other(x)
<1>0. /\ <<x, k>> \in Ends /\ <<y, k>> \in Ends /\ <<x, k>> # <<y, k>>
      /\ Sides = {x, y} /\ x \in Sides /\ y \in Sides /\ Other(x) = y /\ Other(y) = x
      /\ (x = "cl" /\ y = "sv") \/ (x = "sv" /\ y = "cl")
  BY DEF Sides, Ends, Other
<1> HIDE DEF y
<1> USE DEF outer, given, nb
<1>P. /\ Polled(x, k) /\ Flow(x, k) /\ Owned(x, k)
      /\ Polled(y, k) /\ Flow(y, k) /\ Owned(y, k)
  BY <1>0 DEF ConnInv
<1>T. /\ buf[<<x, k>>] \in Seq(Item) /\ buf[<<y, k>>] \in Seq(Item)
      /\ got[<<x, k>>] \in Seq(Item) /\ got[<<y, k>>] \in Seq(Item)
      /\ lost[<<x, k>>] \in Nat /\ lost[<<y, k>>] \in Nat
      /\ Len(buf[<<y, k>>]) \in Nat
      /\ read[<<x, k>>] \in 0 .. MaxSend /\ read[<<x, k>>] \in Nat /\ read[<<y, k>>] \in Nat
      /\ sent[<<x, k>>] \in Nat /\ sent[<<y, k>>] \in Nat
      /\ poll[<<x, k>>] \in {"idle", "write"} /\ poll[<<y, k>>] \in {"idle", "write"}
  BY <1>0, MaxSendAssumption DEF TypeOK
<1>1. CASE onConnData(x, k)
  <2>1. /\ armed[<<x, k>>] /\ conn[<<x, k>>] = "open" /\ poll[<<x, k>>] = "idle"
        /\ read[<<x, k>>] < sent[<<x, k>>]
    BY <1>1 DEF onConnData
  <2>0. /\ read'[<<x, k>>] = read[<<x, k>>] + 1 /\ read'[<<y, k>>] = read[<<y, k>>]
        /\ poll'[<<y, k>>] = poll[<<y, k>>] /\ conn'[<<y, k>>] = conn[<<y, k>>]
        /\ \/ poll'[<<x, k>>] = "write" /\ conn'[<<x, k>>] = "open"
           \/ poll'[<<x, k>>] = "idle" /\ conn'[<<x, k>>] = "closed"
        /\ UNCHANGED <<opener, handler, sess, end, armed, sent, got, lost, buf, copier>>
    <3>1. read'[<<x, k>>] = read[<<x, k>>] + 1 /\ read'[<<y, k>>] = read[<<y, k>>]
      BY <1>0, <1>1 DEF TypeOK, onConnData
    <3> QED BY <1>0, <1>1, <2>1, <3>1 DEF TypeOK, onConnData, CloseConn
  <2>2. Phase(k)'
    BY <1>0, <2>0, <2>1 DEF ConnInv, Phase, Spoken
  <2>3. Control(k)'
    BY <2>0, <2>1 DEF ConnInv, Control
  <2>4. Polled(x, k)' /\ Polled(y, k)'
    BY <1>0, <1>P, <1>T, <2>0, <2>1 DEF Polled
  <2>5. Flow(x, k)'
    <3>1. Relaying(x, k)' => Relaying(x, k)
      BY <1>0, <2>0, <2>1 DEF Relaying
    <3> QED BY <1>0, <1>P, <2>0, <2>1, <3>1, FlowFrame
  <2>6. Flow(y, k)'
    <3>1. (Relaying(y, k)' => Relaying(y, k)) /\ Ahead(y, k)' = Ahead(y, k)
      BY <1>0, <2>0 DEF Relaying, Ahead
    <3>2. ASSUME Relaying(y, k)' PROVE InFlight(y, k)'
      <4>1. Continues(got[<<y, k>>], lost[<<y, k>>], buf[<<y, k>>], Ahead(y, k),
                      read[<<x, k>>], "idle", "open")
        BY <1>0, <1>P, <2>1, <3>1, <3>2 DEF Flow, InFlight
      <4>2. /\ Continues(got[<<y, k>>], lost[<<y, k>>], buf[<<y, k>>], Ahead(y, k),
                         read[<<x, k>>] + 1, "write", "open")
            /\ Continues(got[<<y, k>>], lost[<<y, k>>], buf[<<y, k>>], Ahead(y, k),
                         read[<<x, k>>] + 1, "idle", "closed")
        BY <1>T, <4>1, FlowRead, AheadType
      <4> QED BY <1>0, <2>0, <3>1, <4>2 DEF InFlight
    <3>3. InOrder(got'[<<y, k>>], lost'[<<y, k>>], read'[<<x, k>>])
      BY <1>0, <1>P, <1>T, <2>0, PrefixMore DEF Flow
    <3> QED BY <1>0, <1>P, <2>0, <3>2, <3>3 DEF Flow
  <2>7. Owned(x, k)' /\ Owned(y, k)'
    BY <1>0, <1>P, <2>0, <2>1 DEF ConnInv, Phase, Owned, StreamOwner, ConnOwner
  <2> QED BY <1>0, <2>2, <2>3, <2>4, <2>5, <2>6, <2>7 DEF ConnInv
<1>2. CASE onConnDataWrite(x, k)
  <2>1. /\ poll[<<x, k>>] = "write" /\ armed[<<x, k>>]
        /\ read[<<x, k>>] \in Chunk /\ read[<<x, k>>] \in Item
    BY <1>2, <1>P, <1>T, MaxSendAssumption, ItemType DEF onConnDataWrite, Polled, Chunk
  <2>a. /\ x = "cl" => opener[k] = "done"
        /\ handler[k] \in {"addConn", "serve"}
        /\ x = "sv" => handler[k] = "serve"
    BY <1>0, <2>1 DEF ConnInv, Phase
  <2>0. /\ poll'[<<x, k>>] = "idle" /\ poll'[<<y, k>>] = poll[<<y, k>>]
        /\ \/ buf'[<<y, k>>] = Append(buf[<<y, k>>], read[<<x, k>>]) /\ end[<<y, k>>] = "open"
           \/ buf'[<<y, k>>] = buf[<<y, k>>] /\ end[<<y, k>>] # "open"
        /\ buf'[<<x, k>>] = buf[<<x, k>>]
        /\ UNCHANGED <<opener, handler, sess, end, conn, armed, read, sent, got, lost, copier>>
    BY <1>0, <1>2 DEF TypeOK, onConnDataWrite, WriteOk
  <2>2. Phase(k)'
    BY <2>0 DEF ConnInv, Phase, Spoken
  <2>3. Control(k)'
    <3>1. read[<<x, k>>] # Ok
      BY <2>1, MaxSendAssumption DEF Chunk, Ok
    <3>2. CASE x = "cl"
      BY <1>0, <2>0, <2>a, <3>2 DEF ConnInv, Control
    <3>3. CASE x = "sv"
      <4>1. \A i \in 1 .. Len(buf'[<<"cl", k>>]) : buf'[<<"cl", k>>][i] = Ok => handler[k] = "serve"
        BY <1>0, <2>a, <3>3
      <4>2. ASSUME Len(buf[<<"cl", k>>]) >= 1
            PROVE  Len(buf'[<<"cl", k>>]) >= 1 /\ buf'[<<"cl", k>>][1] = buf[<<"cl", k>>][1]
        <5>1. LET a == Append(buf[<<"cl", k>>], read[<<x, k>>])
              IN  Len(a) >= 1 /\ a[1] = buf[<<"cl", k>>][1]
          BY <1>0, <1>T, <2>1, <3>3, <4>2, AppendKeeps
        <5> QED BY <1>0, <2>0, <3>3, <4>2, <5>1
      <4> QED BY <1>0, <2>0, <2>a, <3>3, <4>1, <4>2 DEF ConnInv, Control
    <3> QED BY <1>0, <3>2, <3>3
  <2>4. Polled(x, k)' /\ Polled(y, k)'
    BY <1>0, <1>P, <1>T, <2>0, <2>1 DEF Polled
  <2>5. Flow(x, k)'
    <3>1. Relaying(x, k)' => Relaying(x, k)
      BY <1>0, <2>0, <2>1 DEF Relaying
    <3> QED BY <1>0, <1>P, <2>0, <2>1, <3>1, FlowFrame
  <2>6. Flow(y, k)'
    <3>1. (Relaying(y, k)' => Relaying(y, k)) /\ Ahead(y, k)' = Ahead(y, k)
      BY <1>0, <2>0 DEF Relaying, Ahead
    <3>2. ASSUME Relaying(y, k)' PROVE InFlight(y, k)'
      <4>1. Continues(got[<<y, k>>], lost[<<y, k>>], buf[<<y, k>>], Ahead(y, k),
                      read[<<x, k>>], "write", conn[<<x, k>>])
        BY <1>0, <1>P, <2>1, <3>1, <3>2 DEF Flow, InFlight
      <4>2. Ahead(y, k) <= Len(buf[<<y, k>>])
        <5>1. CASE y = "cl" /\ opener[k] = "readRsp"
          <6>1. Len(buf[<<y, k>>]) >= 1
            BY <2>a, <5>1 DEF ConnInv, Control
          <6> QED BY <5>1, <6>1 DEF Ahead
        <5>2. CASE ~(y = "cl" /\ opener[k] = "readRsp")
          BY <1>T, <5>2 DEF Ahead
        <5> QED BY <5>1, <5>2
      <4>3. Continues(got[<<y, k>>], lost[<<y, k>>], Append(buf[<<y, k>>], read[<<x, k>>]), Ahead(y, k),
                      read[<<x, k>>], "idle", conn[<<x, k>>])
        BY <1>T, <2>1, <4>1, <4>2, FlowWrite, AheadType
      <4>4. end[<<y, k>>] = "open"
        BY <3>1, <3>2 DEF Relaying
      <4> QED BY <1>0, <2>0, <3>1, <4>3, <4>4 DEF InFlight
    <3> QED BY <1>0, <1>P, <2>0, <2>a, <3>2 DEF Flow
  <2>7. Owned(x, k)' /\ Owned(y, k)'
    BY <1>0, <1>P, <2>0, <2>1 DEF ConnInv, Phase, Owned, StreamOwner, ConnOwner
  <2> QED BY <1>0, <2>2, <2>3, <2>4, <2>5, <2>6, <2>7 DEF ConnInv
<1>3. CASE onConnDataWriteFails(x, k)
  <2>1. poll[<<x, k>>] = "write" /\ armed[<<x, k>>]
    BY <1>3, <1>P DEF onConnDataWriteFails, Polled
  <2>0. /\ poll'[<<x, k>>] = "idle" /\ poll'[<<y, k>>] = poll[<<y, k>>]
        /\ conn'[<<x, k>>] = "closed" /\ conn'[<<y, k>>] = conn[<<y, k>>]
        /\ (sess'[<<x, k>>] => sess[<<x, k>>]) /\ (sess'[<<y, k>>] => sess[<<y, k>>])
        /\ UNCHANGED <<opener, handler, end, armed, read, sent, got, lost, buf, copier>>
    <3>1. sess' = [sess EXCEPT ![<<x, k>>] = FALSE]
      BY <1>3 DEF onConnDataWriteFails
    <3>2. ~sess'[<<x, k>>] /\ sess'[<<y, k>>] = sess[<<y, k>>]
      BY <1>0, <3>1, ZenonT(60) DEF TypeOK
    <3>3. /\ poll'[<<x, k>>] = "idle" /\ poll'[<<y, k>>] = poll[<<y, k>>]
          /\ conn'[<<x, k>>] = "closed" /\ conn'[<<y, k>>] = conn[<<y, k>>]
          /\ UNCHANGED <<opener, handler, end, armed, read, sent, got, lost, buf, copier>>
      BY <1>0, <1>3 DEF TypeOK, onConnDataWriteFails, CloseConn
    <3> QED BY <3>2, <3>3
  <2>2. Phase(k)'
    BY <1>0, <2>0, <2>1 DEF ConnInv, Phase, Spoken
  <2>3. Control(k)'
    BY <2>0, <2>1 DEF ConnInv, Control
  <2>4. Polled(x, k)' /\ Polled(y, k)'
    BY <1>0, <1>P, <1>T, <2>0, <2>1 DEF Polled
  <2>5. Flow(x, k)'
    <3>1. Relaying(x, k)' => Relaying(x, k)
      BY <1>0, <2>0, <2>1 DEF Relaying
    <3> QED BY <1>0, <1>P, <2>0, <2>1, <3>1, FlowFrame
  <2>6. Flow(y, k)'
    <3>1. Relaying(y, k)' => Relaying(y, k) /\ Ahead(y, k)' = Ahead(y, k)
      BY <1>0, <2>0 DEF Relaying, Ahead
    <3>2. ASSUME Relaying(y, k)' PROVE InFlight(y, k)'
      <4>1. Continues(got[<<y, k>>], lost[<<y, k>>], buf[<<y, k>>], Ahead(y, k),
                      read[<<x, k>>], poll[<<x, k>>], conn[<<x, k>>])
        BY <1>0, <1>P, <3>1, <3>2 DEF Flow, InFlight
      <4>2. /\ Continues(got[<<y, k>>], lost[<<y, k>>], buf[<<y, k>>], Ahead(y, k),
                         read[<<x, k>>], "idle", "closed")
            /\ Continues(got[<<y, k>>], lost[<<y, k>>], buf[<<y, k>>], Ahead(y, k),
                         read[<<x, k>>], poll[<<x, k>>], "closed")
        BY <1>T, <4>1, FlowStop, AheadType, SMTT(30)
      <4> QED BY <1>0, <2>0, <3>1, <3>2, <4>2 DEF InFlight
    <3> QED BY <1>0, <1>P, <2>0, <3>2 DEF Flow
  <2>7. Owned(x, k)' /\ Owned(y, k)'
    BY <1>0, <1>P, <2>0, <2>1 DEF ConnInv, Phase, Owned, StreamOwner, ConnOwner
  <2> QED BY <1>0, <2>2, <2>3, <2>4, <2>5, <2>6, <2>7 DEF ConnInv
<1>4. CASE PollEOF(x, k)
  <2>1. poll[<<x, k>>] = "idle"
    BY <1>4 DEF PollEOF
  <2>0. /\ conn'[<<x, k>>] = "closed" /\ conn'[<<y, k>>] = conn[<<y, k>>]
        /\ UNCHANGED <<opener, handler, sess, end, armed, poll, read, sent, got, lost, buf, copier>>
    BY <1>0, <1>4 DEF TypeOK, PollEOF, CloseConn
  <2>2. Phase(k)'
    BY <1>0, <2>0, <2>1 DEF ConnInv, Phase, Spoken
  <2>3. Control(k)'
    BY <2>0, <2>1 DEF ConnInv, Control
  <2>4. Polled(x, k)' /\ Polled(y, k)'
    BY <1>0, <1>P, <1>T, <2>0, <2>1 DEF Polled
  <2>5. Flow(x, k)'
    <3>1. Relaying(x, k)' => Relaying(x, k)
      BY <1>0, <2>0, <2>1 DEF Relaying
    <3> QED BY <1>0, <1>P, <2>0, <2>1, <3>1, FlowFrame
  <2>6. Flow(y, k)'
    <3>1. Relaying(y, k)' => Relaying(y, k) /\ Ahead(y, k)' = Ahead(y, k)
      BY <1>0, <2>0 DEF Relaying, Ahead
    <3>2. ASSUME Relaying(y, k)' PROVE InFlight(y, k)'
      <4>1. Continues(got[<<y, k>>], lost[<<y, k>>], buf[<<y, k>>], Ahead(y, k),
                      read[<<x, k>>], poll[<<x, k>>], conn[<<x, k>>])
        BY <1>0, <1>P, <3>1, <3>2 DEF Flow, InFlight
      <4>2. /\ Continues(got[<<y, k>>], lost[<<y, k>>], buf[<<y, k>>], Ahead(y, k),
                         read[<<x, k>>], "idle", "closed")
            /\ Continues(got[<<y, k>>], lost[<<y, k>>], buf[<<y, k>>], Ahead(y, k),
                         read[<<x, k>>], poll[<<x, k>>], "closed")
        BY <1>T, <4>1, FlowStop, AheadType, SMTT(30)
      <4> QED BY <1>0, <2>0, <3>1, <3>2, <4>2 DEF InFlight
    <3> QED BY <1>0, <1>P, <2>0, <3>2 DEF Flow
  <2>7. Owned(x, k)' /\ Owned(y, k)'
    BY <1>0, <1>P, <2>0, <2>1 DEF ConnInv, Phase, Owned, StreamOwner, ConnOwner
  <2> QED BY <1>0, <2>2, <2>3, <2>4, <2>5, <2>6, <2>7 DEF ConnInv
<1> QED BY <1>1, <1>2, <1>3, <1>4 DEF PollStep

\* onConnClose preserves the invariant of its connection.
LEMMA CloseInv ==
    ASSUME TypeOK, NEW k \in Conns, NEW x \in Sides, ConnInv(k), onConnClose(x, k)
    PROVE  ConnInv(k)'
<1> DEFINE y == Other(x)
<1>0. /\ <<x, k>> \in Ends /\ <<y, k>> \in Ends /\ <<x, k>> # <<y, k>>
      /\ Sides = {x, y} /\ x \in Sides /\ y \in Sides /\ Other(x) = y /\ Other(y) = x
      /\ (x = "cl" /\ y = "sv") \/ (x = "sv" /\ y = "cl")
  BY DEF Sides, Ends, Other
<1> HIDE DEF y
<1> USE DEF outer, given, nb
<1>P. /\ Polled(x, k) /\ Flow(x, k) /\ Owned(x, k)
      /\ Polled(y, k) /\ Flow(y, k) /\ Owned(y, k)
  BY <1>0 DEF ConnInv
<1>T. /\ buf[<<x, k>>] \in Seq(Item) /\ buf[<<y, k>>] \in Seq(Item)
      /\ got[<<x, k>>] \in Seq(Item) /\ got[<<y, k>>] \in Seq(Item)
      /\ lost[<<x, k>>] \in Nat /\ lost[<<y, k>>] \in Nat
      /\ Len(buf[<<y, k>>]) \in Nat
      /\ read[<<x, k>>] \in 0 .. MaxSend /\ read[<<x, k>>] \in Nat /\ read[<<y, k>>] \in Nat
      /\ sent[<<x, k>>] \in Nat /\ sent[<<y, k>>] \in Nat
      /\ poll[<<x, k>>] \in {"idle", "write"} /\ poll[<<y, k>>] \in {"idle", "write"}
  BY <1>0, MaxSendAssumption DEF TypeOK
<1>1. CASE onConnClose(x, k)
  <2>1. end'[<<x, k>>] = "closed" => sess[<<x, k>>] \/ end[<<x, k>>] = "closed"
    BY <1>0, <1>1 DEF TypeOK, onConnClose
  <2>0. /\ end'[<<x, k>>] \in {end[<<x, k>>], "closed"} /\ end'[<<y, k>>] = end[<<y, k>>]
        /\ UNCHANGED <<opener, handler, sess, conn, armed, poll, read, sent, got, lost, buf, copier>>
    BY <1>0, <1>1 DEF TypeOK, onConnClose
  <2>2. Phase(k)'
    BY <1>0, <2>0, <2>1 DEF ConnInv, Phase, Spoken
  <2>3. Control(k)'
    BY <2>0, <2>1 DEF ConnInv, Control
  <2>4. Polled(x, k)' /\ Polled(y, k)'
    BY <1>0, <1>P, <1>T, <2>0, <2>1 DEF Polled
  <2>5. Flow(x, k)'
    <3>1. Relaying(x, k)' => Relaying(x, k)
      BY <1>0, <2>0, <2>1 DEF Relaying
    <3> QED BY <1>0, <1>P, <2>0, <2>1, <3>1, FlowFrame
  <2>6. Flow(y, k)'
    <3>1. Relaying(y, k)' => Relaying(y, k)
      BY <1>0, <2>0, <2>1 DEF Relaying
    <3> QED BY <1>0, <1>P, <2>0, <2>1, <3>1, FlowFrame
  <2>7. Owned(x, k)' /\ Owned(y, k)'
    BY <1>0, <1>P, <2>0, <2>1 DEF ConnInv, Phase, Owned, StreamOwner, ConnOwner
  <2> QED BY <1>0, <2>2, <2>3, <2>4, <2>5, <2>6, <2>7 DEF ConnInv
<1> QED BY <1>1

\* The io.Copy goroutines preserve the invariant of their connection.
LEMMA CopyInv ==
    ASSUME TypeOK, NEW k \in Conns, NEW x \in Sides, ConnInv(k), CopyStep(x, k)
    PROVE  ConnInv(k)'
<1> DEFINE y == Other(x)
<1>0. /\ <<x, k>> \in Ends /\ <<y, k>> \in Ends /\ <<x, k>> # <<y, k>>
      /\ Sides = {x, y} /\ x \in Sides /\ y \in Sides /\ Other(x) = y /\ Other(y) = x
      /\ (x = "cl" /\ y = "sv") \/ (x = "sv" /\ y = "cl")
  BY DEF Sides, Ends, Other
<1> HIDE DEF y
<1> USE DEF outer, given, nb
<1>P. /\ Polled(x, k) /\ Flow(x, k) /\ Owned(x, k)
      /\ Polled(y, k) /\ Flow(y, k) /\ Owned(y, k)
  BY <1>0 DEF ConnInv
<1>T. /\ buf[<<x, k>>] \in Seq(Item) /\ buf[<<y, k>>] \in Seq(Item)
      /\ got[<<x, k>>] \in Seq(Item) /\ got[<<y, k>>] \in Seq(Item)
      /\ lost[<<x, k>>] \in Nat /\ lost[<<y, k>>] \in Nat
      /\ Len(buf[<<y, k>>]) \in Nat
      /\ read[<<x, k>>] \in 0 .. MaxSend /\ read[<<x, k>>] \in Nat /\ read[<<y, k>>] \in Nat
      /\ sent[<<x, k>>] \in Nat /\ sent[<<y, k>>] \in Nat
      /\ poll[<<x, k>>] \in {"idle", "write"} /\ poll[<<y, k>>] \in {"idle", "write"}
  BY <1>0, MaxSendAssumption DEF TypeOK
<1>1. CASE Copy(x, k)
  <2>1. /\ copier[<<x, k>>] = "copy" /\ end[<<x, k>>] = "open" /\ buf[<<x, k>>] # <<>>
        /\ handler[k] \in {"addConn", "serve"}
        /\ x = "cl" => opener[k] \in {"arm", "done"}
        /\ x = "sv" => handler[k] = "serve"
    BY <1>0, <1>1 DEF Copy, CanRead, ConnInv, Phase
  <2>0. /\ got'[<<x, k>>] = Append(got[<<x, k>>], Head(buf[<<x, k>>]))
        /\ got'[<<y, k>>] = got[<<y, k>>]
        /\ buf'[<<x, k>>] = SubSeq(buf[<<x, k>>], 1 + 1, Len(buf[<<x, k>>]))
        /\ buf'[<<y, k>>] = buf[<<y, k>>]
        /\ UNCHANGED <<opener, handler, sess, end, conn, armed, poll, read, sent, lost, copier>>
    BY <1>0, <1>1 DEF TypeOK, Copy, Consume
  <2>2. Phase(k)'
    BY <2>0 DEF ConnInv, Phase, Spoken
  <2>3. Control(k)'
    <3>1. x = "cl" => \A i \in 1 .. Len(buf'[<<"cl", k>>]) :
                         buf'[<<"cl", k>>][i] = Ok => handler[k] \in {"addConn", "serve"}
      BY <2>1
    <3>2. CASE x = "cl"
      BY <1>0, <2>0, <2>1, <3>1, <3>2 DEF ConnInv, Control
    <3>3. CASE x = "sv"
      BY <1>0, <2>0, <2>1, <3>3 DEF ConnInv, Phase, Control
    <3> QED BY <1>0, <3>2, <3>3
  <2>4. Polled(x, k)' /\ Polled(y, k)'
    BY <1>0, <1>P, <1>T, <2>0, <2>1 DEF Polled
  <2>5. Flow(x, k)'
    <3>1. Relaying(x, k) /\ Ahead(x, k) = 0 /\ Ahead(x, k)' = 0
      BY <1>0, <2>0, <2>1 DEF Relaying, Ahead
    <3>2. /\ Continues(got[<<x, k>>], lost[<<x, k>>], buf[<<x, k>>], 0,
                       read[<<y, k>>], poll[<<y, k>>], conn[<<y, k>>])
          /\ InOrder(got[<<x, k>>], lost[<<x, k>>], read[<<y, k>>])
      BY <1>0, <1>P, <3>1 DEF Flow, InFlight
    <3>3. /\ Continues(got'[<<x, k>>], lost'[<<x, k>>], buf'[<<x, k>>], 0,
                       read[<<y, k>>], poll[<<y, k>>], conn[<<y, k>>])
          /\ InOrder(got'[<<x, k>>], lost'[<<x, k>>], read[<<y, k>>])
      <4> DEFINE g == got[<<x, k>>]
                 d == lost[<<x, k>>]
                 b == buf[<<x, k>>]
                 r == read[<<y, k>>]
                 p == poll[<<y, k>>]
                 c == conn[<<y, k>>]
      <4>1. /\ g \in Seq(Item) /\ d \in Nat /\ b \in Seq(Item) /\ b # <<>> /\ r \in Nat
            /\ p \in {"idle", "write"} /\ Continues(g, d, b, 0, r, p, c) /\ InOrder(g, d, r)
        BY <1>T, <2>1, <3>2
      <4>2. /\ got'[<<x, k>>] = Append(g, Head(b)) /\ lost'[<<x, k>>] = d
            /\ buf'[<<x, k>>] = SubSeq(b, 1 + 1, Len(b))
        BY <2>0
      <4> HIDE DEF g, d, b, r, p, c
      <4>3. /\ Continues(Append(g, Head(b)), d, SubSeq(b, 1 + 1, Len(b)), 0, r, p, c)
            /\ InOrder(Append(g, Head(b)), d, r)
        BY <4>1, FlowCopy
      <4> QED BY <4>2, <4>3 DEF r, p, c
    <3> QED BY <1>0, <1>P, <2>0, <2>1, <3>1, <3>3 DEF Flow, InFlight
  <2>6. Flow(y, k)'
    <3>1. Relaying(y, k)' => Relaying(y, k)
      BY <1>0, <2>0, <2>1 DEF Relaying
    <3> QED BY <1>0, <1>P, <2>0, <2>1, <3>1, FlowFrame
  <2>7. Owned(x, k)' /\ Owned(y, k)'
    BY <1>0, <1>P, <2>0, <2>1 DEF ConnInv, Phase, Owned, StreamOwner, ConnOwner
  <2> QED BY <1>0, <2>2, <2>3, <2>4, <2>5, <2>6, <2>7 DEF ConnInv
<1>2. CASE CopyEnds(x, k)
  <2>1. /\ copier[<<x, k>>] = "copy"
        /\ handler[k] \in {"addConn", "serve"}
        /\ x = "cl" => opener[k] \in {"arm", "done"}
        /\ x = "sv" => handler[k] = "serve"
    BY <1>0, <1>2 DEF CopyEnds, ConnInv, Phase
  <2>0. /\ copier'[<<x, k>>] = "unset" /\ copier'[<<y, k>>] = copier[<<y, k>>]
        /\ buf'[<<y, k>>] = buf[<<y, k>>]
        /\ UNCHANGED <<opener, handler, sess, end, conn, armed, poll, read, sent, got, lost>>
    <3>1. buf'[<<y, k>>] = buf[<<y, k>>]
      BY <1>0, <1>2 DEF TypeOK, CopyEnds, Consume
    <3> QED BY <1>0, <1>2, <3>1 DEF TypeOK, CopyEnds
  <2>2. Phase(k)'
    BY <1>0, <2>0, <2>1 DEF ConnInv, Phase, Spoken
  <2>3. Control(k)'
    <3>1. x = "cl" => \A i \in 1 .. Len(buf'[<<"cl", k>>]) :
                         buf'[<<"cl", k>>][i] = Ok => handler[k] \in {"addConn", "serve"}
      BY <2>1
    <3>2. CASE x = "cl"
      BY <1>0, <2>0, <2>1, <3>1, <3>2 DEF ConnInv, Control
    <3>3. CASE x = "sv"
      BY <1>0, <2>0, <2>1, <3>3 DEF ConnInv, Phase, Control
    <3> QED BY <1>0, <3>2, <3>3
  <2>4. Polled(x, k)' /\ Polled(y, k)'
    BY <1>0, <1>P, <1>T, <2>0, <2>1 DEF Polled
  <2>5. Flow(x, k)'
    <3>1. ~Relaying(x, k)'
      BY <2>0 DEF Relaying
    <3> QED BY <1>0, <1>P, <2>0, <2>1, <3>1 DEF Flow
  <2>6. Flow(y, k)'
    <3>1. Relaying(y, k)' => Relaying(y, k)
      BY <1>0, <2>0, <2>1 DEF Relaying
    <3> QED BY <1>0, <1>P, <2>0, <2>1, <3>1, FlowFrame
  <2>7. Owned(x, k)' /\ Owned(y, k)'
    BY <1>0, <1>P, <2>0, <2>1 DEF ConnInv, Phase, Owned, StreamOwner, ConnOwner
  <2> QED BY <1>0, <2>2, <2>3, <2>4, <2>5, <2>6, <2>7 DEF ConnInv
<1>3. CASE CopyUnset(x, k)
  <2>1. copier[<<x, k>>] = "unset"
    BY <1>3 DEF CopyUnset
  <2>0. /\ copier'[<<x, k>>] = "closeS" /\ copier'[<<y, k>>] = copier[<<y, k>>]
        /\ (sess'[<<x, k>>] => sess[<<x, k>>]) /\ (sess'[<<y, k>>] => sess[<<y, k>>])
        /\ UNCHANGED <<opener, handler, end, conn, armed, poll, read, sent, got, lost, buf>>
    <3>1. sess' = [sess EXCEPT ![<<x, k>>] = FALSE]
      BY <1>3 DEF CopyUnset
    <3>2. ~sess'[<<x, k>>] /\ sess'[<<y, k>>] = sess[<<y, k>>]
      BY <1>0, <3>1, ZenonT(60) DEF TypeOK
    <3>3. /\ copier'[<<x, k>>] = "closeS" /\ copier'[<<y, k>>] = copier[<<y, k>>]
          /\ UNCHANGED <<opener, handler, end, conn, armed, poll, read, sent, got, lost, buf>>
      BY <1>0, <1>3 DEF TypeOK, CopyUnset
    <3> QED BY <3>2, <3>3
  <2>2. Phase(k)'
    BY <1>0, <2>0, <2>1 DEF ConnInv, Phase, Spoken
  <2>3. Control(k)'
    BY <2>0, <2>1 DEF ConnInv, Control
  <2>4. Polled(x, k)' /\ Polled(y, k)'
    BY <1>0, <1>P, <1>T, <2>0, <2>1 DEF Polled
  <2>5. Flow(x, k)'
    <3>1. Relaying(x, k)' => Relaying(x, k)
      BY <1>0, <2>0, <2>1 DEF Relaying
    <3> QED BY <1>0, <1>P, <2>0, <2>1, <3>1, FlowFrame
  <2>6. Flow(y, k)'
    <3>1. Relaying(y, k)' => Relaying(y, k)
      BY <1>0, <2>0, <2>1 DEF Relaying
    <3> QED BY <1>0, <1>P, <2>0, <2>1, <3>1, FlowFrame
  <2>7. Owned(x, k)' /\ Owned(y, k)'
    BY <1>0, <1>P, <2>0, <2>1 DEF ConnInv, Phase, Owned, StreamOwner, ConnOwner
  <2> QED BY <1>0, <2>2, <2>3, <2>4, <2>5, <2>6, <2>7 DEF ConnInv
<1>4. CASE CopyCloseStream(x, k)
  <2>1. copier[<<x, k>>] = "closeS"
    BY <1>4 DEF CopyCloseStream
  <2>0. /\ copier'[<<x, k>>] = "closeC" /\ copier'[<<y, k>>] = copier[<<y, k>>]
        /\ end'[<<x, k>>] = "closed" /\ end'[<<y, k>>] = end[<<y, k>>]
        /\ UNCHANGED <<opener, handler, sess, conn, armed, poll, read, sent, got, lost, buf>>
    BY <1>0, <1>4 DEF TypeOK, CopyCloseStream
  <2>2. Phase(k)'
    BY <1>0, <2>0, <2>1 DEF ConnInv, Phase, Spoken
  <2>3. Control(k)'
    BY <2>0, <2>1 DEF ConnInv, Control
  <2>4. Polled(x, k)' /\ Polled(y, k)'
    BY <1>0, <1>P, <1>T, <2>0, <2>1 DEF Polled
  <2>5. Flow(x, k)'
    <3>1. Relaying(x, k)' => Relaying(x, k)
      BY <1>0, <2>0, <2>1 DEF Relaying
    <3> QED BY <1>0, <1>P, <2>0, <2>1, <3>1, FlowFrame
  <2>6. Flow(y, k)'
    <3>1. Relaying(y, k)' => Relaying(y, k)
      BY <1>0, <2>0, <2>1 DEF Relaying
    <3> QED BY <1>0, <1>P, <2>0, <2>1, <3>1, FlowFrame
  <2>7. Owned(x, k)' /\ Owned(y, k)'
    BY <1>0, <1>P, <2>0, <2>1 DEF ConnInv, Phase, Owned, StreamOwner, ConnOwner
  <2> QED BY <1>0, <2>2, <2>3, <2>4, <2>5, <2>6, <2>7 DEF ConnInv
<1>5. CASE CopyCloseConn(x, k)
  <2>1. copier[<<x, k>>] = "closeC"
    BY <1>5 DEF CopyCloseConn
  <2>0. /\ copier'[<<x, k>>] = "done" /\ copier'[<<y, k>>] = copier[<<y, k>>]
        /\ conn'[<<x, k>>] = "closed" /\ conn'[<<y, k>>] = conn[<<y, k>>]
        /\ UNCHANGED <<opener, handler, sess, end, armed, poll, read, sent, got, lost, buf>>
    BY <1>0, <1>5 DEF TypeOK, CopyCloseConn, CloseConn
  <2>2. Phase(k)'
    BY <1>0, <2>0, <2>1 DEF ConnInv, Phase, Spoken
  <2>3. Control(k)'
    BY <2>0, <2>1 DEF ConnInv, Control
  <2>4. Polled(x, k)' /\ Polled(y, k)'
    BY <1>0, <1>P, <1>T, <2>0, <2>1 DEF Polled
  <2>5. Flow(x, k)'
    <3>1. Relaying(x, k)' => Relaying(x, k)
      BY <1>0, <2>0, <2>1 DEF Relaying
    <3> QED BY <1>0, <1>P, <2>0, <2>1, <3>1, FlowFrame
  <2>6. Flow(y, k)'
    <3>1. Relaying(y, k)' => Relaying(y, k) /\ Ahead(y, k)' = Ahead(y, k)
      BY <1>0, <2>0 DEF Relaying, Ahead
    <3>2. ASSUME Relaying(y, k)' PROVE InFlight(y, k)'
      <4>1. Continues(got[<<y, k>>], lost[<<y, k>>], buf[<<y, k>>], Ahead(y, k),
                      read[<<x, k>>], poll[<<x, k>>], conn[<<x, k>>])
        BY <1>0, <1>P, <3>1, <3>2 DEF Flow, InFlight
      <4>2. /\ Continues(got[<<y, k>>], lost[<<y, k>>], buf[<<y, k>>], Ahead(y, k),
                         read[<<x, k>>], "idle", "closed")
            /\ Continues(got[<<y, k>>], lost[<<y, k>>], buf[<<y, k>>], Ahead(y, k),
                         read[<<x, k>>], poll[<<x, k>>], "closed")
        BY <1>T, <4>1, FlowStop, AheadType, SMTT(30)
      <4> QED BY <1>0, <2>0, <3>1, <3>2, <4>2 DEF InFlight
    <3> QED BY <1>0, <1>P, <2>0, <3>2 DEF Flow
  <2>7. Owned(x, k)' /\ Owned(y, k)'
    BY <1>0, <1>P, <2>0, <2>1 DEF ConnInv, Phase, Owned, StreamOwner, ConnOwner
  <2> QED BY <1>0, <2>2, <2>3, <2>4, <2>5, <2>6, <2>7 DEF ConnInv
<1> QED BY <1>1, <1>2, <1>3, <1>4, <1>5 DEF CopyStep

\* The outer peers and the network preserve the invariant of a connection.
LEMMA EnvironmentInv ==
    ASSUME TypeOK, NEW k \in Conns, ConnInv(k), Environment(k)
    PROVE  ConnInv(k)'
<1> USE DEF outer, given, nb
<1>1. CASE \E x \in Sides : OuterSend(x, k)
  <2> PICK x \in Sides : OuterSend(x, k)
    BY <1>1
  <2> DEFINE y == Other(x)
  <2>0. /\ <<x, k>> \in Ends /\ <<y, k>> \in Ends /\ <<x, k>> # <<y, k>>
        /\ Sides = {x, y} /\ x \in Sides /\ y \in Sides /\ Other(x) = y /\ Other(y) = x
        /\ (x = "cl" /\ y = "sv") \/ (x = "sv" /\ y = "cl")
    BY DEF Sides, Ends, Other
  <2> HIDE DEF y
  <2> USE DEF outer, given, nb
  <2>P. /\ Polled(x, k) /\ Flow(x, k) /\ Owned(x, k)
        /\ Polled(y, k) /\ Flow(y, k) /\ Owned(y, k)
    BY <2>0 DEF ConnInv
  <2>T. /\ buf[<<x, k>>] \in Seq(Item) /\ buf[<<y, k>>] \in Seq(Item)
        /\ got[<<x, k>>] \in Seq(Item) /\ got[<<y, k>>] \in Seq(Item)
      /\ lost[<<x, k>>] \in Nat /\ lost[<<y, k>>] \in Nat
        /\ Len(buf[<<y, k>>]) \in Nat
        /\ read[<<x, k>>] \in 0 .. MaxSend /\ read[<<x, k>>] \in Nat /\ read[<<y, k>>] \in Nat
        /\ sent[<<x, k>>] \in Nat /\ sent[<<y, k>>] \in Nat
        /\ poll[<<x, k>>] \in {"idle", "write"} /\ poll[<<y, k>>] \in {"idle", "write"}
    BY <2>0, MaxSendAssumption DEF TypeOK
  <2>1. sent[<<x, k>>] < MaxSend
    BY DEF OuterSend
  <2>2. /\ sent'[<<x, k>>] = sent[<<x, k>>] + 1 /\ sent'[<<y, k>>] = sent[<<y, k>>]
        /\ UNCHANGED <<opener, handler, sess, end, conn, armed, poll, read, got, lost, buf, copier>>
    BY <2>0 DEF TypeOK, OuterSend
  <2>3. Phase(k)'
    <3>1. Spoken(k) => Spoken(k)'
      <4>1. sent'[<<"sv", k>>] \in {sent[<<"sv", k>>], sent[<<"sv", k>>] + 1}
        BY <2>0, <2>2
      <4>2. sent[<<"sv", k>>] \in Nat
        BY <2>0, <2>T
      <4>3. \A i \in 1 .. sent[<<"sv", k>>] : i \in 1 .. sent'[<<"sv", k>>]
        BY <4>1, <4>2
      <4> QED BY <4>3 DEF Spoken
    <3> QED BY <2>2, <3>1 DEF ConnInv, Phase
  <2>4. Control(k)'
    BY <2>2 DEF ConnInv, Control
  <2>5. Polled(x, k)' /\ Polled(y, k)'
    BY <2>0, <2>P, <2>T, <2>2 DEF Polled
  <2>6. Relaying(x, k)' = Relaying(x, k) /\ Relaying(y, k)' = Relaying(y, k)
    BY <2>2 DEF Relaying
  <2>7. Flow(x, k)' /\ Flow(y, k)'
    BY <2>0, <2>P, <2>2, <2>6, FlowFrame
  <2>8. Owned(x, k)' /\ Owned(y, k)'
    BY <2>P, <2>2 DEF Owned, StreamOwner, ConnOwner
  <2> QED BY <2>0, <2>3, <2>4, <2>5, <2>7, <2>8 DEF ConnInv
<1>2. CASE AppConnect(k) \/ StreamFail(k) \/ \E x \in Sides : OuterClose(x, k)
  <2>1. UNCHANGED <<opener, handler, sess, end, conn, armed, poll, read, sent, got, lost, buf, copier>>
    BY <1>2 DEF AppConnect, StreamFail, OuterClose
  <2>2. ASSUME NEW x \in Sides PROVE Flow(x, k)'
    <3>1. Relaying(x, k)' => Relaying(x, k)
      BY <2>1 DEF Relaying
    <3> QED BY <2>1, <3>1, FlowFrame DEF ConnInv
  <2>3. Phase(k)' /\ Control(k)'
    BY <2>1 DEF ConnInv, Phase, Control, Spoken
  <2>4. ASSUME NEW x \in Sides PROVE Polled(x, k)' /\ Owned(x, k)'
    BY <2>1 DEF ConnInv, Polled, Owned, StreamOwner, ConnOwner
  <2> QED BY <2>2, <2>3, <2>4 DEF ConnInv
<1> QED BY <1>1, <1>2 DEF Environment

-----------------------------------------------------------------------------
(* The theorems.                                                            *)

\* Inv is inductive.
LEMMA Inductive == Inv /\ [Next]_vars => Inv'
<1> SUFFICES ASSUME Inv, [Next]_vars PROVE Inv'
  OBVIOUS
<1>1. TypeOK'
  BY TypeStep DEF Inv, ConnInv
<1>2. CASE UNCHANGED vars
  <2>1. ASSUME NEW j \in Conns PROVE ConnInv(j)'
    <3>1. ConnInv(j) /\ \A x \in Sides : SameEnd(x, j)
      BY <1>2 DEF Inv, vars, SameEnd
    <3> QED BY <3>1, FrameInv
  <2> QED BY <1>1, <2>1 DEF Inv
<1>3. ASSUME NEW k \in Conns, ConnStep(k)
      PROVE  Inv'
  <2>1. ASSUME NEW j \in Conns, j # k PROVE ConnInv(j)'
    <3>1. ConnInv(j) /\ \A x \in Sides : SameEnd(x, j)
      BY <1>3, <2>1, Frame DEF Inv
    <3> QED BY <3>1, FrameInv
  <2>2. ConnInv(k)'
    BY <1>3, OpenerInv, HandlerInv, PollInv, CloseInv, CopyInv, EnvironmentInv
       DEF Inv, ConnStep
  <2> QED BY <1>1, <2>1, <2>2 DEF Inv
<1> QED BY <1>2, <1>3 DEF Next

LEMMA Initially == Init => Inv
<1> SUFFICES ASSUME Init PROVE Inv
  OBVIOUS
<1>0. Ends = Sides \X Conns /\ Sides = {"cl", "sv"} /\ 0 \in 0 .. MaxSend
  BY MaxSendAssumption DEF Ends, Sides
<1>1. TypeOK
  BY <1>0 DEF Init, TypeOK
<1>2. ASSUME NEW k \in Conns PROVE Phase(k) /\ Control(k)
  BY <1>0 DEF Init, Phase, Control
<1>3. ASSUME NEW k \in Conns, NEW x \in Sides PROVE Polled(x, k) /\ Owned(x, k)
  BY <1>0 DEF Init, Polled, Owned
<1>4. ASSUME NEW k \in Conns, NEW x \in Sides PROVE Flow(x, k)
  <2>1. Other(x) \in Sides
    BY DEF Other, Sides
  <2>2. ~Relaying(x, k)
    BY <1>0 DEF Init, Relaying
  <2> QED BY <1>0, <2>1, <2>2 DEF Init, Flow, InOrder
<1> QED BY <1>1, <1>2, <1>3, <1>4 DEF Inv, ConnInv

\* The invariant implies the safety properties of the module Portmap.
LEMMA Implied ==
    Inv => PayloadIntegrity /\ AcceptedBeforeRelay /\ StreamOwned /\ ConnOwned
           /\ RefusedByFirstWord
<1> SUFFICES ASSUME Inv
             PROVE  PayloadIntegrity /\ AcceptedBeforeRelay /\ StreamOwned /\ ConnOwned
                    /\ RefusedByFirstWord
  OBVIOUS
<1>1. AcceptedBeforeRelay /\ RefusedByFirstWord
  BY DEF Inv, ConnInv, Phase, Control, AcceptedBeforeRelay, RefusedByFirstWord, Spoken
<1>2. StreamOwned /\ ConnOwned
  BY DEF Inv, ConnInv, Owned, StreamOwned, ConnOwned
<1>3. PayloadIntegrity
  <2> SUFFICES ASSUME NEW x \in Sides, NEW k \in Conns
               PROVE  /\ Len(got[<<x, k>>]) + lost[<<x, k>>] <= sent[<<Other(x), k>>]
                      /\ \A i \in 1 .. Len(got[<<x, k>>]) :
                             got[<<x, k>>][i] = lost[<<x, k>>] + i
                      /\ \A i \in 1 .. lost[<<x, k>>] : x = "cl" /\ i \in Blank
    BY DEF PayloadIntegrity
  <2>1. Other(x) \in Sides /\ <<x, k>> \in Ends /\ <<Other(x), k>> \in Ends
    BY DEF Other, Sides, Ends
  <2>2. /\ InOrder(got[<<x, k>>], lost[<<x, k>>], read[<<Other(x), k>>])
        /\ read[<<Other(x), k>>] <= sent[<<Other(x), k>>]
        /\ 1 .. lost[<<x, k>>] \subseteq Blank /\ lost[<<"sv", k>>] = 0
    BY <2>1 DEF Inv, ConnInv, Flow, Polled, Phase
  <2>3. /\ got[<<x, k>>] \in Seq(Item) /\ read[<<Other(x), k>>] \in Nat
        /\ sent[<<Other(x), k>>] \in Nat /\ lost[<<x, k>>] \in Nat
    BY <2>1, MaxSendAssumption DEF Inv, TypeOK
  <2>4. x = "sv" \/ x = "cl"
    BY DEF Sides
  <2>5. ASSUME NEW i \in 1 .. lost[<<x, k>>] PROVE x = "cl" /\ i \in Blank
    <3>1. x # "sv"
      BY <2>2
    <3> QED BY <2>2, <2>4, <3>1
  <2>6. /\ Len(got[<<x, k>>]) + lost[<<x, k>>] <= sent[<<Other(x), k>>]
        /\ \A i \in 1 .. Len(got[<<x, k>>]) : got[<<x, k>>][i] = lost[<<x, k>>] + i
    <3> DEFINE g == got[<<x, k>>]
               d == lost[<<x, k>>]
               r == read[<<Other(x), k>>]
               s == sent[<<Other(x), k>>]
    <3>1. g \in Seq(Item) /\ d \in Nat /\ r \in Nat /\ s \in Nat /\ r <= s /\ InOrder(g, d, r)
      BY <2>2, <2>3
    <3> HIDE DEF g, d, r, s
    <3>2. Len(g) + d <= s
      BY <3>1 DEF InOrder
    <3>3. \A i \in 1 .. Len(g) : g[i] = d + i
      BY <3>1 DEF InOrder
    <3> QED BY <3>2, <3>3 DEF g, d, s
  <2> QED BY <2>5, <2>6
<1> QED BY <1>1, <1>2, <1>3

\* Every reachable state has the declared types: in particular the poller
\* never writes anything but the payload chunks to a stream.
THEOREM Typed == Spec => []TypeOK
<1>1. Inv => TypeOK
  BY DEF Inv
<1> QED BY <1>1, Initially, Inductive, PTL DEF Spec

\* The relay is transparent: each outer peer receives what the other sent, in
\* order and without a gap, whatever closes, breaks or is refused on the way;
\* only the application may miss the beginning, and then it is white space.
THEOREM Transparent == Spec => []PayloadIntegrity
  BY Implied, Initially, Inductive, PTL DEF Spec

\* The client relays only after the server has accepted the connection.
THEOREM AcceptedFirst == Spec => []AcceptedBeforeRelay
  BY Implied, Initially, Inductive, PTL DEF Spec

\* No open stream handle is without a goroutine that closes it, apart from the
\* one a failed handshake leaves behind.
THEOREM StreamsClosed == Spec => []StreamOwned
  BY Implied, Initially, Inductive, PTL DEF Spec

\* No open TCP connection is without a goroutine that closes it, on any path
\* through onConnOpen, handleUptpStream and the copying goroutines.
THEOREM ConnectionsClosed == Spec => []ConnOwned
  BY Implied, Initially, Inductive, PTL DEF Spec

\* A connection the server accepted is refused by the client only when the
\* target has spoken first, and not in white space.
THEOREM RefusalExplained == Spec => []RefusedByFirstWord
  BY Implied, Initially, Inductive, PTL DEF Spec
=============================================================================
