------------------------------- MODULE Portmap -------------------------------
(***************************************************************************)
(* The port-mapping relay of portmap/portmap.go, seen end to end.  A local *)
(* application connects to a relay listener of the client node; the node   *)
(* opens a libp2p stream to the peer, the two nodes shake hands, the peer  *)
(* dials the target, and from then on each node copies bytes between its   *)
(* TCP connection and the stream.                                          *)
(*                                                                         *)
(* After the handshake both nodes run the same code on a connection with a *)
(* session: the poller callbacks onConnData / onConnClose and the io.Copy  *)
(* goroutine.  The model has one copy of them, indexed by the side         *)
(* ("cl" is the node that accepted the connection, "sv" the one that       *)
(* dialled the target) and the connection.                                 *)
(*                                                                         *)
(* A Write to a stream is one item.  Streams carry no message boundaries:  *)
(* a Read returns any non-empty run of the items that have arrived.        *)
(***************************************************************************)
EXTENDS Naturals, Sequences

CONSTANTS
    Conns,   \* connections made to one relay listener
    MaxSend, \* payload chunks each outer TCP peer may send per connection
    Fragile  \* the connections whose stream may break

ASSUME MaxSendAssumption == MaxSend \in Nat
ASSUME FragileAssumption == Fragile \subseteq Conns

Sides == {"cl", "sv"}
Ends == Sides \X Conns
Other(x) == IF x = "cl" THEN "sv" ELSE "cl"

Chunk == 1 .. MaxSend                   \* the i-th payload chunk of a sender

CONSTANT Blank                          \* the chunks of white space only
ASSUME BlankAssumption == Blank \subseteq Chunk

\* The control messages, numbered behind the chunks: the handshake, and the
\* response with Code 0 and with Code 1.
Hs  == MaxSend + 1
Ok  == MaxSend + 2
Err == MaxSend + 3
Item == Chunk \cup {Hs, Ok, Err}        \* what one Write puts on a stream

VARIABLES
    ext,      \* outer TCP peer: the application ("cl") or the target ("sv")
    sent,     \* number of chunks the outer peer has sent
    got,      \* what the relay has written to the outer peer
    lost,     \* history: number of chunks for it that the handshake read away
    conn,     \* the nbio connection to the outer peer
    armed,    \* the poller delivers the connection's reads
    read,     \* number of chunks the poller has read from the connection
    sess,     \* the connection's session is the stream (else nil)
    poll,     \* onConnData: "idle", or "write" once it has loaded the session
    onclose,  \* onConnClose: "none", "due" after Close, "ran"
    end,      \* this side's handle of the stream
    buf,      \* items that have arrived for this side and are not read yet
    link,     \* the stream's transport: "up", "failed" or "reset" by "cl"
    opener,   \* onConnOpen of the accepted connection, inside AddConn
    handler,  \* the goroutine of handleUptpStream up to its io.Copy
    copier    \* the io.Copy goroutine of each side

outer == <<ext, sent>>
given == <<got, lost>>
nb    == <<conn, armed, sess, onclose>>
vars  == <<ext, sent, got, lost, conn, armed, read, sess, poll, onclose,
           end, buf, link, opener, handler, copier>>

TypeOK ==
    /\ ext \in [Ends -> {"none", "open", "closed"}]
    /\ sent \in [Ends -> 0 .. MaxSend]
    /\ got \in [Ends -> Seq(Item)]
    /\ lost \in [Ends -> Nat]
    /\ conn \in [Ends -> {"none", "open", "closed"}]
    /\ armed \in [Ends -> BOOLEAN]
    /\ read \in [Ends -> 0 .. MaxSend]
    /\ sess \in [Ends -> BOOLEAN]
    /\ poll \in [Ends -> {"idle", "write"}]
    /\ onclose \in [Ends -> {"none", "due", "ran"}]
    /\ end \in [Ends -> {"none", "open", "closed"}]
    /\ buf \in [Ends -> Seq(Item)]
    /\ link \in [Conns -> {"up", "failed", "reset"}]
    /\ opener \in [Conns -> {"wait", "open", "writeHs", "readRsp", "setSession",
                             "arm", "done", "refused", "ioerr"}]
    /\ handler \in [Conns -> {"none", "readHs", "handle", "dial", "writeRsp",
                              "addConn", "serve", "refused", "ioerr"}]
    /\ copier \in [Ends -> {"none", "copy", "unset", "closeS", "closeC", "done"}]

Init ==
    /\ ext = [e \in Ends |-> "none"]
    /\ sent = [e \in Ends |-> 0]
    /\ got = [e \in Ends |-> <<>>]
    /\ lost = [e \in Ends |-> 0]
    /\ conn = [e \in Ends |-> "none"]
    /\ armed = [e \in Ends |-> FALSE]
    /\ read = [e \in Ends |-> 0]
    /\ sess = [e \in Ends |-> FALSE]
    /\ poll = [e \in Ends |-> "idle"]
    /\ onclose = [e \in Ends |-> "none"]
    /\ end = [e \in Ends |-> "none"]
    /\ buf = [e \in Ends |-> <<>>]
    /\ link = [k \in Conns |-> "up"]
    /\ opener = [k \in Conns |-> "wait"]
    /\ handler = [k \in Conns |-> "none"]
    /\ copier = [e \in Ends |-> "none"]

-----------------------------------------------------------------------------
(* libp2p streams (external).  Close closes both directions of the caller's *)
(* handle and flushes; Reset also breaks the stream for the other side.     *)

\* A Write to a stream whose other side has closed may still succeed: its
\* data is dropped.  It may also fail.
WriteOk(x, k, i) ==
    /\ end[<<x, k>>] = "open"
    /\ link[k] = "up"
    /\ buf' = [buf EXCEPT ![<<Other(x), k>>] =
                   IF end[<<Other(x), k>>] = "open" THEN Append(@, i) ELSE @]

WriteFails(x, k) ==
    \/ end[<<x, k>>] # "open"
    \/ link[k] # "up"
    \/ end[<<Other(x), k>>] = "closed"

\* A Read fails on a handle that is closed, on a broken stream, and with EOF
\* when the other side has closed and everything it sent has been read.
ReadFails(x, k) ==
    \/ end[<<x, k>>] # "open"
    \/ link[k] # "up"
    \/ buf[<<x, k>>] = <<>> /\ end[<<Other(x), k>>] = "closed"

CanRead(x, k) == end[<<x, k>>] = "open" /\ link[k] = "up" /\ buf[<<x, k>>] # <<>>

\* The first n items that have arrived, and what is left after reading them.
Arrived(x, k, n) == SubSeq(buf[<<x, k>>], 1, n)
Consume(x, k, n) == buf' = [buf EXCEPT ![<<x, k>>] = SubSeq(@, n + 1, Len(@))]

\* The stream breaks for both sides: the connection to the peer is lost, or
\* the other host resets the stream.
StreamFail(k) ==
    /\ k \in Fragile
    /\ end[<<"cl", k>>] # "none"
    /\ link[k] = "up"
    /\ link' = [link EXCEPT ![k] = "failed"]
    /\ UNCHANGED <<outer, given, nb, read, poll, end, buf, opener, handler, copier>>

-----------------------------------------------------------------------------
(* nbio connections (external).  The first Close of a connection that is    *)
(* in the poller schedules onConnClose, which runs later.                   *)

CloseConn(x, k) ==
    /\ conn' = [conn EXCEPT ![<<x, k>>] = "closed"]
    /\ onclose' = [onclose EXCEPT ![<<x, k>>] =
                       IF conn[<<x, k>>] = "open" THEN "due" ELSE @]

\* The local application connects, sends and closes; the target sends and
\* closes.  Neither is obliged to do anything.
AppConnect(k) ==
    /\ ext[<<"cl", k>>] = "none"
    /\ ext' = [ext EXCEPT ![<<"cl", k>>] = "open"]
    /\ UNCHANGED <<sent, given, nb, read, poll, end, buf, link, opener, handler, copier>>

OuterSend(x, k) ==
    /\ ext[<<x, k>>] = "open"
    /\ sent[<<x, k>>] < MaxSend
    /\ sent' = [sent EXCEPT ![<<x, k>>] = @ + 1]
    /\ UNCHANGED <<ext, given, nb, read, poll, end, buf, link, opener, handler, copier>>

OuterClose(x, k) ==
    /\ ext[<<x, k>>] = "open"
    /\ ext' = [ext EXCEPT ![<<x, k>>] = "closed"]
    /\ UNCHANGED <<sent, given, nb, read, poll, end, buf, link, opener, handler, copier>>

-----------------------------------------------------------------------------
(* Client side: the accept loop of addTCPListener.  AddConn runs onConnOpen *)
(* before it returns, so the loop handles one connection at a time.         *)

AcceptLoopFree == \A k \in Conns : opener[k] \in {"wait", "done", "refused", "ioerr"}

Accept(k) ==
    /\ ext[<<"cl", k>>] # "none"
    /\ opener[k] = "wait"
    /\ AcceptLoopFree
    /\ conn' = [conn EXCEPT ![<<"cl", k>>] = "open"]
    /\ opener' = [opener EXCEPT ![k] = "open"]
    /\ UNCHANGED <<outer, given, armed, read, sess, poll, onclose, end, buf, link,
                   handler, copier>>

\* funcGetHandshake finds an app for the port and NewStream reaches its peer.
OpenStream(k) ==
    /\ opener[k] = "open"
    /\ end' = [end EXCEPT ![<<"cl", k>>] = "open", ![<<"sv", k>>] = "open"]
    /\ opener' = [opener EXCEPT ![k] = "writeHs"]
    /\ handler' = [handler EXCEPT ![k] = "readHs"]
    /\ UNCHANGED <<outer, given, nb, read, poll, buf, link, copier>>

\* No app for the port, or the peer cannot be reached.
OpenStreamFails(k) ==
    /\ opener[k] = "open"
    /\ opener' = [opener EXCEPT ![k] = "refused"]
    /\ CloseConn("cl", k)
    /\ UNCHANGED <<outer, given, armed, read, sess, poll, end, buf, link, handler, copier>>

WriteHandshake(k) ==
    /\ opener[k] = "writeHs"
    /\ WriteOk("cl", k, Hs)
    /\ opener' = [opener EXCEPT ![k] = "readRsp"]
    /\ UNCHANGED <<outer, given, nb, read, poll, end, link, handler, copier>>

\* Writing the handshake or reading the response fails: relayHandshake
\* executes "return nil, err", which clears its named result s before the
\* deferred function tests it, so the stream is not reset.
HandshakeIOFails(k) ==
    /\ \/ opener[k] = "writeHs" /\ WriteFails("cl", k)
       \/ opener[k] = "readRsp" /\ ReadFails("cl", k)
    /\ opener' = [opener EXCEPT ![k] = "ioerr"]
    /\ CloseConn("cl", k)
    /\ UNCHANGED <<outer, given, armed, read, sess, poll, end, buf, link, handler, copier>>

\* Faulty variant: the response is looked at and left on the stream.
PeekResponse(k) ==
    /\ opener[k] = "readRsp"
    /\ CanRead("cl", k)
    /\ Arrived("cl", k, 1) = <<Ok>>
    /\ opener' = [opener EXCEPT ![k] = "setSession"]
    /\ UNCHANGED <<outer, given, nb, read, poll, end, buf, link, handler, copier>>

\* json.Unmarshal takes s for one response with Code 0: the response alone,
\* or followed by white space.
OneOk(s) ==
    /\ Len(s) > 0 /\ s[1] = Ok
    /\ \A i \in 2 .. Len(s) : s[i] \in Blank

\* The one Read of the response returned the ok response.  Payload of white
\* space that came with it was parsed away: nobody relays it any more.
ResponseOk(k) ==
    /\ opener[k] = "readRsp"
    /\ CanRead("cl", k)
    /\ \E n \in 1 .. Len(buf[<<"cl", k>>]) :
          /\ OneOk(Arrived("cl", k, n))
          /\ Consume("cl", k, n)
          /\ lost' = [lost EXCEPT ![<<"cl", k>>] = n - 1]
    /\ opener' = [opener EXCEPT ![k] = "setSession"]
    /\ UNCHANGED <<outer, got, nb, read, poll, end, link, handler, copier>>

\* The Read returned an error response, or bytes that are not one JSON value:
\* the response together with other payload that arrived behind it.  The
\* stream is reset by the deferred function of relayHandshake.
ResponseBad(k) ==
    /\ opener[k] = "readRsp"
    /\ CanRead("cl", k)
    /\ \E n \in 1 .. Len(buf[<<"cl", k>>]) :
          /\ ~OneOk(Arrived("cl", k, n))
          /\ Consume("cl", k, n)
    /\ end' = [end EXCEPT ![<<"cl", k>>] = "closed"]
    /\ link' = [link EXCEPT ![k] = "reset"]
    /\ opener' = [opener EXCEPT ![k] = "refused"]
    /\ CloseConn("cl", k)
    /\ UNCHANGED <<outer, given, armed, read, sess, poll, handler, copier>>

SetSession(k) ==
    /\ opener[k] = "setSession"
    /\ sess' = [sess EXCEPT ![<<"cl", k>>] = TRUE]
    /\ copier' = [copier EXCEPT ![<<"cl", k>>] = "copy"]
    /\ opener' = [opener EXCEPT ![k] = "arm"]
    /\ UNCHANGED <<outer, given, conn, armed, read, poll, onclose, end, buf, link, handler>>

\* onConnOpen has returned; AddConn starts polling the connection.
Arm(k) ==
    /\ opener[k] = "arm"
    /\ armed' = [armed EXCEPT ![<<"cl", k>>] = TRUE]
    /\ opener' = [opener EXCEPT ![k] = "done"]
    /\ UNCHANGED <<outer, given, conn, read, sess, poll, onclose, end, buf, link,
                   handler, copier>>

-----------------------------------------------------------------------------
(* Server side: handleUptpStream.                                           *)

\* The one Read of the handshake returns whatever has arrived.
ReadHandshake(k) ==
    /\ handler[k] = "readHs"
    /\ CanRead("sv", k)
    /\ \E n \in 1 .. Len(buf[<<"sv", k>>]) : Consume("sv", k, n)
    /\ handler' = [handler EXCEPT ![k] = "handle"]
    /\ UNCHANGED <<outer, given, nb, read, poll, end, link, opener, copier>>

ReadHandshakeFails(k) ==
    /\ handler[k] = "readHs"
    /\ ReadFails("sv", k)
    /\ end' = [end EXCEPT ![<<"sv", k>>] = "closed"]
    /\ handler' = [handler EXCEPT ![k] = "ioerr"]
    /\ UNCHANGED <<outer, given, nb, read, poll, buf, link, opener, copier>>

\* funcHandleHandshake knows the resource.
HandleHandshake(k) ==
    /\ handler[k] = "handle"
    /\ handler' = [handler EXCEPT ![k] = "dial"]
    /\ UNCHANGED <<outer, given, nb, read, poll, end, buf, link, opener, copier>>

\* Faulty variant: the error response is sent without its Code.
RefuseWithCodeZero(k) ==
    /\ handler' = [handler EXCEPT ![k] = "refused"]
    /\ end' = [end EXCEPT ![<<"sv", k>>] = "closed"]
    /\ WriteOk("sv", k, Ok) \/ (WriteFails("sv", k) /\ UNCHANGED buf)

\* The deferred function: write the error response, whatever becomes of it,
\* and close the stream.
Refuse(k) ==
    /\ handler' = [handler EXCEPT ![k] = "refused"]
    /\ end' = [end EXCEPT ![<<"sv", k>>] = "closed"]
    /\ WriteOk("sv", k, Err) \/ (WriteFails("sv", k) /\ UNCHANGED buf)

\* Faulty variant: errMsg is not set, so nothing is answered or closed.
RefuseInSilence(k) ==
    /\ handler[k] = "handle"
    /\ handler' = [handler EXCEPT ![k] = "refused"]
    /\ UNCHANGED <<outer, given, nb, read, poll, end, buf, link, opener, copier>>

HandleHandshakeFails(k) ==
    /\ handler[k] = "handle"
    /\ Refuse(k)
    /\ UNCHANGED <<outer, given, nb, read, poll, link, opener, copier>>

\* net.Dial and nbio.NBConn succeed; the session is set before the response
\* is written and before the connection is polled.
DialTarget(k) ==
    /\ handler[k] = "dial"
    /\ ext' = [ext EXCEPT ![<<"sv", k>>] = "open"]
    /\ conn' = [conn EXCEPT ![<<"sv", k>>] = "open"]
    /\ sess' = [sess EXCEPT ![<<"sv", k>>] = TRUE]
    /\ handler' = [handler EXCEPT ![k] = "writeRsp"]
    /\ UNCHANGED <<sent, given, armed, read, poll, onclose, end, buf, link, opener, copier>>

\* The target refuses, the dial times out after 5s, or NBConn fails (the
\* connection just dialled is closed again).
DialTargetFails(k) ==
    /\ handler[k] = "dial"
    /\ Refuse(k)
    /\ UNCHANGED <<outer, given, nb, read, poll, link, opener, copier>>

\* Faulty variant: the response of a success carries the error code.
RespondWithError(k) ==
    /\ handler[k] = "writeRsp"
    /\ WriteOk("sv", k, Err)
    /\ handler' = [handler EXCEPT ![k] = "addConn"]
    /\ UNCHANGED <<outer, given, nb, read, poll, end, link, opener, copier>>

WriteResponse(k) ==
    /\ handler[k] = "writeRsp"
    /\ WriteOk("sv", k, Ok)
    /\ handler' = [handler EXCEPT ![k] = "addConn"]
    /\ UNCHANGED <<outer, given, nb, read, poll, end, link, opener, copier>>

\* Faulty variant: the stream is not closed.
ResponseFailsKeepingStream(k) ==
    /\ handler[k] = "writeRsp"
    /\ WriteFails("sv", k)
    /\ conn' = [conn EXCEPT ![<<"sv", k>>] = "closed"]
    /\ handler' = [handler EXCEPT ![k] = "ioerr"]
    /\ UNCHANGED <<outer, given, armed, read, sess, poll, onclose, end, buf, link, opener, copier>>

\* The connection is closed before it was given to the poller: onConnClose is
\* not called.
WriteResponseFails(k) ==
    /\ handler[k] = "writeRsp"
    /\ WriteFails("sv", k)
    /\ end' = [end EXCEPT ![<<"sv", k>>] = "closed"]
    /\ conn' = [conn EXCEPT ![<<"sv", k>>] = "closed"]
    /\ handler' = [handler EXCEPT ![k] = "ioerr"]
    /\ UNCHANGED <<outer, given, armed, read, sess, poll, onclose, buf, link, opener, copier>>

\* Faulty variant: the dialled connection is not given to the poller.
ServeUnpolled(k) ==
    /\ handler[k] = "addConn"
    /\ copier' = [copier EXCEPT ![<<"sv", k>>] = "copy"]
    /\ handler' = [handler EXCEPT ![k] = "serve"]
    /\ UNCHANGED <<outer, given, nb, read, poll, end, buf, link, opener>>

AddConn(k) ==
    /\ handler[k] = "addConn"
    /\ armed' = [armed EXCEPT ![<<"sv", k>>] = TRUE]
    /\ copier' = [copier EXCEPT ![<<"sv", k>>] = "copy"]
    /\ handler' = [handler EXCEPT ![k] = "serve"]
    /\ UNCHANGED <<outer, given, conn, read, sess, poll, onclose, end, buf, link, opener>>

-----------------------------------------------------------------------------
(* Both sides: the poller callbacks and the io.Copy goroutine.              *)

\* The poller reads a chunk and calls onConnData, which loads the session.
onConnData(x, k) ==
    /\ armed[<<x, k>>] /\ conn[<<x, k>>] = "open"
    /\ poll[<<x, k>>] = "idle"
    /\ read[<<x, k>>] < sent[<<x, k>>]
    /\ read' = [read EXCEPT ![<<x, k>>] = @ + 1]
    /\ \/ /\ sess[<<x, k>>]
          /\ poll' = [poll EXCEPT ![<<x, k>>] = "write"]
          /\ UNCHANGED <<conn, onclose>>
       \/ /\ ~sess[<<x, k>>]
          /\ CloseConn(x, k)
          /\ UNCHANGED poll
    /\ UNCHANGED <<outer, given, armed, sess, end, buf, link, opener, handler, copier>>

\* Faulty variant: the chunk before the one just read is written.
WritePreviousChunk(x, k) ==
    /\ poll[<<x, k>>] = "write"
    /\ WriteOk(x, k, read[<<x, k>>] - 1)
    /\ poll' = [poll EXCEPT ![<<x, k>>] = "idle"]
    /\ UNCHANGED <<outer, given, nb, read, end, link, opener, handler, copier>>

\* ... and then writes the chunk to the stream it loaded.
onConnDataWrite(x, k) ==
    /\ poll[<<x, k>>] = "write"
    /\ WriteOk(x, k, read[<<x, k>>])
    /\ poll' = [poll EXCEPT ![<<x, k>>] = "idle"]
    /\ UNCHANGED <<outer, given, nb, read, end, link, opener, handler, copier>>

onConnDataWriteFails(x, k) ==
    /\ poll[<<x, k>>] = "write"
    /\ WriteFails(x, k)
    /\ poll' = [poll EXCEPT ![<<x, k>>] = "idle"]
    /\ sess' = [sess EXCEPT ![<<x, k>>] = FALSE]
    /\ CloseConn(x, k)
    /\ UNCHANGED <<outer, given, armed, read, end, buf, link, opener, handler, copier>>

\* The poller sees the end of the outer connection (EOF, or a reset that
\* drops chunks it has not read) and closes it.
PollEOF(x, k) ==
    /\ armed[<<x, k>>] /\ conn[<<x, k>>] = "open"
    /\ poll[<<x, k>>] = "idle"
    /\ ext[<<x, k>>] = "closed"
    /\ CloseConn(x, k)
    /\ UNCHANGED <<outer, given, armed, read, sess, poll, end, buf, link, opener,
                   handler, copier>>

\* Faulty variant: the stream of the closed connection stays open.
CloseKeepingStream(x, k) ==
    /\ onclose[<<x, k>>] = "due"
    /\ onclose' = [onclose EXCEPT ![<<x, k>>] = "ran"]
    /\ UNCHANGED <<outer, given, conn, armed, read, sess, poll, end, buf, link, opener,
                   handler, copier>>

\* Closes the stream if the session still holds it when the callback runs.
onConnClose(x, k) ==
    /\ onclose[<<x, k>>] = "due"
    /\ onclose' = [onclose EXCEPT ![<<x, k>>] = "ran"]
    /\ end' = [end EXCEPT ![<<x, k>>] = IF sess[<<x, k>>] THEN "closed" ELSE @]
    /\ UNCHANGED <<outer, given, conn, armed, read, sess, poll, buf, link, opener,
                   handler, copier>>

\* io.Copy: read from the stream, write to the connection.
Copy(x, k) ==
    /\ copier[<<x, k>>] = "copy"
    /\ CanRead(x, k)
    /\ conn[<<x, k>>] = "open"
    /\ got' = [got EXCEPT ![<<x, k>>] = Append(@, Head(buf[<<x, k>>]))]
    /\ Consume(x, k, 1)
    /\ UNCHANGED <<outer, lost, nb, read, poll, end, link, opener, handler, copier>>

\* io.Copy returns: the read failed, or the write did because the connection
\* is closed or its outer peer is gone.
CopyEnds(x, k) ==
    /\ copier[<<x, k>>] = "copy"
    /\ \/ ReadFails(x, k) /\ UNCHANGED buf
       \/ /\ CanRead(x, k)
          /\ conn[<<x, k>>] = "closed" \/ ext[<<x, k>>] = "closed"
          /\ Consume(x, k, 1)
    /\ copier' = [copier EXCEPT ![<<x, k>>] = "unset"]
    /\ UNCHANGED <<outer, given, nb, read, poll, end, link, opener, handler>>

\* ... and tears down: SetSession(nil), s.Close(), c.Close().
CopyUnset(x, k) ==
    /\ copier[<<x, k>>] = "unset"
    /\ sess' = [sess EXCEPT ![<<x, k>>] = FALSE]
    /\ copier' = [copier EXCEPT ![<<x, k>>] = "closeS"]
    /\ UNCHANGED <<outer, given, conn, armed, read, poll, onclose, end, buf, link,
                   opener, handler>>

CopyCloseStream(x, k) ==
    /\ copier[<<x, k>>] = "closeS"
    /\ end' = [end EXCEPT ![<<x, k>>] = "closed"]
    /\ copier' = [copier EXCEPT ![<<x, k>>] = "closeC"]
    /\ UNCHANGED <<outer, given, nb, read, poll, buf, link, opener, handler>>

\* Faulty variant: the connection stays open after the copy.
CopyKeepsConn(x, k) ==
    /\ copier[<<x, k>>] = "closeC"
    /\ copier' = [copier EXCEPT ![<<x, k>>] = "done"]
    /\ UNCHANGED <<outer, given, nb, read, poll, end, buf, link, opener, handler>>

CopyCloseConn(x, k) ==
    /\ copier[<<x, k>>] = "closeC"
    /\ CloseConn(x, k)
    /\ copier' = [copier EXCEPT ![<<x, k>>] = "done"]
    /\ UNCHANGED <<outer, given, armed, read, sess, poll, end, buf, link, opener, handler>>

-----------------------------------------------------------------------------
OpenerStep(k) ==
    \/ Accept(k) \/ OpenStream(k) \/ OpenStreamFails(k)
    \/ WriteHandshake(k) \/ HandshakeIOFails(k)
    \/ ResponseOk(k) \/ ResponseBad(k) \/ SetSession(k) \/ Arm(k)

HandlerStep(k) ==
    \/ ReadHandshake(k) \/ ReadHandshakeFails(k)
    \/ HandleHandshake(k) \/ HandleHandshakeFails(k)
    \/ DialTarget(k) \/ DialTargetFails(k)
    \/ WriteResponse(k) \/ WriteResponseFails(k) \/ AddConn(k)

PollStep(x, k) ==
    \/ onConnData(x, k) \/ onConnDataWrite(x, k) \/ onConnDataWriteFails(x, k)
    \/ PollEOF(x, k)

CopyStep(x, k) ==
    \/ Copy(x, k) \/ CopyEnds(x, k) \/ CopyUnset(x, k)
    \/ CopyCloseStream(x, k) \/ CopyCloseConn(x, k)

Environment(k) ==
    \/ AppConnect(k) \/ StreamFail(k)
    \/ \E x \in Sides : OuterSend(x, k) \/ OuterClose(x, k)

ConnStep(k) ==
    \/ OpenerStep(k) \/ HandlerStep(k) \/ Environment(k)
    \/ \E x \in Sides : PollStep(x, k) \/ onConnClose(x, k) \/ CopyStep(x, k)

Next == \E k \in Conns : ConnStep(k)

Spec == Init /\ [][Next]_vars

\* Goroutines, callbacks and bounded dials run on; the outer peers and the
\* network owe nothing.
Fairness ==
    \A k \in Conns :
        /\ WF_vars(OpenerStep(k))
        /\ WF_vars(HandlerStep(k))
        /\ \A x \in Sides :
              /\ WF_vars(PollStep(x, k))
              /\ WF_vars(onConnClose(x, k))
              /\ WF_vars(CopyStep(x, k))

FairSpec == Spec /\ Fairness

-----------------------------------------------------------------------------
(* Safety.                                                                  *)

\* What a relay writes to its outer TCP peer is what the outer peer of the
\* other side sent: in order, with nothing lost in between, nothing twice, and
\* no byte of the handshake (onConnData, relayHandshake, handleUptpStream and
\* the two io.Copy goroutines together).  It starts with the first chunk
\* toward the target; toward the application it may start later, but what is
\* missing then is white space that came with the response.
PayloadIntegrity ==
    \A x \in Sides, k \in Conns :
        /\ Len(got[<<x, k>>]) + lost[<<x, k>>] <= sent[<<Other(x), k>>]
        /\ \A i \in 1 .. Len(got[<<x, k>>]) : got[<<x, k>>][i] = lost[<<x, k>>] + i
        /\ \A i \in 1 .. lost[<<x, k>>] : x = "cl" /\ i \in Blank

\* onConnOpen gives the connection a session only after the peer has resolved
\* the handshake and dialled the target; in particular no payload is on the
\* stream when handleUptpStream reads the handshake.
AcceptedBeforeRelay ==
    \A k \in Conns :
        /\ opener[k] \in {"setSession", "arm", "done"} => handler[k] \in {"addConn", "serve"}
        /\ handler[k] = "readHs" => buf[<<"sv", k>>] \in {<<>>, <<Hs>>}

\* The goroutine that will close the stream handle of a side.  After an I/O
\* error of the handshake the client's handle has none.
StreamOwner(x, k) ==
    \/ x = "cl" /\ opener[k] \in {"writeHs", "readRsp", "setSession", "ioerr"}
    \/ x = "sv" /\ handler[k] \in {"readHs", "handle", "dial", "writeRsp", "addConn"}
    \/ copier[<<x, k>>] \in {"copy", "unset", "closeS"}

\* Every open stream handle is in the hands of a goroutine that will close it,
\* on every path through relayHandshake, onConnOpen and handleUptpStream.
StreamOwned ==
    \A x \in Sides, k \in Conns : end[<<x, k>>] = "open" => StreamOwner(x, k)

ConnOwner(x, k) ==
    \/ x = "cl" /\ opener[k] \in {"open", "writeHs", "readRsp", "setSession"}
    \/ x = "sv" /\ handler[k] \in {"writeRsp", "addConn"}
    \/ copier[<<x, k>>] \in {"copy", "unset", "closeS", "closeC"}

\* Every open TCP connection is in the hands of a goroutine that will close it.
ConnOwned ==
    \A x \in Sides, k \in Conns : conn[<<x, k>>] = "open" => ConnOwner(x, k)

\* When the client refuses a connection that the server accepted, the target
\* has spoken first, and not in white space: its chunk was read together with
\* the response, which then is not one JSON value.
RefusedByFirstWord ==
    \A k \in Conns :
        opener[k] = "refused" /\ handler[k] \in {"addConn", "serve"}
            => \E i \in 1 .. sent[<<"sv", k>>] : i \notin Blank

\* relayHandshake's deferred function resets the stream of a handshake that
\* failed: no client handle stays open once onConnOpen has given up.
FailedHandshakeResets ==
    \A k \in Conns : opener[k] \in {"refused", "ioerr"} => end[<<"cl", k>>] # "open"

-----------------------------------------------------------------------------
(* Liveness.                                                                *)

Settled(k) == opener[k] \in {"done", "refused", "ioerr"}

Released(k) ==
    /\ Settled(k)
    /\ \A x \in Sides : conn[<<x, k>>] # "open"
    /\ end[<<"sv", k>>] # "open"
    /\ end[<<"cl", k>>] # "open" \/ opener[k] = "ioerr"

\* Every connection that an application makes is accepted and its handshake
\* comes to an end: no other connection blocks the accept loop for ever.
EveryConnectionSettles ==
    \A k \in Conns : ext[<<"cl", k>>] = "open" ~> Settled(k)

\* Once the application or the target closes, or the stream breaks, both
\* relays give up their connection and their stream handle for good.
EndReleasesBoth ==
    \A k \in Conns :
        (ext[<<"cl", k>>] = "closed" \/ ext[<<"sv", k>>] = "closed" \/ link[k] # "up")
            ~> []Released(k)

\* Everything an outer peer sends reaches the outer peer of the other side,
\* unless somebody closes, the stream breaks or the connection is refused; of
\* what the target sends, the white space read with the response is missing.
Delivery ==
    \A x \in Sides, k \in Conns :
        sent[<<x, k>>] = MaxSend
            ~> \/ Len(got[<<Other(x), k>>]) + lost[<<Other(x), k>>] = MaxSend
               \/ \E y \in Sides : ext[<<y, k>>] = "closed"
               \/ link[k] # "up"
               \/ opener[k] \in {"refused", "ioerr"}
=============================================================================
