------------------------------- MODULE Socks5 --------------------------------
(***************************************************************************)
(* The SOCKS5 service over libp2p streams: the dials of socks5/client.go,  *)
(* the stream handler of socks5/server.go with the sessions it keeps in    *)
(* the peerstore, tunneling of socks5/util.go, and the handler of          *)
(* p2pengine/engine.go that forgets a peer which disconnects.              *)
(*                                                                         *)
(* Every dial is one stream from its peer to the server.  A message of the *)
(* protocol is read as a whole (the parsers of the socks5 library know the *)
(* length), so a Write is one item and a Read takes one item.  The payload *)
(* of a tunnel is left out: only its beginning and its end are modelled.   *)
(* A foreign peer does not run client.go: it writes what it likes when it  *)
(* likes, and need not read.                                               *)
(***************************************************************************)
EXTENDS Naturals, Sequences

CONSTANTS
    Peers,     \* the clients of the server
    Trusted,   \* those whose password AuthFunc accepts
    Foreign,   \* those that do not run client.go, and have no such password
    Streams,   \* the dials
    Dials,     \* what they may be: whose dial each is, and of which kind
    MaxDrops,  \* how many connections may be lost
    MaxAhead   \* how many messages a foreign peer writes ahead

ASSUME TrustedAssumption == Trusted \subseteq Peers
ASSUME ForeignAssumption == Foreign \subseteq Peers \ Trusted
ASSUME MaxDropsAssumption == MaxDrops \in Nat
ASSUME MaxAheadAssumption == MaxAhead \in Nat

Sides == {"cl", "sv"}
Ends == Sides \X Streams
Other(x) == IF x = "cl" THEN "sv" ELSE "cl"

Item == {"neg", "userpass", "none", "auth", "accepted", "denied",
         "request", "success", "failure", "data"}

\* A dial: whose it is, and whether it is dialContext or DialUDP.
Dial == [peer : Peers, kind : {"connect", "packet"}]

ASSUME DialsAssumption == Dials \subseteq [Streams -> Dial]

VARIABLES
    dial,     \* the dials, which do not change
    drops,    \* how many connections were lost
    events,   \* disconnections the engine has not handled yet
    known,    \* the peers with a session in the peerstore
    end,      \* the handle of each side of the stream; "deaf": it is not read any more
    buf,      \* items that have arrived and are not read yet
    lost,     \* the stream failed: its connection was lost, or never made
    client,   \* where the dial is; "foreign": the peer is
    server,   \* where the stream handler is
    needAuth, \* what preCheckFunc told the handler
    target,   \* the server's connection, or UDP socket, for the request
    forward   \* the goroutines that copy: "up" from the stream, "down" to it

serverVars == <<server, needAuth, target, forward>>
peerVars   == <<dial, drops, events, known>>
vars == <<dial, drops, events, known, end, buf, lost, client, server, needAuth, target, forward>>

TypeOK ==
    /\ dial \in [Streams -> Dial]
    /\ drops \in 0 .. MaxDrops
    /\ events \in [Peers -> 0 .. MaxDrops]
    /\ known \subseteq Peers
    /\ end \in [Ends -> {"none", "open", "deaf", "closed"}]
    /\ buf \in [Ends -> Seq(Item)]
    /\ lost \in [Streams -> BOOLEAN]
    /\ client \in [Streams -> {"idle", "writeNeg", "readNeg", "writeAuth", "readAuth",
                               "writeReq", "readReply", "open", "closed", "failed", "foreign"}]
    /\ server \in [Streams -> {"none", "precheck", "readNeg", "writeMethod", "readAuth", "auth",
                               "put", "writeStatus", "writeDenied", "readReq", "dial",
                               "listen", "replyErr", "reply", "tunnel", "packet", "returned"}]
    /\ needAuth \in [Streams -> BOOLEAN]
    /\ target \in [Streams -> {"none", "open", "eof", "refused", "closed"}]
    /\ forward \in [Streams -> SUBSET {"up", "down"}]

Init ==
    /\ dial \in Dials
    /\ drops = 0
    /\ events = [p \in Peers |-> 0]
    /\ known = {}
    /\ end = [e \in Ends |-> "none"]
    /\ buf = [e \in Ends |-> <<>>]
    /\ lost = [s \in Streams |-> FALSE]
    /\ client = [s \in Streams |-> "idle"]
    /\ server = [s \in Streams |-> "none"]
    /\ needAuth = [s \in Streams |-> TRUE]
    /\ target = [s \in Streams |-> "none"]
    /\ forward = [s \in Streams |-> {}]

-----------------------------------------------------------------------------
(* Streams (external).  A Write succeeds, or fails once a handle is closed  *)
(* or the other side has stopped reading; a Read fails on a closed handle,  *)
(* and when the other side has closed and nothing is left.  Reset and the   *)
(* loss of the connection close both handles and discard what is under way. *)

CanWrite(x, s) == end[<<x, s>>] \in {"open", "deaf"}
WriteFails(x, s) == end[<<x, s>>] # "open" \/ end[<<Other(x), s>>] # "open"

Write(x, s, i) ==
    /\ CanWrite(x, s)
    /\ buf' = [buf EXCEPT ![<<Other(x), s>>] =
                   IF end[<<Other(x), s>>] = "open" THEN Append(@, i) ELSE @]

CanRead(x, s) == end[<<x, s>>] = "open" /\ buf[<<x, s>>] # <<>>
ReadFails(x, s) ==
    \/ end[<<x, s>>] # "open"
    \/ buf[<<x, s>>] = <<>> /\ end[<<Other(x), s>>] \notin {"open", "deaf"}

First(x, s) == Head(buf[<<x, s>>])
Take(x, s) == buf' = [buf EXCEPT ![<<x, s>>] = Tail(@)]

Close(x, s) == end' = [end EXCEPT ![<<x, s>>] = "closed"]
Reset(s) ==
    /\ end' = [end EXCEPT ![<<"cl", s>>] = "closed", ![<<"sv", s>>] = "closed"]
    /\ buf' = [buf EXCEPT ![<<"cl", s>>] = <<>>, ![<<"sv", s>>] = <<>>]

\* The connection to a peer is lost, with all its streams; the engine will
\* hear of it.
Disconnect(p) ==
    /\ drops < MaxDrops
    /\ drops' = drops + 1
    /\ events' = [events EXCEPT ![p] = @ + 1]
    /\ LET gone == {s \in Streams : dial[s].peer = p /\ end[<<"cl", s>>] # "none"}
       IN  /\ end' = [e \in Ends |-> IF e[2] \in gone THEN "closed" ELSE end[e]]
           /\ buf' = [e \in Ends |-> IF e[2] \in gone THEN <<>> ELSE buf[e]]
           /\ lost' = [s \in Streams |-> lost[s] \/ s \in gone]
    /\ UNCHANGED <<dial, known, client, serverVars>>

\* listenAndHandleConnectEvent removes the peer from the peerstore.
RemovePeer(p) ==
    /\ events[p] > 0
    /\ events' = [events EXCEPT ![p] = @ - 1]
    /\ known' = known \ {p}
    /\ UNCHANGED <<dial, drops, end, buf, lost, client, serverVars>>

-----------------------------------------------------------------------------
(* The client: dialContext and DialUDP.                                     *)

To(s, l) == client' = [client EXCEPT ![s] = l]

NewStream(s) ==
    /\ client[s] = "idle"
    /\ dial[s].peer \notin Foreign
    /\ end' = [end EXCEPT ![<<"cl", s>>] = "open", ![<<"sv", s>>] = "open"]
    /\ To(s, "writeNeg")
    /\ server' = [server EXCEPT ![s] = "precheck"]
    /\ UNCHANGED <<peerVars, buf, lost, needAuth, target, forward>>

NewStreamFails(s) ==
    /\ client[s] = "idle"
    /\ lost' = [lost EXCEPT ![s] = TRUE]
    /\ To(s, "failed")
    /\ UNCHANGED <<peerVars, end, buf, serverVars>>

ClientWrite(s) ==
    /\ \/ client[s] = "writeNeg" /\ Write("cl", s, "neg") /\ To(s, "readNeg")
       \/ client[s] = "writeAuth" /\ Write("cl", s, "auth") /\ To(s, "readAuth")
       \/ client[s] = "writeReq" /\ Write("cl", s, "request") /\ To(s, "readReply")
    /\ UNCHANGED <<peerVars, end, lost, serverVars>>

\* DialUDP has no case for MethodNone.
Acceptable(s, m) == m = "userpass" \/ (m = "none" /\ dial[s].kind = "connect")

ReadMethod(s) ==
    /\ client[s] = "readNeg"
    /\ CanRead("cl", s)
    /\ LET m == First("cl", s)
       IN  \/ Acceptable(s, m) /\ Take("cl", s) /\ UNCHANGED end
              /\ To(s, IF m = "userpass" THEN "writeAuth" ELSE "writeReq")
           \/ ~Acceptable(s, m) /\ Reset(s) /\ To(s, "failed")
    /\ UNCHANGED <<peerVars, lost, serverVars>>

\* A status other than success ends the dial, which does not close the stream.
ReadStatus(s) ==
    /\ client[s] = "readAuth"
    /\ CanRead("cl", s)
    /\ Take("cl", s)
    /\ To(s, IF First("cl", s) = "accepted" THEN "writeReq" ELSE "failed")
    /\ UNCHANGED <<peerVars, end, lost, serverVars>>

ReadReply(s) ==
    /\ client[s] = "readReply"
    /\ CanRead("cl", s)
    /\ \/ First("cl", s) = "success" /\ Take("cl", s) /\ UNCHANGED end /\ To(s, "open")
       \/ First("cl", s) # "success" /\ Reset(s) /\ To(s, "failed")
    /\ UNCHANGED <<peerVars, lost, serverVars>>

\* A Write or a Read fails.  All but those of the authentication reset the
\* stream before they return.
ClientIOFails(s) ==
    /\ \/ client[s] \in {"writeNeg", "writeAuth", "writeReq"} /\ WriteFails("cl", s)
       \/ client[s] \in {"readNeg", "readAuth", "readReply"} /\ ReadFails("cl", s)
    /\ IF client[s] \in {"writeAuth", "readAuth"} THEN UNCHANGED <<end, buf>> ELSE Reset(s)
    /\ To(s, "failed")
    /\ UNCHANGED <<peerVars, lost, serverVars>>

\* The user of the connection closes it.
ClientClose(s) ==
    /\ client[s] = "open"
    /\ Close("cl", s)
    /\ To(s, "closed")
    /\ UNCHANGED <<peerVars, buf, lost, serverVars>>

-----------------------------------------------------------------------------
(* A foreign peer (external): all the handler knows of it is the stream.    *)

NewForeign(s) ==
    /\ client[s] = "idle"
    /\ dial[s].peer \in Foreign
    /\ end' = [end EXCEPT ![<<"cl", s>>] = "open", ![<<"sv", s>>] = "open"]
    /\ To(s, "foreign")
    /\ server' = [server EXCEPT ![s] = "precheck"]
    /\ UNCHANGED <<peerVars, buf, lost, needAuth, target, forward>>

\* It writes any message at any time (one written when the handler does not read
\* any more tells it nothing).
Negotiating == {"precheck", "readNeg", "writeMethod", "readAuth", "auth", "put", "writeStatus", "writeDenied"}

ForeignWrite(s) ==
    /\ client[s] = "foreign"
    /\ server[s] \in Negotiating \cup {"readReq"} /\ Len(buf[<<"sv", s>>]) < MaxAhead
    /\ \E i \in {"neg", "auth", "request"} : Write("cl", s, i)
    /\ UNCHANGED <<peerVars, end, lost, client, serverVars>>

\* It closes its reading half, closes the stream or resets it.
ForeignStops(s) ==
    /\ client[s] = "foreign" /\ end[<<"cl", s>>] # "closed"
    /\ \/ end[<<"cl", s>>] = "open" /\ end' = [end EXCEPT ![<<"cl", s>>] = "deaf"] /\ UNCHANGED buf
       \/ Close("cl", s) /\ UNCHANGED buf
       \/ Reset(s)
    /\ UNCHANGED <<peerVars, lost, client, serverVars>>

-----------------------------------------------------------------------------
(* The server: handler, socks5Negotiate and socks5RequestConnect.           *)

At(s, l) == server' = [server EXCEPT ![s] = l]

\* The handler first asks whether the peer has a session.
Precheck(s) ==
    /\ server[s] = "precheck"
    /\ needAuth' = [needAuth EXCEPT ![s] = dial[s].peer \notin known]
    /\ At(s, "readNeg")
    /\ UNCHANGED <<peerVars, end, buf, lost, client, target, forward>>

ServerRead(s) ==
    /\ CanRead("sv", s)
    /\ Take("sv", s)
    /\ \/ server[s] = "readNeg" /\ At(s, "writeMethod")
       \/ server[s] = "readAuth" /\ At(s, "auth")
       \/ server[s] = "readReq" /\ At(s, IF dial[s].kind = "connect" THEN "dial" ELSE "listen")
    /\ UNCHANGED <<peerVars, end, lost, client, needAuth, target, forward>>

Expected(s) ==
    IF server[s] = "readNeg" THEN "neg" ELSE IF server[s] = "readAuth" THEN "auth" ELSE "request"

\* A message out of place may be read as the one expected, or be refused: an
\* error that is logged, so that the handler returns.  Only socks5RequestConnect
\* closes the stream.
ServerRefuses(s) ==
    /\ server[s] \in {"readNeg", "readAuth", "readReq"}
    /\ CanRead("sv", s)
    /\ First("sv", s) # Expected(s)
    /\ Take("sv", s)
    /\ IF server[s] = "readReq" THEN Close("sv", s) ELSE UNCHANGED end
    /\ At(s, "returned")
    /\ UNCHANGED <<peerVars, lost, client, needAuth, target, forward>>

\* Faulty variant: a known peer is told that no method is acceptable.
WriteNoMethod(s) ==
    /\ server[s] = "writeMethod"
    /\ Write("sv", s, IF needAuth[s] THEN "userpass" ELSE "unsupported")
    /\ At(s, IF needAuth[s] THEN "readAuth" ELSE "readReq")
    /\ UNCHANGED <<peerVars, end, lost, client, needAuth, target, forward>>

WriteMethod(s) ==
    /\ server[s] = "writeMethod"
    /\ Write("sv", s, IF needAuth[s] THEN "userpass" ELSE "none")
    /\ At(s, IF needAuth[s] THEN "readAuth" ELSE "readReq")
    /\ UNCHANGED <<peerVars, end, lost, client, needAuth, target, forward>>

\* AuthFunc compares the password with the token.
Auth(s) ==
    /\ server[s] = "auth"
    /\ At(s, IF dial[s].peer \in Trusted THEN "put" ELSE "writeDenied")
    /\ UNCHANGED <<peerVars, end, buf, lost, client, needAuth, target, forward>>

PutSession(s) ==
    /\ server[s] = "put"
    /\ known' = known \cup {dial[s].peer}
    /\ At(s, "writeStatus")
    /\ UNCHANGED <<dial, drops, events, end, buf, lost, client, needAuth, target, forward>>

WriteStatus(s) ==
    /\ server[s] = "writeStatus"
    /\ Write("sv", s, "accepted")
    /\ At(s, "readReq")
    /\ UNCHANGED <<peerVars, end, lost, client, needAuth, target, forward>>

\* Faulty variant: a failed authentication is not answered.
DenySilently(s) ==
    /\ server[s] = "writeDenied"
    /\ At(s, "returned")
    /\ UNCHANGED <<peerVars, end, buf, lost, client, needAuth, target, forward>>

\* Faulty variant: the answer's error, which is nil, is returned instead of
\* ErrUserPassAuth.
DenyAndGoOn(s) ==
    /\ server[s] = "writeDenied"
    /\ Write("sv", s, "denied")
    /\ At(s, "readReq")
    /\ UNCHANGED <<peerVars, end, lost, client, needAuth, target, forward>>

\* The handler logs ErrUserPassAuth and returns; the stream stays open.
WriteDenied(s) ==
    /\ server[s] = "writeDenied"
    /\ Write("sv", s, "denied")
    /\ At(s, "returned")
    /\ UNCHANGED <<peerVars, end, lost, client, needAuth, target, forward>>

\* A Read or a Write of the negotiation fails because the stream was closed or
\* reset, or is not read.  shouldLogError is false for such an error, so the
\* handler goes on to read a request.  (An error it logs ends the handler at once,
\* with the stream closed already.)
NegotiateIOFails(s) ==
    /\ \/ server[s] \in {"readNeg", "readAuth"} /\ ReadFails("sv", s)
       \/ server[s] \in {"writeMethod", "writeStatus", "writeDenied"} /\ WriteFails("sv", s)
    /\ At(s, "readReq")
    /\ UNCHANGED <<peerVars, end, buf, lost, client, needAuth, target, forward>>

\* No request: the deferred Close.
RequestIOFails(s) ==
    /\ \/ server[s] = "readReq" /\ ReadFails("sv", s)
       \/ server[s] = "replyErr" /\ WriteFails("sv", s)
    /\ Close("sv", s)
    /\ At(s, "returned")
    /\ UNCHANGED <<peerVars, buf, lost, client, needAuth, target, forward>>

\* obDialer.Dial or DialUDP; net.ListenUDP.
DialTarget(s) ==
    /\ server[s] \in {"dial", "listen"}
    /\ target' = [target EXCEPT ![s] = "open"]
    /\ \/ server[s] = "dial" /\ At(s, "reply") /\ UNCHANGED forward
       \/ server[s] = "listen" /\ At(s, "packet") /\ forward' = [forward EXCEPT ![s] = {"up"}]
    /\ UNCHANGED <<peerVars, end, buf, lost, client, needAuth>>

DialTargetFails(s) ==
    /\ server[s] \in {"dial", "listen"}
    /\ target' = [target EXCEPT ![s] = "refused"]
    /\ At(s, "replyErr")
    /\ UNCHANGED <<peerVars, end, buf, lost, client, needAuth, forward>>

ReplyErr(s) ==
    /\ server[s] = "replyErr"
    /\ Write("sv", s, "failure")
    /\ Close("sv", s)
    /\ At(s, "returned")
    /\ UNCHANGED <<peerVars, lost, client, needAuth, target, forward>>

\* Faulty variant: an error is answered although the target was dialled.
ReplyFailure(s) ==
    /\ server[s] = "reply"
    /\ Write("sv", s, "failure")
    /\ At(s, "tunnel")
    /\ forward' = [forward EXCEPT ![s] = {"up", "down"}]
    /\ UNCHANGED <<peerVars, end, lost, client, needAuth, target>>

\* ... and tunneling starts its two goroutines.
Reply(s) ==
    /\ server[s] = "reply"
    /\ Write("sv", s, "success")
    /\ At(s, "tunnel")
    /\ forward' = [forward EXCEPT ![s] = {"up", "down"}]
    /\ UNCHANGED <<peerVars, end, lost, client, needAuth, target>>

\* Faulty variant: the dialled connection is not closed.
ReturnKeepingTarget(s) ==
    /\ \/ server[s] = "reply" /\ WriteFails("sv", s)
       \/ server[s] = "tunnel" /\ forward[s] # {"up", "down"}
    /\ Close("sv", s)
    /\ At(s, "returned")
    /\ UNCHANGED <<peerVars, buf, lost, client, needAuth, target, forward>>

\* The reply cannot be written, or a copy has ended: the deferred Closes.
Return(s) ==
    /\ \/ server[s] = "reply" /\ WriteFails("sv", s)
       \/ server[s] = "tunnel" /\ forward[s] # {"up", "down"}
    /\ target' = [target EXCEPT ![s] = "closed"]
    /\ Close("sv", s)
    /\ At(s, "returned")
    /\ UNCHANGED <<peerVars, buf, lost, client, needAuth, forward>>

\* A copy ends: what it reads from has ended, or what it writes to is closed.
ForwardEnds(s, d) ==
    /\ d \in forward[s]
    /\ \/ target[s] = "closed"
       \/ d = "up" /\ ReadFails("sv", s)
       \/ d = "down" /\ (target[s] = "eof" \/ WriteFails("sv", s))
    /\ forward' = [forward EXCEPT ![s] = @ \ {d}]
    /\ UNCHANGED <<peerVars, end, buf, lost, client, server, needAuth, target>>

\* The target closes its connection.
TargetEnds(s) ==
    /\ server[s] = "tunnel"
    /\ target[s] = "open"
    /\ target' = [target EXCEPT ![s] = "eof"]
    /\ UNCHANGED <<peerVars, end, buf, lost, client, server, needAuth, forward>>

\* handleUDPPackConnRequest forwards a packet that reaches its socket.
PacketIn(s) ==
    /\ server[s] = "packet"
    /\ buf[<<"cl", s>>] = <<>>
    /\ Write("sv", s, "data")
    /\ UNCHANGED <<peerVars, end, lost, client, serverVars>>

\* No packet for two minutes, or one that cannot be forwarded: its loop ends.
PacketLoopEnds(s) ==
    /\ server[s] = "packet"
    /\ target' = [target EXCEPT ![s] = "closed"]
    /\ Close("sv", s)
    /\ At(s, "returned")
    /\ UNCHANGED <<peerVars, buf, lost, client, needAuth, forward>>

-----------------------------------------------------------------------------
ClientStep(s) == ClientWrite(s) \/ ReadMethod(s) \/ ReadStatus(s) \/ ReadReply(s) \/ ClientIOFails(s)

ServerStep(s) ==
    \/ Precheck(s) \/ ServerRead(s) \/ ServerRefuses(s) \/ WriteMethod(s) \/ Auth(s)
    \/ PutSession(s) \/ WriteStatus(s) \/ WriteDenied(s) \/ NegotiateIOFails(s) \/ RequestIOFails(s)
    \/ DialTarget(s) \/ DialTargetFails(s) \/ ReplyErr(s) \/ Reply(s) \/ Return(s)
    \/ PacketLoopEnds(s)

Environment(s) ==
    \/ NewStream(s) \/ NewStreamFails(s) \/ ClientClose(s) \/ TargetEnds(s) \/ PacketIn(s)
    \/ NewForeign(s) \/ ForeignWrite(s) \/ ForeignStops(s)

Next ==
    \/ \E p \in Peers : Disconnect(p) \/ RemovePeer(p)
    \/ \E s \in Streams : \/ ClientStep(s) \/ ServerStep(s) \/ Environment(s)
                          \/ \E d \in {"up", "down"} : ForwardEnds(s, d)

Spec == Init /\ [][Next]_vars

\* Goroutines run on, dials end after 30 seconds and the packet loop after two
\* minutes of silence; users, targets and the network owe nothing.
Fairness ==
    /\ \A p \in Peers : WF_vars(RemovePeer(p))
    /\ \A s \in Streams :
          /\ WF_vars(ClientStep(s))
          /\ WF_vars(ServerStep(s))
          /\ \A d \in {"up", "down"} : WF_vars(ForwardEnds(s, d))

FairSpec == Spec /\ Fairness

-----------------------------------------------------------------------------
\* Whatever an untrusted peer writes, and whatever order it writes it in, it gets
\* no session; and the server reaches a target, or listens for packets, for it
\* only where the negotiation was cut off by a stream the peer had stopped
\* reading (the handler goes on after such an error).  In particular neither the
\* sessions of other peers, nor one left behind by an earlier connection, nor the
\* handler that goes on, lets a peer through that runs client.go.
Serving == {"dial", "listen", "replyErr", "reply", "tunnel", "packet"}

OnlyTrusted ==
    /\ known \subseteq Trusted
    /\ \A s \in Streams :
          server[s] \in Serving =>
              \/ dial[s].peer \in Trusted
              \/ client[s] = "foreign" /\ end[<<"cl", s>>] # "open"

\* dialContext fails for a cause: an unknown password, the loss of the
\* connection, or a target that refuses.  In particular the session the server
\* finds, stores or drops meanwhile never makes the two disagree on the method.
FailsForCause(s) ==
    client[s] = "failed" => lost[s] \/ dial[s].peer \notin Trusted \/ target[s] = "refused"

ConnectFailsForCause == \A s \in Streams : dial[s].kind = "connect" => FailsForCause(s)

\* The same of DialUDP ("read the server's response", "create and return the
\* PacketConn").
PacketFailsForCause == \A s \in Streams : dial[s].kind = "packet" => FailsForCause(s)

\* Every dial comes to an end: client and server never wait for each other.
EveryDialEnds == \A s \in Streams : client[s] = "writeNeg" ~> client[s] \in {"open", "closed", "failed"}

\* Nothing is left of a dial: no target, no goroutine, and no stream handle but
\* that of a connection still in use.  A failed authentication is an exception:
\* there neither dialContext nor the handler closes the stream.
Released(s) ==
    /\ target[s] \notin {"open", "eof"}
    /\ forward[s] = {}
    /\ \/ dial[s].peer \notin Trusted
       \/ end[<<"sv", s>>] # "open" /\ (client[s] = "open" \/ end[<<"cl", s>>] # "open")

\* Once the user closes, the dial fails, the target ends or the connection is
\* lost, both sides release what they hold for good: the first copy that ends
\* ends tunneling, whose deferred Closes end the second.
EndReleasesBoth ==
    \A s \in Streams :
        (client[s] \in {"closed", "failed"} \/ target[s] = "eof" \/ lost[s]) ~> []Released(s)
=============================================================================
