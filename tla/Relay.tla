------------------------------- MODULE Relay -------------------------------
(***************************************************************************)
(* One public connection, relayed over a yamux stream to a local service:  *)
(* forwardTCP and pipeCount, handleWSProxy, RoundTrip at the server,       *)
(* handleDataStream at the client, and WSConn under the stream.            *)
(*                                                                         *)
(* Each direction passes a socket (in), the connection between client and  *)
(* server (wire, rest: WebSocket messages), the stream's receive buffer    *)
(* (stream) and another socket (out).  A copy's Read and Write are one     *)
(* step.  Yamux, the sockets and the two peers are the environment.        *)
(***************************************************************************)
EXTENDS Naturals, Sequences, SequencesExt

CONSTANTS Pieces,            \* bound: pieces of data for each kind and direction;
                             \* an HTTP request and its response have as many
          Hdr, Fin, Refusal  \* stream header, end of data, a 502 answer

Kind == {"tcp", "ws", "http"}
Dir == {"up", "down"}     \* to the local service and back

ASSUME PiecesAssumption == Pieces \in [Kind -> [Dir -> Nat \ {0}]]
ASSUME MarkAssumption == /\ {Hdr, Fin, Refusal} \cap Nat = {}
                         /\ Hdr # Fin /\ Fin # Refusal /\ Hdr # Refusal

VARIABLES kind,     \* "tcp", "ws" (an upgraded request) or "http"
          handler,  \* where each side's handler is
          into,     \* the copy from the source's socket into the stream
          outof,    \* the copy from the stream to the destination's socket
          in, wire, rest, stream, out,
          peer,     \* the visitor and the local service
          sent, got, over,
          dead      \* the session is gone

copies == <<into, outof>>
data == <<in, wire, rest, stream, out>>
ends == <<peer, sent, got, over>>
vars == <<kind, handler, copies, data, ends, dead>>

Other(d) == IF d = "up" THEN "down" ELSE "up"
Source(d) == IF d = "up" THEN "public" ELSE "local"
Dest(d) == Source(Other(d))
Reader(d) == IF d = "up" THEN "server" ELSE "client"
Writer(d) == Reader(Other(d))

Total(d) == Pieces[kind][d]

\* The head of an HTTP request has been read before it is routed.
Init ==
    /\ kind \in Kind
    /\ handler = [server |-> "new", client |-> "new"]
    /\ into = [d \in Dir |-> "off"]
    /\ outof = [d \in Dir |-> "off"]
    /\ in = [d \in Dir |-> IF d = "up" /\ kind # "tcp" THEN <<1>> ELSE <<>>]
    /\ wire = [d \in Dir |-> <<>>]
    /\ rest = [d \in Dir |-> <<>>]
    /\ stream = [d \in Dir |-> <<>>]
    /\ out = [d \in Dir |-> <<>>]
    /\ peer = [public |-> "open", local |-> "absent"]
    /\ sent = [d \in Dir |-> Len(in[d])]
    /\ got = [d \in Dir |-> <<>>]
    /\ over = [d \in Dir |-> FALSE]
    /\ dead = FALSE

-----------------------------------------------------------------------------
(* Sockets and streams *)

\* Data to be read, in pieces of any size.
HasData(q) == q # <<>> /\ Head(q) # Fin
Chunks(q) == {n \in 1..Len(q) : \A i \in 1..n : q[i] # Fin}
AtEnd(q) == q # <<>> /\ Head(q) = Fin

\* What the other end of a socket may find after a close; if there was unread
\* data, a reset may destroy what was still on its way.
AfterClose(q, unread) ==
    {IF Fin \in ToSet(q) THEN q ELSE Append(q, Fin)}
    \cup (IF unread THEN {<<Fin>>} ELSE {})

\* Writes to the stream become WebSocket messages; a dead session loses them.
Written(d, messages) == IF dead THEN wire
                                ELSE [wire EXCEPT ![d] = @ \o messages]

StreamEnded(d) == IF stream[d] = <<>> THEN dead ELSE Head(stream[d]) = Fin

\* Mutant: what the reader's buffer has no room for is dropped.
WSReadDropsRest(d) ==
    /\ wire[d] # <<>>
    /\ \E n \in 1..Len(Head(wire[d])) :
           stream' = [stream EXCEPT ![d] = @ \o SubSeq(Head(wire[d]), 1, n)]
    /\ wire' = [wire EXCEPT ![d] = Tail(@)]
    /\ UNCHANGED <<kind, handler, copies, in, rest, out, ends, dead>>

\* WSConn.Read: as much of the current message as there is room for; the
\* next message once there is nothing left of it.
WSRead(d) ==
    LET message == IF rest[d] # <<>> THEN rest[d] ELSE Head(wire[d])
    IN  /\ rest[d] # <<>> \/ wire[d] # <<>>
        /\ \E n \in 1..Len(message) :
               /\ stream' = [stream EXCEPT ![d] = @ \o SubSeq(message, 1, n)]
               /\ rest' = [rest EXCEPT ![d] = SubSeq(message, n + 1, Len(message))]
        /\ wire' = IF rest[d] # <<>> THEN wire ELSE [wire EXCEPT ![d] = Tail(@)]
        /\ UNCHANGED <<kind, handler, copies, in, out, ends, dead>>

-----------------------------------------------------------------------------
(* The copies of pipeCount and handleDataStream *)

CopyIn(d) ==
    /\ into[d] = "on"
    /\ handler[Reader(d)] # "closed"
    /\ HasData(in[d])
    /\ \E n \in Chunks(in[d]) :
           /\ in' = [in EXCEPT ![d] = SubSeq(@, n + 1, Len(@))]
           /\ wire' = Written(d, <<SubSeq(in[d], 1, n)>>)
    /\ UNCHANGED <<kind, handler, copies, rest, stream, out, ends, dead>>

\* The end of the data, or an error of Read or Write.
CopyInEnds(d) ==
    /\ into[d] = "on"
    /\ \/ handler[Reader(d)] = "closed"
       \/ AtEnd(in[d])
       \/ HasData(in[d]) /\ dead
    /\ into' = [into EXCEPT ![d] = "done"]
    /\ UNCHANGED <<kind, handler, outof, data, ends, dead>>

\* What a peer that is gone would have received is lost.
Delivered(d, chunk) == IF peer[Dest(d)] = "gone" THEN out
                       ELSE [out EXCEPT ![d] = @ \o chunk]

CopyOut(d) ==
    /\ outof[d] = "on"
    /\ handler[Writer(d)] # "closed"
    /\ HasData(stream[d])
    /\ \E n \in Chunks(stream[d]) :
           /\ stream' = [stream EXCEPT ![d] = SubSeq(@, n + 1, Len(@))]
           /\ out' = Delivered(d, SubSeq(stream[d], 1, n))
    /\ UNCHANGED <<kind, handler, copies, in, wire, rest, ends, dead>>

\* A stream that is closed locally is still read until the other side has
\* closed it too.
CopyOutEnds(d) ==
    /\ outof[d] = "on"
    /\ \/ StreamEnded(d)
       \/ HasData(stream[d]) /\ (handler[Writer(d)] = "closed" \/ peer[Dest(d)] = "gone")
    /\ outof' = [outof EXCEPT ![d] = "done"]
    /\ UNCHANGED <<kind, handler, into, data, ends, dead>>

-----------------------------------------------------------------------------
(* The server's handler: forwardTCP, handleWSProxy, RoundTrip *)

\* The deferred closes, after an answer of its own; what an HTTP visitor has
\* sent and nobody has read does not disturb the answer.
ServerCloses(answer) ==
    /\ handler' = [handler EXCEPT !.server = "closed"]
    /\ \E q \in AfterClose(out["down"] \o answer, kind # "http" /\ in["up"] # <<>>) :
           out' = [out EXCEPT !["down"] = q]

CloseStream(d) == Written(d, <<<<Fin>>>>)

\* http.Error: only an HTTP handler, and only before anything else.
ErrorAnswer == IF kind # "tcp" /\ out["down"] = <<>> /\ got["down"] = <<>>
               THEN <<Refusal>> ELSE <<>>

\* The header goes first, with the request behind it if it is an upgrade.
OpenStream ==
    /\ handler.server = "new"
    /\ ~dead
    /\ wire' = [wire EXCEPT !["up"] =
                   @ \o <<<<Hdr>>>> \o (IF kind = "ws" THEN <<<<1>>>> ELSE <<>>)]
    /\ in' = IF kind = "ws" THEN [in EXCEPT !["up"] = Tail(@)] ELSE in
    /\ handler' = [handler EXCEPT !.server = IF kind = "http" THEN "request"
                                                              ELSE "pipe"]
    /\ into' = [into EXCEPT !["up"] = IF kind = "http" THEN @ ELSE "on"]
    /\ outof' = [outof EXCEPT !["down"] = IF kind = "http" THEN @ ELSE "on"]
    /\ UNCHANGED <<kind, rest, stream, out, ends, dead>>

OpenFails ==
    /\ handler.server = "new"
    /\ dead
    /\ ServerCloses(ErrorAnswer)
    /\ UNCHANGED <<kind, copies, in, wire, rest, stream, ends, dead>>

\* pipeCount has returned.
ServerPipeEnds ==
    /\ handler.server = "pipe"
    /\ into["up"] = "done" \/ outof["down"] = "done"
    /\ ServerCloses(<<>>)
    /\ wire' = CloseStream("up")
    /\ UNCHANGED <<kind, copies, in, rest, stream, ends, dead>>

\* req.Write: all of the request before any of the response.
SendRequest ==
    /\ handler.server = "request"
    /\ HasData(in["up"])
    /\ \E n \in Chunks(in["up"]) :
           /\ in' = [in EXCEPT !["up"] = SubSeq(@, n + 1, Len(@))]
           /\ wire' = Written("up", <<SubSeq(in["up"], 1, n)>>)
           /\ handler' = [handler EXCEPT !.server =
                             IF in["up"][n] = Total("up") THEN "response" ELSE @]
    /\ UNCHANGED <<kind, copies, rest, stream, out, ends, dead>>

SendRequestFails ==
    /\ handler.server = "request"
    /\ AtEnd(in["up"]) \/ (HasData(in["up"]) /\ dead)
    /\ ServerCloses(ErrorAnswer)
    /\ wire' = CloseStream("up")
    /\ UNCHANGED <<kind, copies, in, rest, stream, ends, dead>>

\* Mutant: the stream is closed as soon as the response has begun.
RelayResponseCutOff ==
    /\ handler.server = "response"
    /\ HasData(stream["down"])
    /\ \E n \in Chunks(stream["down"]) :
           /\ stream' = [stream EXCEPT !["down"] = SubSeq(@, n + 1, Len(@))]
           /\ ServerCloses(SubSeq(stream["down"], 1, n))
           /\ wire' = CloseStream("up")
    /\ UNCHANGED <<kind, copies, in, rest, ends, dead>>

\* The body is copied to the visitor, and streamBody closed at its end.
RelayResponse ==
    /\ handler.server = "response"
    /\ HasData(stream["down"])
    /\ \E n \in Chunks(stream["down"]) :
           /\ stream' = [stream EXCEPT !["down"] = SubSeq(@, n + 1, Len(@))]
           /\ IF stream["down"][n] \in {Total("down"), Refusal}
              THEN /\ ServerCloses(SubSeq(stream["down"], 1, n))
                   /\ wire' = CloseStream("up")
              ELSE /\ out' = Delivered("down", SubSeq(stream["down"], 1, n))
                   /\ UNCHANGED <<handler, wire>>
    /\ UNCHANGED <<kind, copies, in, rest, ends, dead>>

\* The stream ends early, or the visitor is gone and a write to it fails.
\* A visitor who goes while nothing is written is not noticed.
RelayResponseFails ==
    /\ handler.server = "response"
    /\ \/ StreamEnded("down")
       \/ HasData(stream["down"]) /\ peer.public = "gone"
    /\ ServerCloses(ErrorAnswer)
    /\ wire' = CloseStream("up")
    /\ UNCHANGED <<kind, copies, in, rest, stream, ends, dead>>

-----------------------------------------------------------------------------
(* The client's handler: handleDataStream *)

\* Mutant: what was read along with the header is lost.
ReadHeaderUnbuffered ==
    /\ handler.client = "new"
    /\ HasData(stream["up"])
    /\ \E n \in Chunks(stream["up"]) :
           stream' = [stream EXCEPT !["up"] = SubSeq(@, n + 1, Len(@))]
    /\ handler' = [handler EXCEPT !.client = "dial"]
    /\ UNCHANGED <<kind, copies, in, wire, rest, out, ends, dead>>

\* Mutant: the copy reads the header again.
ReadHeaderTwice ==
    /\ handler.client = "new"
    /\ HasData(stream["up"])
    /\ handler' = [handler EXCEPT !.client = "dial"]
    /\ UNCHANGED <<kind, copies, data, ends, dead>>

\* The rest of what was read stays in br, which the copy reads before the
\* stream itself: here they are one.
ReadHeader ==
    /\ handler.client = "new"
    /\ HasData(stream["up"])
    /\ stream' = [stream EXCEPT !["up"] = Tail(@)]
    /\ handler' = [handler EXCEPT !.client = "dial"]
    /\ UNCHANGED <<kind, copies, in, wire, rest, out, ends, dead>>

ReadHeaderFails ==
    /\ handler.client = "new"
    /\ StreamEnded("up")
    /\ handler' = [handler EXCEPT !.client = "closed"]
    /\ wire' = CloseStream("down")
    /\ UNCHANGED <<kind, copies, in, rest, stream, out, ends, dead>>

Dial ==
    /\ handler.client = "dial"
    /\ handler' = [handler EXCEPT !.client = "pipe"]
    /\ peer' = [peer EXCEPT !.local = "open"]
    /\ into' = [into EXCEPT !["down"] = "on"]
    /\ outof' = [outof EXCEPT !["up"] = "on"]
    /\ UNCHANGED <<kind, data, sent, got, over, dead>>

\* A 502 is written unless the tunnel is listed as TCP, and nothing if there
\* is no address to dial; the list may have changed since the tunnel was
\* registered, and one that is not listed counts as HTTP.
DialFails ==
    /\ handler.client = "dial"
    /\ handler' = [handler EXCEPT !.client = "closed"]
    /\ \E answer \in {<<>>, <<<<Refusal>>>>} :
           wire' = Written("down", answer \o <<<<Fin>>>>)
    /\ UNCHANGED <<kind, copies, in, rest, stream, out, ends, dead>>

\* The socket to the local service is closed.
LocalClosed == \E q \in AfterClose(out["up"], in["down"] # <<>>) :
                   out' = [out EXCEPT !["up"] = q]

\* Mutant: the stream is not closed.
ClientPipeEndsHalf ==
    /\ handler.client = "pipe"
    /\ into["down"] = "done" \/ outof["up"] = "done"
    /\ handler' = [handler EXCEPT !.client = "closed"]
    /\ LocalClosed
    /\ UNCHANGED <<kind, copies, in, wire, rest, stream, ends, dead>>

\* The first of the two copies is done.
ClientPipeEnds ==
    /\ handler.client = "pipe"
    /\ into["down"] = "done" \/ outof["up"] = "done"
    /\ handler' = [handler EXCEPT !.client = "closed"]
    /\ LocalClosed
    /\ wire' = CloseStream("down")
    /\ UNCHANGED <<kind, copies, in, rest, stream, ends, dead>>

-----------------------------------------------------------------------------
(* The peers and the session *)

\* A WebSocket visitor waits for the answer to its upgrade: Hijack would lose
\* what it had sent before.
Send(d) ==
    /\ peer[Source(d)] = "open"
    /\ kind = "ws" /\ d = "up" => got["down"] # <<>>
    /\ sent[d] < Total(d)
    /\ sent' = [sent EXCEPT ![d] = @ + 1]
    /\ in' = [in EXCEPT ![d] = Append(@, sent[d] + 1)]
    /\ UNCHANGED <<kind, handler, copies, wire, rest, stream, out, peer, got, over, dead>>

\* A peer closes its sending side.
Shut(d) ==
    /\ peer[Source(d)] = "open"
    /\ peer' = [peer EXCEPT ![Source(d)] = "shut"]
    /\ in' = [in EXCEPT ![d] = Append(@, Fin)]
    /\ UNCHANGED <<kind, handler, copies, wire, rest, stream, out, sent, got, over, dead>>

\* A peer closes its socket, or dies.
Leave(d) ==
    /\ peer[Source(d)] \in {"open", "shut"}
    /\ peer' = [peer EXCEPT ![Source(d)] = "gone"]
    /\ \E q \in AfterClose(in[d], HasData(out[Other(d)])) : in' = [in EXCEPT ![d] = q]
    /\ UNCHANGED <<kind, handler, copies, wire, rest, stream, out, sent, got, over, dead>>

Receive(d) ==
    /\ peer[Dest(d)] \in {"open", "shut"}
    /\ HasData(out[d])
    /\ out' = [out EXCEPT ![d] = Tail(@)]
    /\ got' = [got EXCEPT ![d] = Append(@, Head(out[d]))]
    /\ UNCHANGED <<kind, handler, copies, in, wire, rest, stream, peer, sent, over, dead>>

ReceiveEnd(d) ==
    /\ peer[Dest(d)] \in {"open", "shut"}
    /\ ~over[d] /\ AtEnd(out[d])
    /\ over' = [over EXCEPT ![d] = TRUE]
    /\ UNCHANGED <<kind, handler, copies, data, peer, sent, got, dead>>

\* What is on its way is lost; what the other end reads after the break is
\* read before it here, as nobody can tell.
SessionDies ==
    /\ ~dead
    /\ dead' = TRUE
    /\ wire' = [d \in Dir |-> <<>>]
    /\ rest' = [d \in Dir |-> <<>>]
    /\ UNCHANGED <<kind, handler, copies, in, stream, out, ends>>

-----------------------------------------------------------------------------
(* The specification *)

Server == \/ OpenStream \/ OpenFails \/ ServerPipeEnds
          \/ SendRequest \/ SendRequestFails
          \/ RelayResponse \/ RelayResponseFails
Client == \/ ReadHeader \/ ReadHeaderFails \/ Dial \/ DialFails \/ ClientPipeEnds
Peers(d) == Send(d) \/ Shut(d) \/ Leave(d) \/ Receive(d) \/ ReceiveEnd(d)

Next == \/ Server \/ Client \/ SessionDies
        \/ \E d \in Dir : \/ WSRead(d) \/ Peers(d)
                          \/ CopyIn(d) \/ CopyInEnds(d) \/ CopyOut(d) \/ CopyOutEnds(d)

Spec == Init /\ [][Next]_vars

\* Handlers, copies and the sessions' reading loops go on; net.Dial returns.
\* The peers owe nothing.
FairSpec == /\ Spec
            /\ WF_vars(Server) /\ WF_vars(Client)
            /\ \A d \in Dir : /\ WF_vars(WSRead(d))
                              /\ WF_vars(CopyIn(d) \/ CopyInEnds(d))
                              /\ WF_vars(CopyOut(d) \/ CopyOutEnds(d))

-----------------------------------------------------------------------------
(* Properties *)

\* The variables have their types; the one type invariant of this module.
TypeOK ==
    /\ kind \in Kind
    /\ handler \in [server : {"new", "request", "response", "pipe", "closed"},
                    client : {"new", "dial", "pipe", "closed"}]
    /\ into \in [Dir -> {"off", "on", "done"}]
    /\ outof \in [Dir -> {"off", "on", "done"}]
    /\ in \in [Dir -> Seq(Nat \cup {Fin})]
    /\ wire \in [Dir -> Seq(Seq(Nat \cup {Refusal, Hdr, Fin}))]
    /\ rest \in [Dir -> Seq(Nat \cup {Refusal, Hdr, Fin})]
    /\ stream \in [Dir -> Seq(Nat \cup {Refusal, Hdr, Fin})]
    /\ out \in [Dir -> Seq(Nat \cup {Refusal, Fin})]
    /\ sent \in [Dir -> Nat] /\ \A d \in Dir : sent[d] <= Total(d)
    /\ got \in [Dir -> Seq(Nat \cup {Refusal})]
    /\ over \in [Dir -> BOOLEAN]
    /\ peer \in [public : {"open", "shut", "gone"},
                 local : {"absent", "open", "shut", "gone"}]
    /\ dead \in BOOLEAN

\* Each direction is a pipe to its receiver: through the header's reader, the
\* copies and the WebSocket messages nothing is reordered, repeated or left
\* out (wsconn.go:28-47, proxy.go:25-77, util.go:19-40).
Up == INSTANCE Pipe WITH sent <- sent["up"], got <- got["up"], over <- over["up"]
Down == INSTANCE Pipe WITH sent <- sent["down"], got <- got["down"], over <- over["down"]
PipeSpec == Up!Spec /\ Down!Spec

Complete(d) == got[d] = [i \in 1..sent[d] |-> i]

\* The one who ends the connection first is heard to the end: although each
\* pipe returns with the first of its copies (util.go:40, proxy.go:80), the
\* other peer, as long as it has closed nothing and the session lives, gets
\* everything that was sent before the end; provided that nothing it sent
\* itself is lost then.
FirstCloserHeard ==
    \A d \in Dir :
        /\ over[d] /\ ~dead
        /\ peer[Source(d)] \in {"shut", "gone"} /\ peer[Dest(d)] = "open"
        /\ Complete(Other(d))
        => sent[d] = 0 \/ Complete(d)

\* An HTTP exchange ends with the whole response; with a 502, or in the middle
\* of it, only if the session or the local service failed, or the visitor did
\* (http_proxy.go:97-139, proxy.go:52-63).
HttpAnswered ==
    kind = "http" /\ over["down"] =>
        \/ got["down"] = [i \in 1..Total("down") |-> i]
        \/ dead \/ peer.local # "open" \/ peer.public # "open"

\* The relay is over at both sides, with all goroutines.
Over == /\ handler.server = "closed" /\ handler.client = "closed"
        /\ \A d \in Dir : into[d] # "on" /\ outof[d] # "on"

\* Something that has to end the relay: for HTTP only what shows while the
\* request is sent, or in the answer; the visitor's going does not.
MustEnd ==
    IF kind # "http" THEN dead \/ peer.public # "open" \/ peer.local \in {"shut", "gone"}
    ELSE IF sent["up"] < Total("up") THEN peer.public # "open"
    ELSE dead \/ sent["down"] = Total("down") \/ peer.local \in {"shut", "gone"}

\* No goroutine and no connection is left over when one of the parties has
\* closed, by half or all, or the session is gone: each close reaches the
\* copies of the other side (util.go:17-40, proxy.go:65-80).
RelayEnds == MustEnd ~> Over
-----------------------------------------------------------------------------
(* The inductive invariant: a direction is one line of pieces, from what    *)
(* its receiver has got back to what its source has just sent, and where    *)
(* pieces have been lost nothing behind the gap is handed on any more       *)

\* The client has never reached the local service.
Refused(d) == d = "down" /\ peer.local = "absent"

\* What there is to receive, the i-th piece at i; the header is piece 0.
Content(d) ==
    IF Refused(d) THEN [k \in 0..1 |-> IF k = 0 THEN Hdr ELSE Refusal]
    ELSE [k \in 0..sent[d] |-> IF k = 0 THEN Hdr ELSE k]

\* The queue holds pieces from the a-th on, each at its place; nothing is ever
\* read past an end.
Fits(c, q, a) ==
    \A i \in DOMAIN q : \/ q[i] = Fin
                        \/ a + i - 1 \in DOMAIN c /\ q[i] = c[a + i - 1]

\* The same of messages, from the a-th piece up to the b-th.
Chain(c, m, a, b) ==
    \E f \in [1..(Len(m) + 1) -> Nat] :
        /\ f[1] = a /\ f[Len(m) + 1] = b
        /\ \A j \in DOMAIN m : f[j + 1] = f[j] + Len(m[j]) /\ Fits(c, m[j], f[j])

\* The piece that the stream hands out next.
NextOut(d) == IF d = "up" /\ handler.client = "new" THEN 0
                                                   ELSE Len(got[d]) + Len(out[d]) + 1

\* The socket's data go on where the stream ends, up to what has been sent.
FirstIn(d, w) == IF d = "up" /\ handler.server = "new" THEN 1 ELSE w
SourceFits(d, w) ==
    /\ Fits(Content(d), in[d], FirstIn(d, w))
    /\ peer[Source(d)] \in {"absent", "open"} =>
           FirstIn(d, w) + Len(in[d]) = sent[d] + 1

StreamFits(d) ==
    /\ Fits(Content(d), stream[d], NextOut(d))
    /\ ~dead =>
           /\ Fits(Content(d), rest[d], NextOut(d) + Len(stream[d]))
           /\ \E w \in Nat :
                 /\ Chain(Content(d), wire[d],
                          NextOut(d) + Len(stream[d]) + Len(rest[d]), w)
                 /\ handler[Reader(d)] # "closed" => SourceFits(d, w)

\* The server's own answer, in place of the pieces.
OwnAnswer == /\ handler.server = "closed"
             /\ \/ got["down"] = <<>> /\ out["down"] = <<Refusal, Fin>>
                \/ got["down"] = <<Refusal>> /\ out["down"] = <<Fin>>

InOrder(d) ==
    /\ Fits(Content(d), got[d], 1)
    /\ peer[Dest(d)] # "gone" =>
           /\ Fits(Content(d), out[d], Len(got[d]) + 1)
           /\ handler[Writer(d)] # "closed" => StreamFits(d)

Empty(d) == stream[d] = <<>> /\ rest[d] = <<>> /\ wire[d] = <<>>

\* Nothing has been done yet,
ServerNewWF ==
    handler.server = "new" =>
        /\ Empty("up") /\ into["up"] = "off" /\ outof["down"] = "off"
        /\ out["down"] = <<>> /\ got["down"] = <<>>
        /\ handler.client \in {"new", "closed"}
        /\ kind # "tcp" => in["up"] # <<>> /\ sent["up"] > 0
ClientNewWF ==
    handler.client \in {"new", "dial"} =>
        /\ Empty("down") /\ into["down"] = "off" /\ outof["up"] = "off"
        /\ out["up"] = <<>> /\ got["up"] = <<>> /\ peer.local = "absent"
        /\ \/ got["down"] = <<>> /\ out["down"] = <<>>
           \/ handler.server = "closed" /\ got["down"] = <<>> /\ out["down"] = <<Fin>>
           \/ OwnAnswer
AbsentWF ==
    peer.local = "absent" => /\ in["down"] = <<>> /\ sent["down"] = 0
                             /\ handler.client # "pipe"

\* nothing but data, a refusal and an end goes down,
DownWF == /\ wire["down"] \in Seq(Seq(Nat \cup {Refusal, Fin}))
          /\ rest["down"] \in Seq(Nat \cup {Refusal, Fin})
          /\ stream["down"] \in Seq(Nat \cup {Refusal, Fin})

\* the end has been seen, or the session is gone.
OverWF == \A d \in Dir : over[d] => AtEnd(out[d])
DeadWF == dead => \A d \in Dir : rest[d] = <<>> /\ wire[d] = <<>>

IInv == /\ TypeOK /\ ServerNewWF /\ ClientNewWF /\ AbsentWF /\ DownWF /\ OverWF /\ DeadWF
        /\ InOrder("up")
        /\ InOrder("down") \/ OwnAnswer

\* A party has failed, as far as an HTTP exchange is concerned.
Failed == \/ dead \/ peer.public # "open" \/ peer.local \in {"shut", "gone"}
          \/ peer.local = "absent" /\ handler.client = "closed"

\* Until then no end is on its way that the server has not caused by closing,
\* which it does behind the whole response.
NoFin(q) == Fin \notin ToSet(q)
HttpWF ==
    kind = "http" /\ ~Failed =>
        IF handler.server = "closed"
        THEN /\ Len(got["down"]) + Len(out["down"]) = Total("down") + 1
             /\ \A i \in 1..(Len(out["down"]) - 1) : out["down"][i] # Fin
             /\ ~OwnAnswer
        ELSE /\ handler.client # "closed"
             /\ NoFin(out["down"])
             /\ \A d \in Dir : /\ into[d] # "done" /\ outof[d] # "done"
                               /\ NoFin(in[d]) /\ NoFin(stream[d]) /\ NoFin(rest[d])
                               /\ \A i \in DOMAIN wire[d] : NoFin(wire[d][i])
=============================================================================
