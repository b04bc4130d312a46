---------------------------- MODULE RelayProofs ----------------------------
(***************************************************************************)
(* Proofs about Relay, for any number of pieces of data each way.          *)
(***************************************************************************)
EXTENDS Relay, SequenceLemmas

Item == Nat \cup {Refusal, Hdr, Fin}

-----------------------------------------------------------------------------
(* Queues of pieces, each at its place *)

LEMMA Subsequence ==
    ASSUME NEW S, NEW q \in Seq(S), NEW n \in 0..Len(q)
    PROVE  /\ SubSeq(q, 1, n) \in Seq(S) /\ Len(SubSeq(q, 1, n)) = n
           /\ \A i \in 1..n : SubSeq(q, 1, n)[i] = q[i]
           /\ SubSeq(q, n + 1, Len(q)) \in Seq(S)
           /\ Len(SubSeq(q, n + 1, Len(q))) = Len(q) - n
           /\ \A i \in 1..(Len(q) - n) : SubSeq(q, n + 1, Len(q))[i] = q[n + i]
  OBVIOUS

LEMMA FitsSplit ==
    ASSUME NEW S, NEW q \in Seq(S), NEW n \in 0..Len(q), NEW c, NEW a \in Nat,
           Fits(c, q, a)
    PROVE  /\ Fits(c, SubSeq(q, 1, n), a)
           /\ Fits(c, SubSeq(q, n + 1, Len(q)), a + n)
  <1> DEFINE l == SubSeq(q, 1, n)
             r == SubSeq(q, n + 1, Len(q))
  <1>1. /\ DOMAIN l = 1..n /\ DOMAIN r = 1..(Len(q) - n) /\ Len(q) \in Nat /\ n \in Nat
        /\ DOMAIN q = 1..Len(q) /\ n <= Len(q)
    BY Subsequence
  <1>2. \A i \in 1..n : l[i] = q[i]
    BY Subsequence
  <1>3. \A i \in 1..(Len(q) - n) : r[i] = q[n + i]
    BY Subsequence
  <1> HIDE DEF l, r
  <1>4. Fits(c, l, a)
    BY <1>1, <1>2 DEF Fits
  <1>5. ASSUME NEW i \in 1..(Len(q) - n)
        PROVE  r[i] = Fin \/ ((a + n) + i - 1 \in DOMAIN c /\ r[i] = c[(a + n) + i - 1])
    <2>1. n + i \in 1..Len(q) /\ a + (n + i) - 1 = (a + n) + i - 1
      BY <1>1
    <2> QED
      BY <1>1, <1>3, <2>1 DEF Fits
  <1> QED
    BY <1>1, <1>4, <1>5 DEF Fits, l, r

LEMMA FitsJoin ==
    ASSUME NEW S, NEW p \in Seq(S), NEW q \in Seq(S), NEW c, NEW a \in Nat,
           Fits(c, p, a), Fits(c, q, a + Len(p))
    PROVE  Fits(c, p \o q, a)
  <1> DEFINE r == p \o q
  <1>1. /\ DOMAIN r = 1..(Len(p) + Len(q)) /\ Len(p) \in Nat /\ Len(q) \in Nat
        /\ DOMAIN p = 1..Len(p) /\ DOMAIN q = 1..Len(q)
        /\ \A i \in 1..Len(p) : r[i] = p[i]
        /\ \A i \in DOMAIN r : i > Len(p) => i - Len(p) \in 1..Len(q) /\ r[i] = q[i - Len(p)]
    OBVIOUS
  <1> HIDE DEF r
  <1>2. ASSUME NEW i \in DOMAIN r
        PROVE  r[i] = Fin \/ (a + i - 1 \in DOMAIN c /\ r[i] = c[a + i - 1])
    <2>1. CASE i <= Len(p)
      BY <1>1, <2>1 DEF Fits
    <2>2. CASE i > Len(p)
      <3>1. (a + Len(p)) + (i - Len(p)) - 1 = a + i - 1
        BY <1>1
      <3> QED
        BY <1>1, <2>2, <3>1 DEF Fits
    <2> QED
      BY <1>1, <2>1, <2>2
  <1> QED
    BY <1>2 DEF Fits, r

LEMMA JoinLength ==
    ASSUME NEW S, NEW p \in Seq(S), NEW q \in Seq(S)
    PROVE  p \o q \in Seq(S) /\ Len(p \o q) = Len(p) + Len(q)
  OBVIOUS

LEMMA FitsTail ==
    ASSUME NEW S, NEW q \in Seq(S), q # <<>>, NEW c, NEW a \in Nat, Fits(c, q, a)
    PROVE  /\ Head(q) = Fin \/ (a \in DOMAIN c /\ Head(q) = c[a])
           /\ Fits(c, Tail(q), a + 1)
  <1>1. /\ DOMAIN Tail(q) = 1..(Len(q) - 1) /\ DOMAIN q = 1..Len(q) /\ Len(q) \in Nat \ {0}
        /\ \A i \in 1..(Len(q) - 1) : Tail(q)[i] = q[i + 1]
        /\ Head(q) = q[1] /\ 1 \in DOMAIN q
    OBVIOUS
  <1>2. a + 1 - 1 = a
    OBVIOUS
  <1>3. ASSUME NEW i \in 1..(Len(q) - 1)
        PROVE  \/ Tail(q)[i] = Fin
               \/ (a + 1) + i - 1 \in DOMAIN c /\ Tail(q)[i] = c[(a + 1) + i - 1]
    <2>1. i + 1 \in 1..Len(q) /\ a + (i + 1) - 1 = (a + 1) + i - 1
      BY <1>1
    <2> QED
      BY <1>1, <2>1 DEF Fits
  <1> QED
    BY <1>1, <1>2, <1>3 DEF Fits

LEMMA FitsAppend ==
    ASSUME NEW S, NEW q \in Seq(S), NEW e, NEW c, NEW a \in Nat, Fits(c, q, a),
           e = Fin \/ (a + Len(q) \in DOMAIN c /\ e = c[a + Len(q)])
    PROVE  Fits(c, Append(q, e), a)
  <1> DEFINE r == Append(q, e)
  <1>1. /\ DOMAIN r = 1..(Len(q) + 1) /\ DOMAIN q = 1..Len(q) /\ Len(q) \in Nat
        /\ \A i \in 1..Len(q) : r[i] = q[i]
        /\ r[Len(q) + 1] = e
    OBVIOUS
  <1> HIDE DEF r
  <1>2. a + (Len(q) + 1) - 1 = a + Len(q)
    BY <1>1
  <1>3. ASSUME NEW i \in DOMAIN r
        PROVE  r[i] = Fin \/ (a + i - 1 \in DOMAIN c /\ r[i] = c[a + i - 1])
    <2>1. CASE i \in 1..Len(q)
      BY <1>1, <2>1 DEF Fits
    <2>2. CASE i = Len(q) + 1
      BY <1>1, <1>2, <2>2
    <2> QED
      BY <1>1, <2>1, <2>2
  <1> QED
    BY <1>3 DEF Fits, r

LEMMA FitsFew ==
    ASSUME NEW c, NEW a
    PROVE  /\ Fits(c, <<>>, a) /\ Fits(c, <<Fin>>, a)
           /\ a \in Nat /\ a \in DOMAIN c => Fits(c, <<c[a]>>, a)
  <1>1. Fits(c, <<>>, a) /\ Fits(c, <<Fin>>, a)
    BY DEF Fits
  <1>2. ASSUME a \in Nat, a \in DOMAIN c PROVE Fits(c, <<c[a]>>, a)
    <2>1. a + 1 - 1 = a
      BY <1>2
    <2> QED
      BY <1>2, <2>1 DEF Fits
  <1> QED
    BY <1>1, <1>2

\* What can be received grows.
Extends(c, e) == \A k \in DOMAIN c : k \in DOMAIN e /\ e[k] = c[k]

LEMMA FitsMore ==
    ASSUME NEW c, NEW e, NEW q, NEW a, Extends(c, e), Fits(c, q, a)
    PROVE  Fits(e, q, a)
  BY DEF Fits, Extends

\* A closed socket holds what it held, and an end.
LEMMA FitsClosed ==
    ASSUME NEW S, NEW q \in Seq(S), NEW unread, NEW c, NEW a \in Nat, Fits(c, q, a),
           NEW r \in AfterClose(q, unread)
    PROVE  Fits(c, r, a)
  BY FitsAppend, FitsFew DEF AfterClose

-----------------------------------------------------------------------------
(* Messages *)

LEMMA ChainNone ==
    ASSUME NEW c, NEW a \in Nat
    PROVE  Chain(c, <<>>, a, a)
  <1> DEFINE f == [j \in 1..1 |-> a]
  <1>1. f \in [1..(Len(<<>>) + 1) -> Nat] /\ f[1] = a /\ f[Len(<<>>) + 1] = a
    OBVIOUS
  <1>2. DOMAIN <<>> = {}
    OBVIOUS
  <1> HIDE DEF f
  <1> QED
    BY <1>1, <1>2 DEF Chain

LEMMA ChainMore ==
    ASSUME NEW c, NEW e, NEW m, NEW a, NEW b, Extends(c, e), Chain(c, m, a, b)
    PROVE  Chain(e, m, a, b)
  BY FitsMore DEF Chain

LEMMA ChainAppend ==
    ASSUME NEW S, NEW m \in Seq(Seq(S)), NEW q \in Seq(S), NEW c, NEW a, NEW b \in Nat,
           Chain(c, m, a, b), Fits(c, q, b)
    PROVE  Chain(c, m \o <<q>>, a, b + Len(q))
  <1> DEFINE r == m \o <<q>>
             n == Len(m)
  <1>1. /\ n \in Nat /\ Len(r) = n + 1 /\ DOMAIN r = 1..(n + 1) /\ DOMAIN m = 1..n
        /\ \A j \in 1..n : r[j] = m[j]
        /\ r[n + 1] = q /\ Len(q) \in Nat
    OBVIOUS
  <1>2. PICK f \in [1..(n + 1) -> Nat] :
           /\ f[1] = a /\ f[n + 1] = b
           /\ \A j \in 1..n : f[j + 1] = f[j] + Len(m[j]) /\ Fits(c, m[j], f[j])
    BY <1>1 DEF Chain
  <1> DEFINE g == [j \in 1..(n + 2) |-> IF j = n + 2 THEN b + Len(q) ELSE f[j]]
  <1> HIDE DEF r, n
  <1>3. g \in [1..(n + 2) -> Nat] /\ g[n + 2] = b + Len(q) /\ \A j \in 1..(n + 1) : g[j] = f[j]
    BY <1>1, <1>2
  <1> HIDE DEF g
  <1>4. ASSUME NEW j \in 1..(n + 1)
        PROVE  g[j + 1] = g[j] + Len(r[j]) /\ Fits(c, r[j], g[j])
    <2>1. CASE j \in 1..n
      <3>1. j + 1 \in 1..(n + 1)
        BY <1>1, <2>1
      <3> QED
        BY <1>1, <1>2, <1>3, <2>1, <3>1
    <2>2. CASE j = n + 1
      <3>1. j + 1 = n + 2
        BY <1>1, <2>2
      <3> QED
        BY <1>1, <1>2, <1>3, <2>2, <3>1
    <2> QED
      BY <1>1, <2>1, <2>2
  <1>5. Len(r) + 1 = n + 2 /\ 1 \in 1..(n + 1)
    BY <1>1
  <1> QED
    BY <1>1, <1>2, <1>3, <1>4, <1>5, ZenonT(30) DEF Chain, r

LEMMA ChainTail ==
    ASSUME NEW S, NEW m \in Seq(Seq(S)), m # <<>>, NEW c, NEW a, NEW b, Chain(c, m, a, b)
    PROVE  Fits(c, Head(m), a) /\ Chain(c, Tail(m), a + Len(Head(m)), b)
  <1> DEFINE r == Tail(m)
             n == Len(m)
  <1>1. /\ n \in Nat \ {0} /\ Len(r) = n - 1 /\ DOMAIN r = 1..(n - 1) /\ DOMAIN m = 1..n
        /\ \A j \in 1..(n - 1) : r[j] = m[j + 1]
        /\ Head(m) = m[1]
    OBVIOUS
  <1>2. PICK f \in [1..(n + 1) -> Nat] :
           /\ f[1] = a /\ f[n + 1] = b
           /\ \A j \in 1..n : f[j + 1] = f[j] + Len(m[j]) /\ Fits(c, m[j], f[j])
    BY <1>1 DEF Chain
  <1> DEFINE g == [j \in 1..n |-> f[j + 1]]
  <1> HIDE DEF r, n
  <1>3. g \in [1..n -> Nat] /\ \A j \in 1..n : g[j] = f[j + 1]
    BY <1>1, <1>2
  <1> HIDE DEF g
  <1>4. ASSUME NEW j \in 1..(n - 1)
        PROVE  g[j + 1] = g[j] + Len(r[j]) /\ Fits(c, r[j], g[j])
    <2>1. j + 1 \in 1..n /\ j \in 1..n
      BY <1>1
    <2> QED
      BY <1>1, <1>2, <1>3, <2>1
  <1>5. Len(r) + 1 = n /\ 1 \in 1..n /\ n \in 1..n
    BY <1>1
  <1>6. g[1] = a + Len(Head(m)) /\ g[n] = b /\ Fits(c, Head(m), a)
    <2>1. f[1 + 1] = a + Len(m[1]) /\ Fits(c, m[1], a)
      BY <1>2, <1>5
    <2> QED
      BY <1>1, <1>2, <1>3, <1>5, <2>1
  <1> QED
    BY <1>1, <1>3, <1>4, <1>5, <1>6 DEF Chain, r

-----------------------------------------------------------------------------
(* Which steps move which variable *)

LEMMA Moves ==
    ASSUME [Next]_vars
    PROVE  /\ kind' = kind
           /\ \/ UNCHANGED handler \/ OpenStream \/ OpenFails \/ ServerPipeEnds
              \/ SendRequest \/ SendRequestFails \/ RelayResponse \/ RelayResponseFails
              \/ ReadHeader \/ ReadHeaderFails \/ Dial \/ DialFails \/ ClientPipeEnds
           /\ \/ UNCHANGED into \/ OpenStream \/ Dial \/ \E d \in Dir : CopyInEnds(d)
           /\ \/ UNCHANGED outof \/ OpenStream \/ Dial \/ \E d \in Dir : CopyOutEnds(d)
           /\ \/ UNCHANGED in \/ OpenStream \/ SendRequest
              \/ \E d \in Dir : CopyIn(d) \/ Send(d) \/ Shut(d) \/ Leave(d)
           /\ \/ UNCHANGED wire \/ OpenStream \/ ServerPipeEnds \/ SendRequest
              \/ SendRequestFails \/ RelayResponse \/ RelayResponseFails
              \/ ReadHeaderFails \/ DialFails \/ ClientPipeEnds \/ SessionDies
              \/ \E d \in Dir : WSRead(d) \/ CopyIn(d)
           /\ \/ UNCHANGED rest \/ SessionDies \/ \E d \in Dir : WSRead(d)
           /\ \/ UNCHANGED stream \/ RelayResponse \/ ReadHeader
              \/ \E d \in Dir : WSRead(d) \/ CopyOut(d)
           /\ \/ UNCHANGED out \/ OpenFails \/ ServerPipeEnds \/ SendRequestFails
              \/ RelayResponse \/ RelayResponseFails \/ ClientPipeEnds
              \/ \E d \in Dir : CopyOut(d) \/ Receive(d)
           /\ \/ UNCHANGED peer \/ Dial \/ \E d \in Dir : Shut(d) \/ Leave(d)
           /\ UNCHANGED sent \/ \E d \in Dir : Send(d)
           /\ UNCHANGED got \/ \E d \in Dir : Receive(d)
           /\ UNCHANGED over \/ \E d \in Dir : ReceiveEnd(d)
           /\ UNCHANGED dead \/ SessionDies
  BY ZenonT(30) DEF Next, Server, Client, Peers, vars, copies, data, ends,
         OpenStream, OpenFails, ServerPipeEnds, SendRequest, SendRequestFails,
         RelayResponse, RelayResponseFails, ReadHeader, ReadHeaderFails, Dial,
         DialFails, ClientPipeEnds, SessionDies, WSRead, Send, Shut, Leave, Receive,
         ReceiveEnd, CopyIn, CopyInEnds, CopyOut, CopyOutEnds, ServerCloses, LocalClosed

-----------------------------------------------------------------------------
(* Type correctness *)

LEMMA Types ==
    ASSUME TypeOK, NEW d \in Dir
    PROVE  /\ in[d] \in Seq(Item) /\ in[d] \in Seq(Nat \cup {Fin})
           /\ wire[d] \in Seq(Seq(Item))
           /\ rest[d] \in Seq(Item) /\ stream[d] \in Seq(Item)
           /\ out[d] \in Seq(Item) /\ out[d] \in Seq(Nat \cup {Refusal, Fin})
           /\ got[d] \in Seq(Item) /\ got[d] \in Seq(Nat \cup {Refusal})
           /\ sent[d] \in Nat
  <1>1. /\ in[d] \in Seq(Nat \cup {Fin}) /\ out[d] \in Seq(Nat \cup {Refusal, Fin})
        /\ got[d] \in Seq(Nat \cup {Refusal}) /\ sent[d] \in Nat
    BY DEF TypeOK
  <1>2. /\ wire[d] \in Seq(Seq(Item)) /\ rest[d] \in Seq(Item) /\ stream[d] \in Seq(Item)
    BY DEF TypeOK, Item
  <1>3. /\ Nat \cup {Fin} \subseteq Item /\ Nat \cup {Refusal, Fin} \subseteq Item
        /\ Nat \cup {Refusal} \subseteq Item
    BY DEF Item
  <1>4. \A S, T : S \subseteq T => Seq(S) \subseteq Seq(T)
    OBVIOUS
  <1>5. in[d] \in Seq(Item) /\ out[d] \in Seq(Item) /\ got[d] \in Seq(Item)
    BY <1>1, <1>3, <1>4
  <1> QED
    BY <1>1, <1>2, <1>5

LEMMA Chunk ==
    ASSUME NEW S, NEW q \in Seq(S), NEW n \in Chunks(q)
    PROVE  /\ n \in 1..Len(q) /\ n \in 0..Len(q) /\ Len(q) \in Nat
           /\ \A i \in 1..n : q[i] # Fin
           /\ SubSeq(q, 1, n) \in Seq(S) /\ Len(SubSeq(q, 1, n)) = n
           /\ \A i \in 1..n : SubSeq(q, 1, n)[i] = q[i]
           /\ SubSeq(q, n + 1, Len(q)) \in Seq(S)
           /\ Len(SubSeq(q, n + 1, Len(q))) = Len(q) - n
           /\ \A i \in 1..(Len(q) - n) : SubSeq(q, n + 1, Len(q))[i] = q[n + i]
  <1>1. n \in 1..Len(q) /\ n \in 0..Len(q) /\ \A i \in 1..n : q[i] # Fin
    BY DEF Chunks
  <1>2. Len(q) \in Nat
    OBVIOUS
  <1> QED
    BY <1>1, <1>2, Subsequence

LEMMA ClosedTypes ==
    ASSUME NEW S, NEW q \in Seq(S), Fin \in S, NEW unread, NEW r \in AfterClose(q, unread)
    PROVE  r \in Seq(S)
  BY DEF AfterClose

LEMMA Pieces1 ==
    ASSUME NEW S, NEW e \in S
    PROVE  <<e>> \in Seq(S) /\ Len(<<e>>) = 1
  OBVIOUS

LEMMA TwoMessages ==
    ASSUME NEW x, NEW y
    PROVE  <<>> \o <<y>> = <<y>> /\ <<x>> \o <<y>> = <<x, y>>
  <1> DEFINE p == <<x>> \o <<y>>
             q == <<x, y>>
  <1>1. <<>> \o <<y>> = <<y>>
    OBVIOUS
  <1>2. p \in Seq({x, y}) /\ q \in Seq({x, y}) /\ Len(p) = 2 /\ Len(q) = 2
    OBVIOUS
  <1>3. p[1] = q[1] /\ p[2] = q[2]
    OBVIOUS
  <1> HIDE DEF p, q
  <1>4. \A i \in 1..Len(p) : p[i] = q[i]
    BY <1>2, <1>3
  <1>5. p = q
    BY <1>2, <1>4, SeqEqual
  <1> QED
    BY <1>1, <1>5 DEF p, q

LEMMA HandlerNext ==
    ASSUME TypeOK, [Next]_vars
    PROVE  handler' \in [server : {"new", "request", "response", "pipe", "closed"},
                         client : {"new", "dial", "pipe", "closed"}]
  <1>1. handler \in [server : {"new", "request", "response", "pipe", "closed"},
                     client : {"new", "dial", "pipe", "closed"}]
    BY DEF TypeOK
  <1>2. \/ handler' = handler
        \/ \E s \in {"request", "response", "pipe", "closed"} :
              handler' = [handler EXCEPT !.server = s]
        \/ \E c \in {"dial", "pipe", "closed"} : handler' = [handler EXCEPT !.client = c]
    <2>1. handler = [handler EXCEPT !.server = handler.server]
      BY <1>1
    <2>2. CASE SendRequest
      BY <2>1, <2>2 DEF SendRequest
    <2>3. CASE OpenStream \/ OpenFails \/ ServerPipeEnds \/ SendRequestFails
      BY <2>3 DEF OpenStream, OpenFails, ServerPipeEnds, SendRequestFails, ServerCloses
    <2>4. CASE RelayResponse \/ RelayResponseFails
      BY <2>4 DEF RelayResponse, RelayResponseFails, ServerCloses
    <2>5. CASE ReadHeader \/ ReadHeaderFails \/ Dial \/ DialFails \/ ClientPipeEnds
      BY <2>5 DEF ReadHeader, ReadHeaderFails, Dial, DialFails, ClientPipeEnds
    <2> QED
      BY <2>2, <2>3, <2>4, <2>5, Moves
  <1> QED
    BY <1>1, <1>2

\* What is written to the stream of a direction.
LEMMA Writes ==
    ASSUME [Next]_vars, TypeOK
    PROVE  \/ wire' = wire \/ OpenStream \/ SessionDies
           \/ \E d \in Dir : WSRead(d)
           \/ \E d \in Dir : wire' = Written(d, <<<<Fin>>>>)
           \/ \E d \in Dir, n \in Nat :
                 n \in Chunks(in[d]) /\ wire' = Written(d, <<SubSeq(in[d], 1, n)>>)
           \/ wire' = Written("down", <<<<Refusal>>, <<Fin>>>>)
  <1>1. CASE ServerPipeEnds \/ SendRequestFails \/ RelayResponse \/ RelayResponseFails
    BY <1>1 DEF ServerPipeEnds, SendRequestFails, RelayResponse, RelayResponseFails,
                CloseStream, Dir
  <1>2. CASE ReadHeaderFails \/ ClientPipeEnds
    BY <1>2 DEF ReadHeaderFails, ClientPipeEnds, CloseStream, Dir
  <1>3. CASE DialFails
    <2>1. /\ <<>> \o <<<<Fin>>>> = <<<<Fin>>>>
          /\ <<<<Refusal>>>> \o <<<<Fin>>>> = <<<<Refusal>>, <<Fin>>>>
      BY TwoMessages
    <2>2. \/ wire' = Written("down", <<>> \o <<<<Fin>>>>)
          \/ wire' = Written("down", <<<<Refusal>>>> \o <<<<Fin>>>>)
      BY <1>3 DEF DialFails
    <2>3. "down" \in Dir
      BY DEF Dir
    <2> QED
      BY <2>1, <2>2, <2>3
  <1>4. \A d \in Dir : \A n \in Chunks(in[d]) : n \in Nat
    BY DEF Chunks
  <1>5. CASE SendRequest
    <2>1. "up" \in Dir
      BY DEF Dir
    <2>2. PICK n \in Chunks(in["up"]) : wire' = Written("up", <<SubSeq(in["up"], 1, n)>>)
      BY <1>5 DEF SendRequest
    <2> QED
      BY <1>4, <2>1, <2>2
  <1>6. ASSUME NEW d \in Dir, CopyIn(d)
        PROVE  \E n \in Nat :
                  n \in Chunks(in[d]) /\ wire' = Written(d, <<SubSeq(in[d], 1, n)>>)
    <2>1. PICK n \in Chunks(in[d]) : wire' = Written(d, <<SubSeq(in[d], 1, n)>>)
      BY <1>6 DEF CopyIn
    <2> QED
      BY <1>4, <2>1
  <1> QED
    BY <1>1, <1>2, <1>3, <1>5, <1>6, Moves

LEMMA WrittenTypes ==
    ASSUME NEW S, NEW d \in Dir, wire \in [Dir -> Seq(Seq(S))], NEW ms \in Seq(Seq(S))
    PROVE  Written(d, ms) \in [Dir -> Seq(Seq(S))]
  BY DEF Written

-----------------------------------------------------------------------------
(* A direction stays in order: what happens to one of its queues *)

LEMMA Ordered ==
    ASSUME IInv, NEW d \in Dir, d = "up" \/ ~OwnAnswer
    PROVE  InOrder(d)
  BY DEF IInv, Dir

LEMMA Numbers ==
    ASSUME TypeOK, NEW d \in Dir
    PROVE  /\ NextOut(d) \in Nat /\ Len(got[d]) \in Nat /\ Len(out[d]) \in Nat
           /\ Len(stream[d]) \in Nat /\ Len(rest[d]) \in Nat /\ Len(in[d]) \in Nat
           /\ 0 \in Nat
  <1>1. /\ Len(got[d]) \in Nat /\ Len(out[d]) \in Nat
        /\ Len(stream[d]) \in Nat /\ Len(rest[d]) \in Nat /\ Len(in[d]) \in Nat
    BY Types
  <1>2. \A x, y \in Nat : x + y + 1 \in Nat
    OBVIOUS
  <1>3. NextOut(d) \in {0, Len(got[d]) + Len(out[d]) + 1}
    BY DEF NextOut
  <1>4. Len(got[d]) + Len(out[d]) + 1 \in Nat /\ 0 \in Nat
    BY <1>1, <1>2
  <1>5. NextOut(d) \in Nat
    BY <1>3, <1>4
  <1> QED
    BY <1>1, <1>4, <1>5

LEMMA ContentSame ==
    ASSUME NEW d \in Dir, sent'[d] = sent[d],
           peer'.local = "absent" <=> peer.local = "absent"
    PROVE  Content(d)' = Content(d)
  BY DEF Content, Refused

LEMMA SourceFrame ==
    ASSUME NEW d \in Dir, in'[d] = in[d], sent'[d] = sent[d], Content(d)' = Content(d),
           d = "down" \/ (handler'.server = "new" <=> handler.server = "new"),
           peer'[Source(d)] \in {"absent", "open"} => peer[Source(d)] \in {"absent", "open"},
           NEW w, SourceFits(d, w)
    PROVE  SourceFits(d, w)'
  <1> DEFINE a == FirstIn(d, w)
  <1>1. a' = a
    BY DEF FirstIn
  <1> HIDE DEF a
  <1> QED
    BY <1>1 DEF SourceFits, a

\* Nothing is moved; handlers may close and peers go.
LEMMA InOrderFrame ==
    ASSUME NEW d \in Dir, InOrder(d),
           got'[d] = got[d], out'[d] = out[d], stream'[d] = stream[d],
           Content(d)' = Content(d),
           peer'[Dest(d)] # "gone" => peer[Dest(d)] # "gone",
           handler'[Writer(d)] # "closed" =>
               handler[Writer(d)] # "closed" /\ NextOut(d)' = NextOut(d),
           ~dead' =>
               /\ ~dead /\ rest'[d] = rest[d] /\ wire'[d] = wire[d]
               /\ handler'[Reader(d)] # "closed" =>
                     /\ handler[Reader(d)] # "closed"
                     /\ \A w \in Nat : SourceFits(d, w) => SourceFits(d, w)'
    PROVE  InOrder(d)'
  <1> DEFINE c == Content(d)
             a == NextOut(d)
  <1>1. c' = c /\ (handler'[Writer(d)] # "closed" => a' = a)
    OBVIOUS
  <1>2. Fits(c, got'[d], 1)
    BY DEF InOrder
  <1>3. peer'[Dest(d)] # "gone" => Fits(c, out'[d], Len(got'[d]) + 1)
    BY DEF InOrder
  <1> HIDE DEF c, a
  <1>4. ASSUME peer'[Dest(d)] # "gone", handler'[Writer(d)] # "closed"
        PROVE  StreamFits(d)'
    <2>1. StreamFits(d)
      BY <1>4 DEF InOrder
    <2>2. Fits(c, stream'[d], a')
      BY <1>1, <1>4, <2>1 DEF StreamFits, c, a
    <2>3. ASSUME ~dead'
          PROVE  /\ Fits(c, rest'[d], a' + Len(stream'[d]))
                 /\ \E w \in Nat :
                       /\ Chain(c, wire'[d], a' + Len(stream'[d]) + Len(rest'[d]), w)
                       /\ handler'[Reader(d)] # "closed" => SourceFits(d, w)'
      <3>1. Fits(c, rest'[d], a' + Len(stream'[d]))
        BY <1>1, <1>4, <2>1, <2>3 DEF StreamFits, c, a
      <3>2. PICK w \in Nat :
                /\ Chain(c, wire[d], a + Len(stream[d]) + Len(rest[d]), w)
                /\ handler[Reader(d)] # "closed" => SourceFits(d, w)
        BY <2>1, <2>3 DEF StreamFits, c, a
      <3>3. Chain(c, wire'[d], a' + Len(stream'[d]) + Len(rest'[d]), w)
        BY <1>1, <1>4, <2>3, <3>2
      <3>4. handler'[Reader(d)] # "closed" => SourceFits(d, w)'
        BY <2>3, <3>2
      <3> QED
        BY <3>1, <3>3, <3>4
    <2> QED
      BY <1>1, <2>2, <2>3 DEF StreamFits, c, a
  <1> QED
    BY <1>1, <1>2, <1>3, <1>4 DEF InOrder, c

\* A chunk is copied from the source's socket into the stream.
LEMMA InOrderIn ==
    ASSUME TypeOK, NEW d \in Dir, InOrder(d), NEW n \in Chunks(in[d]),
           handler[Reader(d)] # "closed", d = "down" \/ handler.server # "new",
           in'[d] = SubSeq(in[d], n + 1, Len(in[d])),
           ~dead => wire'[d] = wire[d] \o <<SubSeq(in[d], 1, n)>>,
           got'[d] = got[d], out'[d] = out[d], stream'[d] = stream[d],
           rest'[d] = rest[d], sent'[d] = sent[d], peer' = peer, dead' = dead,
           handler'[Writer(d)] = handler[Writer(d)], handler'.client = handler.client,
           d = "down" \/ handler'.server # "new"
    PROVE  InOrder(d)'
  <1> DEFINE c == Content(d)
             a == NextOut(d)
             p == SubSeq(in[d], 1, n)
             r == SubSeq(in[d], n + 1, Len(in[d]))
  <1>1. c' = c /\ a' = a
    BY ContentSame DEF NextOut
  <1>2. Fits(c, got'[d], 1) /\ (peer'[Dest(d)] # "gone" => Fits(c, out'[d], Len(got'[d]) + 1))
    BY DEF InOrder
  <1>3. /\ p \in Seq(Item) /\ Len(p) = n /\ r \in Seq(Item) /\ Len(r) = Len(in[d]) - n
        /\ in[d] \in Seq(Item) /\ wire[d] \in Seq(Seq(Item)) /\ n \in 0..Len(in[d])
        /\ Len(in[d]) \in Nat /\ n \in Nat /\ sent[d] \in Nat
    <2>1. in[d] \in Seq(Item) /\ wire[d] \in Seq(Seq(Item)) /\ sent[d] \in Nat
      BY Types
    <2> HIDE DEF p, r
    <2>2. /\ n \in 1..Len(in[d]) /\ n \in 0..Len(in[d]) /\ Len(in[d]) \in Nat
          /\ p \in Seq(Item) /\ Len(p) = n
          /\ r \in Seq(Item) /\ Len(r) = Len(in[d]) - n
      BY <2>1, Chunk, SMTT(30) DEF p, r
    <2> QED
      BY <2>1, <2>2
  <1> HIDE DEF c, a
  <1>4. ASSUME peer[Dest(d)] # "gone", handler[Writer(d)] # "closed"
        PROVE  StreamFits(d)'
    <2>1. StreamFits(d)
      BY <1>4 DEF InOrder
    <2>2. Fits(c, stream[d], a)
      BY <2>1 DEF StreamFits, c, a
    <2>3. ASSUME ~dead
          PROVE  /\ Fits(c, rest[d], a + Len(stream[d]))
                 /\ \E w \in Nat :
                       /\ Chain(c, wire[d] \o <<p>>, a + Len(stream[d]) + Len(rest[d]), w)
                       /\ SourceFits(d, w)'
      <3>1. PICK w \in Nat :
                /\ Chain(c, wire[d], a + Len(stream[d]) + Len(rest[d]), w)
                /\ SourceFits(d, w)
        BY <2>1, <2>3 DEF StreamFits, c, a
      <3>2. /\ Fits(c, in[d], w)
            /\ peer[Source(d)] \in {"absent", "open"} => w + Len(in[d]) = sent[d] + 1
        BY <3>1 DEF SourceFits, FirstIn, c
      <3>3. Fits(c, p, w) /\ Fits(c, r, w + n)
        BY <1>3, <3>2, FitsSplit
      <3> DEFINE b == a + Len(stream[d]) + Len(rest[d])
                 v == w + n
      <3>4. Chain(c, wire[d], b, w) /\ Len(p) = n
        BY <1>3, <3>1
      <3> HIDE DEF p, r, b
      <3>5. Chain(c, wire[d] \o <<p>>, b, v)
        BY <1>3, <3>3, <3>4, ChainAppend
      <3>6. v \in Nat /\ (peer[Source(d)] \in {"absent", "open"} => v + Len(r) = sent[d] + 1)
        BY <1>3, <3>2
      <3> HIDE DEF v
      <3>7. FirstIn(d, v)' = v
        BY DEF FirstIn
      <3>8. Fits(c, r, v)
        BY <3>3 DEF v
      <3>9. SourceFits(d, v)'
        BY <1>1, <3>6, <3>7, <3>8 DEF SourceFits, c, r
      <3>10. Fits(c, rest[d], a + Len(stream[d]))
        BY <2>1, <2>3 DEF StreamFits, c, a
      <3> QED
        BY <3>5, <3>6, <3>9, <3>10 DEF b
    <2> HIDE DEF p, r
    <2>4. Fits(c, stream'[d], a')
      BY <1>1, <2>2
    <2>5. ASSUME ~dead'
          PROVE  /\ Fits(c, rest'[d], a' + Len(stream'[d]))
                 /\ \E w \in Nat :
                       /\ Chain(c, wire'[d], a' + Len(stream'[d]) + Len(rest'[d]), w)
                       /\ SourceFits(d, w)'
      <3>1. wire'[d] = wire[d] \o <<p>> /\ ~dead
        BY <2>5 DEF p
      <3> QED
        BY <1>1, <2>3, <3>1
    <2> QED
      BY <1>1, <2>4, <2>5 DEF StreamFits, c, a
  <1> QED
    BY <1>1, <1>2, <1>4 DEF InOrder, c

\* A chunk is copied from the stream to the destination's socket.
LEMMA InOrderOut ==
    ASSUME TypeOK, NEW d \in Dir, InOrder(d), NEW n \in Chunks(stream[d]),
           handler[Writer(d)] # "closed", d = "down" \/ handler.client # "new",
           stream'[d] = SubSeq(stream[d], n + 1, Len(stream[d])),
           peer[Dest(d)] # "gone" => out'[d] = out[d] \o SubSeq(stream[d], 1, n),
           got'[d] = got[d], in'[d] = in[d], wire'[d] = wire[d], rest'[d] = rest[d],
           sent'[d] = sent[d], peer' = peer, dead' = dead, handler' = handler
    PROVE  InOrder(d)'
  <1> DEFINE c == Content(d)
             s == stream[d]
             p == out[d]
             g == SubSeq(s, 1, n)
             o == p \o g
             r == SubSeq(s, n + 1, Len(s))
             f == Len(got[d]) + 1
             a == NextOut(d)
             b == f + Len(o)
             k == Len(rest[d])
  <1>1. c' = c
    BY ContentSame
  <1>2. Fits(c, got'[d], 1)
    BY DEF InOrder
  <1>3. s \in Seq(Item) /\ p \in Seq(Item) /\ a \in Nat /\ k \in Nat
    BY Types, Numbers
  <1>4. \A x, y \in Nat : x + 1 \in Nat /\ x + y + 1 = (x + 1) + y
    OBVIOUS
  <1>5. Len(got[d]) \in Nat /\ Len(p) \in Nat
    BY Numbers
  <1>6. a = Len(got[d]) + Len(p) + 1
    BY DEF NextOut
  <1>7. f \in Nat /\ a = f + Len(p)
    BY <1>4, <1>5, <1>6, Zenon
  <1>8. NextOut(d)' = Len(got[d]) + Len(out'[d]) + 1
    BY DEF NextOut
  <1>9. o \in Seq(Item) /\ Len(o) \in Nat /\ g \in Seq(Item)
    <2>1. g \in Seq(Item)
      BY <1>3, Chunk
    <2> QED
      BY <1>3, <2>1
  <1>10. Len(got[d]) + Len(o) + 1 = b
    BY <1>4, <1>5, <1>9, Zenon
  <1>11. n \in 0..Len(s)
    BY <1>3, Chunk
  <1> HIDE DEF c, s, p, g, a, f, k
  <1>12. ASSUME peer[Dest(d)] # "gone"
         PROVE  Fits(c, out'[d], Len(got'[d]) + 1) /\ StreamFits(d)'
    <2>1. Fits(c, p, f) /\ StreamFits(d)
      BY <1>12 DEF InOrder, c, f, p
    <2>2. Fits(c, s, a)
      BY <2>1 DEF StreamFits, c, s, a
    <2>4. out'[d] = o /\ stream'[d] = r
      BY <1>12 DEF s, p, g, o, r
    <2>5. NextOut(d)' = b
      BY <1>8, <1>10, <2>4, Zenon
    <2>6. Fits(c, g, a) /\ Fits(c, r, a + n) /\ Len(g) = n /\ Len(r) = Len(s) - n
      <3>1. s \in Seq(Item) /\ a \in Nat
        BY <1>3
      <3>2. Fits(c, g, a) /\ Fits(c, r, a + n)
        BY <1>11, <2>2, <3>1, FitsSplit DEF g, r
      <3>3. Len(g) = n /\ Len(r) = Len(s) - n
        BY <1>11, <3>1, Subsequence DEF g, r
      <3> QED
        BY <3>2, <3>3
    <2>7. Fits(c, o, f)
      <3>1. Fits(c, g, f + Len(p)) /\ Fits(c, p, f) /\ p \in Seq(Item) /\ f \in Nat
        BY <1>3, <1>7, <2>1, <2>6, Zenon
      <3> QED
        BY <1>9, <3>1, FitsJoin DEF o
    <2>8. /\ b = a + n /\ b + Len(r) = a + Len(s) /\ b + Len(r) + k = a + Len(s) + k
      <3>1. Len(o) = Len(p) + n
        BY <1>3, <1>9, <2>6, JoinLength DEF o
      <3>2. \A x, y, z \in Nat : x + (y + z) = (x + y) + z
        OBVIOUS
      <3>3. \A x, y \in Nat : \A z \in 0..y : (x + z) + (y - z) = x + y /\ z \in Nat
        OBVIOUS
      <3>4. Len(p) \in Nat /\ n \in Nat /\ Len(s) \in Nat
        BY <1>3, <1>5, <1>11
      <3>5. b = a + n
        <4>1. b = f + (Len(p) + n)
          BY <3>1 DEF b
        <4>2. f + (Len(p) + n) = (f + Len(p)) + n
          BY <1>7, <3>2, <3>4, Zenon
        <4> QED
          BY <1>7, <4>1, <4>2, Zenon
      <3>6. b + Len(r) = a + Len(s)
        BY <1>3, <1>11, <2>6, <3>3, <3>4, <3>5, ZenonT(30)
      <3> QED
        BY <3>5, <3>6, Zenon
    <2> HIDE DEF b, o, r
    <2>9. Fits(c, r, b)
      BY <2>6, <2>8, Zenon
    <2>10. ASSUME ~dead
          PROVE  /\ Fits(c, rest[d], b + Len(r))
                 /\ \E w \in Nat :
                       /\ Chain(c, wire[d], b + Len(r) + Len(rest[d]), w)
                       /\ handler[Reader(d)] # "closed" => SourceFits(d, w)'
      <3>1. PICK w \in Nat :
                /\ Chain(c, wire[d], a + Len(s) + k, w)
                /\ handler[Reader(d)] # "closed" => SourceFits(d, w)
        BY <2>1, <2>10 DEF StreamFits, c, s, a, k
      <3>2. handler[Reader(d)] # "closed" => SourceFits(d, w)'
        BY <1>1, <3>1, SourceFrame DEF c
      <3>3. Fits(c, rest[d], a + Len(s))
        BY <2>1, <2>10 DEF StreamFits, c, s, a
      <3>4. Fits(c, rest[d], b + Len(r)) /\ Chain(c, wire[d], b + Len(r) + k, w)
        BY <2>8, <3>1, <3>3, Zenon
      <3> QED
        BY <3>2, <3>4 DEF k
    <2>12. StreamFits(d)'
      <3>1. /\ stream'[d] = r /\ rest'[d] = rest[d] /\ wire'[d] = wire[d] /\ dead' = dead
            /\ handler' = handler /\ NextOut(d)' = b /\ c' = c
        BY <1>1, <2>4, <2>5
      <3>2. Fits(c, stream'[d], NextOut(d)')
        BY <2>9, <3>1
      <3>3. ASSUME ~dead'
            PROVE  /\ Fits(c, rest'[d], NextOut(d)' + Len(stream'[d]))
                   /\ \E w \in Nat :
                         /\ Chain(c, wire'[d], NextOut(d)' + Len(stream'[d]) + Len(rest'[d]), w)
                         /\ handler'[Reader(d)] # "closed" => SourceFits(d, w)'
        <4>1. ~dead
          BY <3>1, <3>3
        <4> QED
          BY <2>10, <3>1, <4>1, Zenon
      <3> QED
        BY <3>1, <3>2, <3>3 DEF StreamFits, c
    <2> QED
      BY <2>4, <2>7, <2>12, Zenon DEF f
  <1> QED
    BY <1>1, <1>2, <1>12 DEF InOrder, c

\* A reader takes a part of a message.
LEMMA ReadPart ==
    ASSUME NEW S, NEW s \in Seq(S), NEW m \in Seq(S), NEW n \in 0..Len(m),
           NEW c, NEW a \in Nat, NEW ms, NEW w,
           Fits(c, s, a), Fits(c, m, a + Len(s)), Chain(c, ms, a + Len(s) + Len(m), w)
    PROVE  /\ Fits(c, s \o SubSeq(m, 1, n), a)
           /\ Fits(c, SubSeq(m, n + 1, Len(m)), a + Len(s \o SubSeq(m, 1, n)))
           /\ Chain(c, ms, a + Len(s \o SubSeq(m, 1, n)) + Len(SubSeq(m, n + 1, Len(m))), w)
  <1> DEFINE p == SubSeq(m, 1, n)
             r == SubSeq(m, n + 1, Len(m))
             b == a + Len(s)
  <1>1. Len(s) \in Nat /\ Len(m) \in Nat /\ n \in Nat /\ b \in Nat
    OBVIOUS
  <1>2. p \in Seq(S) /\ Len(p) = n /\ r \in Seq(S) /\ Len(r) = Len(m) - n
    BY Subsequence, ZenonT(30)
  <1>3. Fits(c, p, b) /\ Fits(c, r, b + n)
    BY <1>1, FitsSplit
  <1> HIDE DEF p, r
  <1>4. Fits(c, s \o p, a) /\ Len(s \o p) = Len(s) + n
    <2>1. Fits(c, s \o p, a)
      BY <1>2, <1>3, FitsJoin
    <2>2. Len(s \o p) = Len(s) + n
      BY <1>2, JoinLength
    <2> QED
      BY <2>1, <2>2
  <1>5. a + Len(s \o p) = b + n /\ a + Len(s \o p) + Len(r) = a + Len(s) + Len(m)
    BY <1>1, <1>2, <1>4
  <1> QED
    BY <1>3, <1>4, <1>5 DEF p, r

LEMMA InOrderWSRead ==
    ASSUME TypeOK, DeadWF, NEW d \in Dir, InOrder(d), WSRead(d)
    PROVE  InOrder(d)'
  <1> DEFINE c == Content(d)
             a == NextOut(d)
             m == IF rest[d] # <<>> THEN rest[d] ELSE Head(wire[d])
             ms == IF rest[d] # <<>> THEN wire[d] ELSE Tail(wire[d])
  <1>1. PICK n \in 1..Len(m) :
            /\ stream' = [stream EXCEPT ![d] = @ \o SubSeq(m, 1, n)]
            /\ rest' = [rest EXCEPT ![d] = SubSeq(m, n + 1, Len(m))]
    BY DEF WSRead
  <1>2. /\ wire' = IF rest[d] # <<>> THEN wire ELSE [wire EXCEPT ![d] = Tail(@)]
        /\ rest[d] # <<>> \/ wire[d] # <<>>
        /\ UNCHANGED <<handler, in, out, peer, sent, got, dead>>
    BY DEF WSRead, copies, ends
  <1>3. /\ stream[d] \in Seq(Item) /\ rest[d] \in Seq(Item) /\ wire[d] \in Seq(Seq(Item))
        /\ a \in Nat /\ Len(stream[d]) \in Nat /\ Len(rest[d]) \in Nat
    BY Types, Numbers
  <1>4. m \in Seq(Item) /\ n \in 0..Len(m)
    BY <1>2, <1>3
  <1>5. /\ stream'[d] = stream[d] \o SubSeq(m, 1, n)
        /\ rest'[d] = SubSeq(m, n + 1, Len(m))
        /\ wire'[d] = ms
    BY <1>1, <1>2 DEF TypeOK
  <1>6. c' = c /\ a' = a
    BY <1>2, ContentSame DEF NextOut
  <1>7. ~dead
    BY <1>2 DEF DeadWF
  <1>8. Fits(c, got'[d], 1) /\ (peer'[Dest(d)] # "gone" => Fits(c, out'[d], Len(got'[d]) + 1))
    BY <1>2 DEF InOrder
  <1> HIDE DEF c, a
  <1>9. ASSUME peer[Dest(d)] # "gone", handler[Writer(d)] # "closed"
        PROVE  StreamFits(d)'
    <2>1. StreamFits(d)
      BY <1>9 DEF InOrder
    <2>2. Fits(c, stream[d], a) /\ Fits(c, rest[d], a + Len(stream[d]))
      BY <1>7, <2>1 DEF StreamFits, c, a
    <2>3. PICK w \in Nat :
              /\ Chain(c, wire[d], a + Len(stream[d]) + Len(rest[d]), w)
              /\ handler[Reader(d)] # "closed" => SourceFits(d, w)
      BY <1>7, <2>1 DEF StreamFits, c, a
    <2>4. Fits(c, m, a + Len(stream[d])) /\ Chain(c, ms, a + Len(stream[d]) + Len(m), w)
      <3>1. CASE rest[d] # <<>>
        BY <2>2, <2>3, <3>1
      <3>2. CASE rest[d] = <<>>
        <4>1. Len(rest[d]) = 0 /\ m = Head(wire[d]) /\ ms = Tail(wire[d]) /\ wire[d] # <<>>
          BY <1>2, <3>2
        <4>2. a + Len(stream[d]) + Len(rest[d]) = a + Len(stream[d])
          BY <1>3, <4>1
        <4>3. Chain(c, wire[d], a + Len(stream[d]), w)
          BY <2>3, <4>2
        <4> QED
          BY <1>3, <4>1, <4>3, ChainTail
      <3> QED
        BY <3>1, <3>2
    <2> DEFINE s == stream[d] \o SubSeq(m, 1, n)
               r == SubSeq(m, n + 1, Len(m))
    <2> HIDE DEF m, ms
    <2>5. Fits(c, s, a) /\ Fits(c, r, a + Len(s)) /\ Chain(c, ms, a + Len(s) + Len(r), w)
      BY <1>3, <1>4, <2>2, <2>4, ReadPart
    <2>6. stream'[d] = s /\ rest'[d] = r
      BY <1>5
    <2> HIDE DEF s, r
    <2>7. handler'[Reader(d)] # "closed" => SourceFits(d, w)'
      BY <1>2, <1>6, <2>3, SourceFrame DEF c
    <2> QED
      BY <1>5, <1>6, <2>5, <2>6, <2>7 DEF StreamFits, c, a
  <1> QED
    BY <1>2, <1>6, <1>8, <1>9 DEF InOrder, c

-----------------------------------------------------------------------------
(* The source's side: what is written to the stream, and what is in the     *)
(* socket before it                                                         *)

LEMMA InOrderSource ==
    ASSUME NEW d \in Dir, InOrder(d), Extends(Content(d), Content(d)'),
           got'[d] = got[d], out'[d] = out[d], stream'[d] = stream[d], rest'[d] = rest[d],
           dead' = dead, peer'[Dest(d)] # "gone" => peer[Dest(d)] # "gone",
           handler'[Writer(d)] # "closed" =>
               handler[Writer(d)] # "closed" /\ NextOut(d)' = NextOut(d),
           ASSUME ~dead, NEW w \in Nat,
                  Chain(Content(d), wire[d], NextOut(d) + Len(stream[d]) + Len(rest[d]), w),
                  handler[Reader(d)] # "closed" => SourceFits(d, w),
                  handler[Writer(d)] # "closed"
           PROVE  \E v \in Nat :
                     /\ Chain(Content(d)', wire'[d],
                              NextOut(d) + Len(stream[d]) + Len(rest[d]), v)
                     /\ handler'[Reader(d)] # "closed" => SourceFits(d, v)'
    PROVE  InOrder(d)'
  <1> DEFINE c == Content(d)
             e == Content(d)'
             a == NextOut(d)
             s == Len(stream[d])
             k == Len(rest[d])
  <1>1. Fits(e, got'[d], 1)
    BY FitsMore DEF InOrder
  <1>2. peer'[Dest(d)] # "gone" => Fits(e, out'[d], Len(got'[d]) + 1)
    BY FitsMore DEF InOrder
  <1> HIDE DEF c, e, a, s, k
  <1>3. ASSUME peer'[Dest(d)] # "gone", handler'[Writer(d)] # "closed"
        PROVE  StreamFits(d)'
    <2>1. StreamFits(d) /\ NextOut(d)' = a /\ handler[Writer(d)] # "closed"
      BY <1>3 DEF InOrder, a
    <2>2. Fits(c, stream[d], a) /\ (~dead => Fits(c, rest[d], a + s))
      BY <2>1 DEF StreamFits, c, a, s
    <2>3. Extends(c, e)
      BY DEF c, e
    <2>4. Fits(e, stream[d], a) /\ (~dead => Fits(e, rest[d], a + s))
      BY <2>2, <2>3, FitsMore
    <2>5. ASSUME ~dead
          PROVE  \E v \in Nat : /\ Chain(e, wire'[d], a + s + k, v)
                                /\ handler'[Reader(d)] # "closed" => SourceFits(d, v)'
      <3>1. PICK w \in Nat :
                /\ Chain(c, wire[d], a + s + k, w)
                /\ handler[Reader(d)] # "closed" => SourceFits(d, w)
        BY <2>1, <2>5 DEF StreamFits, c, a, s, k
      <3> QED
        BY <2>1, <2>5, <3>1 DEF c, e, a, s, k
    <2>6. Fits(e, stream'[d], a) /\ (~dead' => Fits(e, rest'[d], a + Len(stream'[d])))
      BY <2>4 DEF s
    <2>7. ASSUME ~dead'
          PROVE  \E v \in Nat :
                    /\ Chain(e, wire'[d], a + Len(stream'[d]) + Len(rest'[d]), v)
                    /\ handler'[Reader(d)] # "closed" => SourceFits(d, v)'
      BY <2>5, <2>7 DEF s, k
    <2> QED
      BY <2>1, <2>6, <2>7 DEF StreamFits, e
  <1> QED
    BY <1>1, <1>2, <1>3 DEF InOrder, e

LEMMA ExtendsItself ==
    ASSUME NEW c, NEW e, e = c
    PROVE  Extends(c, e)
  BY DEF Extends

\* The reader closes the stream: an end goes behind what has been written.
LEMMA InOrderClosed ==
    ASSUME TypeOK, NEW d \in Dir, InOrder(d),
           got'[d] = got[d], out'[d] = out[d], stream'[d] = stream[d], rest'[d] = rest[d],
           sent'[d] = sent[d], peer' = peer, dead' = dead,
           handler'[Reader(d)] = "closed", handler'[Writer(d)] = handler[Writer(d)],
           ~dead => wire'[d] = wire[d] \o <<<<Fin>>>>
    PROVE  InOrder(d)'
  <1>1. Content(d)' = Content(d)
    BY ContentSame
  <1>2. Extends(Content(d), Content(d)')
    BY <1>1, ExtendsItself
  <1>3. handler'[Writer(d)] # "closed" => NextOut(d)' = NextOut(d)
    <2>1. d = "up" => handler'.client = handler.client
      BY DEF Writer, Reader, Other
    <2> QED
      BY <2>1 DEF NextOut
  <1>4. ASSUME ~dead, NEW w \in Nat,
               Chain(Content(d), wire[d], NextOut(d) + Len(stream[d]) + Len(rest[d]), w)
        PROVE  Chain(Content(d)', wire'[d], NextOut(d) + Len(stream[d]) + Len(rest[d]), w + 1)
    <2> DEFINE c == Content(d)
               b == NextOut(d) + Len(stream[d]) + Len(rest[d])
               q == <<Fin>>
               m == wire[d]
    <2>1. m \in Seq(Seq(Item)) /\ q \in Seq(Item) /\ Len(q) = 1
      BY Types DEF Item
    <2>2. Fits(c, q, w)
      BY FitsFew
    <2>3. Chain(c, m, b, w) /\ wire'[d] = m \o <<q>>
      BY <1>4
    <2> HIDE DEF c, b, q, m
    <2>4. Chain(c, m \o <<q>>, b, w + Len(q))
      BY <2>1, <2>2, <2>3, ChainAppend
    <2> QED
      BY <1>1, <2>1, <2>3, <2>4 DEF c, b
  <1>5. ASSUME NEW w \in Nat PROVE w + 1 \in Nat
    OBVIOUS
  <1> QED
    BY <1>2, <1>3, <1>4, <1>5, InOrderSource

-----------------------------------------------------------------------------
(* The destination's side *)

\* The destination's socket is closed.
LEMMA CloseOut ==
    ASSUME NEW d \in Dir, InOrder(d), Content(d)' = Content(d), got'[d] = got[d],
           peer'[Dest(d)] # "gone" => peer[Dest(d)] # "gone",
           handler'[Writer(d)] = "closed",
           NEW q \in Seq(Item), NEW u, out'[d] \in AfterClose(q, u),
           peer[Dest(d)] # "gone" => Fits(Content(d), q, Len(got[d]) + 1),
           Len(got[d]) \in Nat
    PROVE  InOrder(d)'
  <1> DEFINE c == Content(d)
             a == Len(got[d]) + 1
  <1>1. Fits(c, got'[d], 1)
    BY DEF InOrder
  <1>2. a \in Nat
    OBVIOUS
  <1>3. Content(d)' = c /\ Len(got'[d]) + 1 = a
    OBVIOUS
  <1>4. peer[Dest(d)] # "gone" => Fits(c, q, a)
    OBVIOUS
  <1> HIDE DEF c, a
  <1>5. peer[Dest(d)] # "gone" => Fits(c, out'[d], a)
    BY <1>2, <1>4, FitsClosed
  <1> QED
    BY <1>1, <1>3, <1>5 DEF InOrder

LEMMA ReceiveCounts ==
    ASSUME NEW S, NEW g \in Seq(S), NEW q \in Seq(S), q # <<>>
    PROVE  /\ Len(Append(g, Head(q))) = Len(g) + 1
           /\ Len(Append(g, Head(q))) + Len(Tail(q)) + 1 = Len(g) + Len(q) + 1
           /\ Append(g, Head(q)) \in Seq(S) /\ Tail(q) \in Seq(S)
           /\ Len(g) + 1 = 1 + Len(g) /\ Len(g) + 1 \in Nat
  OBVIOUS

\* The destination takes a piece.
LEMMA InOrderReceive ==
    ASSUME TypeOK, NEW d \in Dir, InOrder(d), Receive(d)
    PROVE  InOrder(d)'
  <1> DEFINE c == Content(d)
             g == got[d]
             q == out[d]
             h == Append(g, Head(q))
  <1>1. /\ UNCHANGED <<handler, in, wire, rest, stream, peer, sent, dead>>
        /\ got'[d] = h /\ out'[d] = Tail(q) /\ q # <<>> /\ Head(q) # Fin
        /\ peer[Dest(d)] # "gone"
    BY DEF Receive, TypeOK, HasData
  <1>2. g \in Seq(Item) /\ q \in Seq(Item)
    BY Types
  <1>3. Fits(c, g, 1) /\ Fits(c, q, Len(g) + 1)
    BY <1>1 DEF InOrder
  <1>4. c' = c
    BY <1>1, ContentSame
  <1>5. NextOut(d)' = NextOut(d)
    <2> HIDE DEF g, q
    <2>1. Len(h) + Len(Tail(q)) + 1 = Len(g) + Len(q) + 1
      BY <1>1, <1>2, ReceiveCounts
    <2> HIDE DEF h
    <2>2. NextOut(d)' = IF d = "up" /\ handler.client = "new" THEN 0
                        ELSE Len(h) + Len(Tail(q)) + 1
      BY <1>1 DEF NextOut
    <2>3. NextOut(d) = IF d = "up" /\ handler.client = "new" THEN 0
                       ELSE Len(g) + Len(q) + 1
      BY DEF NextOut, g, q
    <2> QED
      BY <2>1, <2>2, <2>3
  <1> HIDE DEF c, g, q
  <1>6. Head(q) = c[Len(g) + 1] /\ Len(g) + 1 \in DOMAIN c /\ Fits(c, Tail(q), (Len(g) + 1) + 1)
    BY <1>1, <1>2, <1>3, ReceiveCounts, FitsTail
  <1>7. Fits(c, h, 1) /\ Len(h) = Len(g) + 1
    <2>1. 1 + Len(g) \in DOMAIN c /\ Head(q) = c[1 + Len(g)]
      BY <1>1, <1>2, <1>6, ReceiveCounts
    <2>2. Fits(c, h, 1)
      BY <1>2, <1>3, <2>1, FitsAppend
    <2> QED
      BY <1>1, <1>2, <2>2, ReceiveCounts
  <1> HIDE DEF h
  <1>8. Fits(c, got'[d], 1) /\ Fits(c, out'[d], Len(got'[d]) + 1)
    BY <1>1, <1>6, <1>7
  <1>9. ASSUME handler[Writer(d)] # "closed"
        PROVE  StreamFits(d)'
    <2>1. StreamFits(d)
      BY <1>1, <1>9 DEF InOrder
    <2>2. ASSUME NEW w \in Nat, SourceFits(d, w)
          PROVE  SourceFits(d, w)'
      BY <1>1, <1>4, <2>2, SourceFrame DEF c
    <2> QED
      BY <1>1, <1>4, <1>5, <2>1, <2>2 DEF StreamFits, c
  <1> QED
    BY <1>1, <1>4, <1>8, <1>9 DEF InOrder, c

-----------------------------------------------------------------------------
(* The source *)

LEMMA SendFits ==
    ASSUME NEW S, NEW q \in Seq(S), NEW a \in Nat, NEW n \in Nat, a + Len(q) = n + 1,
           NEW c, NEW e, Extends(c, e), Fits(c, q, a), n + 1 \in DOMAIN e, e[n + 1] = n + 1
    PROVE  Fits(e, Append(q, n + 1), a) /\ a + Len(Append(q, n + 1)) = n + 1 + 1
  <1>1. Fits(e, q, a)
    BY FitsMore
  <1>2. Fits(e, Append(q, n + 1), a)
    BY <1>1, FitsAppend
  <1>3. Len(Append(q, n + 1)) = Len(q) + 1 /\ Len(q) \in Nat
    OBVIOUS
  <1> QED
    BY <1>2, <1>3

LEMMA ContentSend ==
    ASSUME NEW n \in Nat, NEW c, NEW e, c = [k \in 0..n |-> IF k = 0 THEN Hdr ELSE k],
           e = [k \in 0..(n + 1) |-> IF k = 0 THEN Hdr ELSE k]
    PROVE  Extends(c, e) /\ n + 1 \in DOMAIN e /\ e[n + 1] = n + 1
  BY DEF Extends

LEMMA InOrderSend ==
    ASSUME TypeOK, NEW d \in Dir, InOrder(d), Send(d)
    PROVE  InOrder(d)'
  <1> DEFINE c == Content(d)
             e == Content(d)'
             n == sent[d]
             q == in[d]
  <1>1. /\ UNCHANGED <<kind, handler, wire, rest, stream, out, peer, got, dead>>
        /\ in'[d] = Append(q, n + 1) /\ sent'[d] = n + 1 /\ peer[Source(d)] = "open"
    BY DEF Send, TypeOK
  <1>2. n \in Nat /\ q \in Seq(Item)
    BY Types
  <1>3. ~Refused(d) /\ ~Refused(d)'
    BY <1>1 DEF Refused, Source
  <1>4. /\ c = [k \in 0..n |-> IF k = 0 THEN Hdr ELSE k]
        /\ e = [k \in 0..(n + 1) |-> IF k = 0 THEN Hdr ELSE k]
    BY <1>1, <1>3 DEF Content
  <1>5. handler'[Writer(d)] # "closed" => NextOut(d)' = NextOut(d)
    BY <1>1 DEF NextOut
  <1> HIDE DEF c, e, n, q
  <1>6. Extends(c, e) /\ n + 1 \in DOMAIN e /\ e[n + 1] = n + 1
    BY <1>2, <1>4, ContentSend
  <1>7. ASSUME NEW w \in Nat, SourceFits(d, w)
        PROVE  SourceFits(d, w)'
    <2> DEFINE a == FirstIn(d, w)
    <2>1. a' = a /\ a \in Nat
      BY <1>1 DEF FirstIn
    <2>2. Fits(c, q, a) /\ a + Len(q) = n + 1
      BY <1>1, <1>7 DEF SourceFits, c, n, q
    <2> HIDE DEF a
    <2>3. Fits(e, Append(q, n + 1), a) /\ a + Len(Append(q, n + 1)) = n + 1 + 1
      BY <1>2, <1>6, <2>1, <2>2, SendFits
    <2>4. Fits(e, in'[d], a') /\ a' + Len(in'[d]) = sent'[d] + 1
      BY <1>1, <2>1, <2>3, Zenon
    <2> QED
      BY <2>4 DEF SourceFits, a, e
  <1>8. ASSUME NEW w, Chain(Content(d), wire[d], NextOut(d) + Len(stream[d]) + Len(rest[d]), w)
        PROVE  Chain(e, wire'[d], NextOut(d) + Len(stream[d]) + Len(rest[d]), w)
    BY <1>1, <1>6, <1>8, ChainMore DEF c
  <1>9. Extends(Content(d), Content(d)')
    BY <1>6 DEF c, e
  <1> QED
    BY <1>1, <1>5, <1>7, <1>8, <1>9, InOrderSource DEF e

\* The source closes its sending side, or all.
LEMMA InOrderEnd ==
    ASSUME TypeOK, NEW d \in Dir, InOrder(d),
           UNCHANGED <<handler, wire, rest, stream, out, got, sent, dead>>,
           peer'[Source(d)] \in {"shut", "gone"}, peer[Source(d)] \in {"open", "shut"},
           peer'[Dest(d)] = peer[Dest(d)],
           NEW u, in'[d] \in AfterClose(in[d], u) \cup {Append(in[d], Fin)}
    PROVE  InOrder(d)'
  <1> DEFINE c == Content(d)
             q == in[d]
  <1>1. q \in Seq(Item)
    BY Types
  <1>2. c' = c
    BY DEF Content, Refused, Source, Dest, Other, Dir
  <1>3. handler'[Writer(d)] # "closed" => NextOut(d)' = NextOut(d)
    BY DEF NextOut
  <1> HIDE DEF c, q
  <1>4. ASSUME NEW w \in Nat, SourceFits(d, w)
        PROVE  SourceFits(d, w)'
    <2> DEFINE a == FirstIn(d, w)
    <2>1. a' = a /\ a \in Nat
      BY DEF FirstIn
    <2>2. Fits(c, q, a)
      BY <1>4 DEF SourceFits, c, q
    <2> HIDE DEF a
    <2>3. \A r \in AfterClose(q, u) \cup {Append(q, Fin)} : Fits(c, r, a)
      <3>1. Fits(c, Append(q, Fin), a)
        BY <1>1, <2>1, <2>2, FitsAppend
      <3>2. \A r \in AfterClose(q, u) : Fits(c, r, a)
        BY <1>1, <2>1, <2>2, FitsClosed
      <3> QED
        BY <3>1, <3>2
    <2>4. Fits(c, in'[d], a)
      BY <2>3 DEF q
    <2>5. peer'[Source(d)] \notin {"absent", "open"}
      OBVIOUS
    <2> QED
      BY <1>2, <2>1, <2>4, <2>5 DEF SourceFits, a, c
  <1>5. Extends(Content(d), Content(d)')
    BY <1>2, ExtendsItself DEF c
  <1>6. c' = Content(d)
    BY <1>2 DEF c
  <1> QED
    BY <1>3, <1>4, <1>5, <1>6, InOrderSource DEF c

-----------------------------------------------------------------------------
(* The header, and the first step of each handler *)

LEMMA OpenChain ==
    ASSUME NEW n \in Nat, NEW c, c = [k \in 0..n |-> IF k = 0 THEN Hdr ELSE k]
    PROVE  /\ Chain(c, <<>> \o <<<<Hdr>>>> \o <<>>, 0, 1)
           /\ n > 0 => Chain(c, <<>> \o <<<<Hdr>>>> \o <<<<1>>>>, 0, 2)
  <1> DEFINE h == <<Hdr>>
             p == <<1>>
             m == <<>> \o <<h>>
  <1>1. <<>> \in Seq(Seq(Item)) /\ h \in Seq(Item) /\ p \in Seq(Item) /\ m \in Seq(Seq(Item))
    BY DEF Item
  <1>2. Len(h) = 1 /\ Len(p) = 1 /\ 0 + 1 = 1 /\ 1 + 1 = 2
    OBVIOUS
  <1>3. 0 \in DOMAIN c /\ c[0] = Hdr
    OBVIOUS
  <1>4. Fits(c, h, 0)
    BY <1>3, FitsFew
  <1>5. Chain(c, <<>>, 0, 0)
    BY ChainNone
  <1>6. m \o <<>> = m
    BY <1>1
  <1> HIDE DEF h, p
  <1>7. Chain(c, m, 0, 0 + Len(h))
    BY <1>1, <1>4, <1>5, ChainAppend
  <1> HIDE DEF m
  <1>8. Chain(c, m, 0, 1)
    BY <1>2, <1>7
  <1>9. ASSUME n > 0 PROVE Chain(c, m \o <<p>>, 0, 2)
    <2>1. 1 \in DOMAIN c /\ c[1] = 1
      BY <1>9
    <2>2. Fits(c, <<c[1]>>, 1)
      BY <2>1, FitsFew
    <2>3. Fits(c, p, 1)
      BY <2>1, <2>2 DEF p
    <2>4. Chain(c, m \o <<p>>, 0, 1 + Len(p))
      BY <1>1, <1>8, <2>3, ChainAppend
    <2> QED
      BY <1>2, <2>4
  <1> QED
    BY <1>6, <1>8, <1>9 DEF m, h, p

\* The header, and an upgrade's request behind it.
LEMMA InOrderOpen ==
    ASSUME TypeOK, ServerNewWF, InOrder("up"), OpenStream
    PROVE  InOrder("up")'
  <1> DEFINE c == Content("up")
             n == sent["up"]
             q == in["up"]
             m == <<>> \o <<<<Hdr>>>> \o (IF kind = "ws" THEN <<<<1>>>> ELSE <<>>)
  <1>16. PICK v \in Nat : v = IF kind = "ws" THEN 2 ELSE 1
    OBVIOUS
  <1>0. "up" \in Dir /\ Reader("up") = "server" /\ Writer("up") = "client"
    BY DEF Dir, Reader, Writer, Other
  <1>1. /\ UNCHANGED <<kind, rest, stream, out, peer, sent, got, over, dead>>
        /\ ~dead /\ handler.server = "new" /\ handler'.client = handler.client
        /\ handler'.server # "new"
        /\ in'["up"] = IF kind = "ws" THEN Tail(q) ELSE q
        /\ wire'["up"] = wire["up"] \o <<<<Hdr>>>> \o (IF kind = "ws" THEN <<<<1>>>> ELSE <<>>)
    BY <1>0 DEF OpenStream, ends, TypeOK
  <1>2. /\ stream["up"] = <<>> /\ rest["up"] = <<>> /\ wire["up"] = <<>>
        /\ handler.client \in {"new", "closed"}
        /\ kind = "ws" => q # <<>> /\ n > 0
    BY <1>1 DEF ServerNewWF, Empty
  <1>3. n \in Nat /\ q \in Seq(Item)
    BY <1>0, Types
  <1>4. c = [k \in 0..n |-> IF k = 0 THEN Hdr ELSE k] /\ c' = c
    BY <1>1 DEF Content, Refused
  <1>5. wire'["up"] = m
    BY <1>1, <1>2
  <1>6. handler'[Writer("up")] # "closed" => NextOut("up")' = NextOut("up")
    BY <1>1 DEF NextOut
  <1> HIDE DEF c
  <1>7. Chain(c, m, 0, v)
    BY <1>2, <1>3, <1>4, <1>16, OpenChain
  <1>8. handler[Writer("up")] # "closed" =>
           NextOut("up") + Len(stream["up"]) + Len(rest["up"]) = 0
    <2>1. 0 + Len(<<>>) + Len(<<>>) = 0
      OBVIOUS
    <2>2. handler[Writer("up")] # "closed" => NextOut("up") = 0
      BY <1>0, <1>2 DEF NextOut
    <2> QED
      BY <1>2, <2>1, <2>2
  <1> HIDE DEF m, n, q
  <1>9. ASSUME NEW w \in Nat, SourceFits("up", w)
        PROVE  SourceFits("up", v)'
    <2>1. Fits(c, q, 1) /\ (peer.public \in {"absent", "open"} => 1 + Len(q) = n + 1)
      BY <1>1, <1>9 DEF SourceFits, FirstIn, c, n, q, Source
    <2>2. FirstIn("up", v)' = v
      BY <1>1 DEF FirstIn
    <2>3. CASE kind # "ws"
      <3>1. in'["up"] = q /\ v = 1
        BY <1>1, <1>16, <2>3
      <3>2. Fits(c, in'["up"], v) /\ (peer.public \in {"absent", "open"} => v + Len(in'["up"]) = n + 1)
        BY <2>1, <3>1
      <3> QED
        BY <1>1, <1>4, <2>2, <3>2 DEF SourceFits, Source, c, n
    <2>4. CASE kind = "ws"
      <3>1. in'["up"] = Tail(q) /\ v = 2 /\ q # <<>>
        BY <1>1, <1>2, <1>16, <2>4
      <3>2. Fits(c, Tail(q), 1 + 1) /\ Len(Tail(q)) = Len(q) - 1 /\ Len(q) \in Nat
        BY <1>3, <2>1, <3>1, FitsTail
      <3>3. \A x, y \in Nat : 1 + x = y + 1 => 2 + (x - 1) = y + 1
        OBVIOUS
      <3>4. 1 + 1 = 2
        OBVIOUS
      <3>5. Fits(c, in'["up"], v) /\ (peer.public \in {"absent", "open"} => v + Len(in'["up"]) = n + 1)
        <4>1. Fits(c, Tail(q), 2)
          BY <3>2, <3>4, Zenon
        <4>2. peer.public \in {"absent", "open"} => 2 + (Len(q) - 1) = n + 1
          BY <1>3, <2>1, <3>2, <3>3, Zenon
        <4> QED
          BY <3>1, <3>2, <4>1, <4>2, Zenon
      <3> QED
        BY <1>1, <1>4, <2>2, <3>5 DEF SourceFits, Source, c, n
    <2> QED
      BY <2>3, <2>4
  <1>11. Extends(Content("up"), Content("up")')
    BY <1>4, ExtendsItself DEF c
  <1>12. ASSUME handler[Writer("up")] # "closed"
         PROVE  Chain(Content("up")', wire'["up"],
                      NextOut("up") + Len(stream["up"]) + Len(rest["up"]), v)
    BY <1>4, <1>5, <1>7, <1>8, <1>12 DEF c
  <1>13. handler[Reader("up")] # "closed"
    BY <1>0, <1>1
  <1>14. ASSUME ~dead, NEW w \in Nat,
                Chain(Content("up"), wire["up"],
                      NextOut("up") + Len(stream["up"]) + Len(rest["up"]), w),
                handler[Reader("up")] # "closed" => SourceFits("up", w),
                handler[Writer("up")] # "closed"
         PROVE  \E x \in Nat :
                   /\ Chain(Content("up")', wire'["up"],
                            NextOut("up") + Len(stream["up"]) + Len(rest["up"]), x)
                   /\ handler'[Reader("up")] # "closed" => SourceFits("up", x)'
    BY <1>9, <1>12, <1>13, <1>14
  <1>15. /\ got'["up"] = got["up"] /\ out'["up"] = out["up"] /\ stream'["up"] = stream["up"]
         /\ rest'["up"] = rest["up"] /\ dead' = dead /\ peer' = peer
         /\ handler'[Writer("up")] = handler[Writer("up")]
    BY <1>0, <1>1
  <1> QED
    BY <1>0, <1>6, <1>11, <1>14, <1>15, InOrderSource

\* The client has read the header.
LEMMA InOrderHeader ==
    ASSUME TypeOK, ClientNewWF, InOrder("up"), ReadHeader
    PROVE  InOrder("up")'
  <1> DEFINE c == Content("up")
             s == stream["up"]
             k == Len(rest["up"])
  <1>0. /\ "up" \in Dir /\ Reader("up") = "server" /\ Writer("up") = "client"
        /\ Dest("up") = "local"
    BY DEF Dir, Reader, Writer, Other, Dest, Source
  <1>1. /\ UNCHANGED <<kind, in, wire, rest, out, peer, sent, got, dead>>
        /\ handler.client = "new" /\ handler'.client = "dial" /\ handler'.server = handler.server
        /\ stream'["up"] = Tail(s) /\ s # <<>>
    BY <1>0 DEF ReadHeader, ends, TypeOK, HasData
  <1>2. out["up"] = <<>> /\ got["up"] = <<>> /\ peer.local = "absent"
    BY <1>1 DEF ClientNewWF
  <1>3. s \in Seq(Item) /\ k \in Nat
    BY <1>0, Types, Numbers
  <1>4. c' = c
    BY <1>0, <1>1, ContentSame
  <1>5. NextOut("up") = 0
    BY <1>1 DEF NextOut
  <1>6. NextOut("up")' = 1
    <2>1. NextOut("up")' = Len(<<>>) + Len(<<>>) + 1
      BY <1>1, <1>2 DEF NextOut
    <2> QED
      BY <2>1
  <1>7. StreamFits("up")
    BY <1>0, <1>1, <1>2 DEF InOrder
  <1> HIDE DEF c, s, k
  <1>8. Fits(c, s, 0)
    BY <1>5, <1>7 DEF StreamFits, c, s
  <1>9. Fits(c, Tail(s), 1)
    <2>1. 0 + 1 = 1
      OBVIOUS
    <2>2. Fits(c, Tail(s), 0 + 1)
      BY <1>1, <1>3, <1>8, FitsTail
    <2> QED
      BY <2>1, <2>2
  <1>10. 0 + Len(s) = 1 + Len(Tail(s)) /\ 0 + Len(s) + k = 1 + Len(Tail(s)) + k
    BY <1>1, <1>3
  <1>11. ASSUME ~dead
         PROVE  /\ Fits(c, rest["up"], 1 + Len(Tail(s)))
                /\ \E w \in Nat :
                      /\ Chain(c, wire["up"], 1 + Len(Tail(s)) + k, w)
                      /\ handler[Reader("up")] # "closed" => SourceFits("up", w)'
    <2>1. Fits(c, rest["up"], 0 + Len(s))
      BY <1>5, <1>7, <1>11 DEF StreamFits, c, s
    <2>2. PICK w \in Nat :
              /\ Chain(c, wire["up"], 0 + Len(s) + k, w)
              /\ handler[Reader("up")] # "closed" => SourceFits("up", w)
      BY <1>5, <1>7, <1>11 DEF StreamFits, c, s, k
    <2>3. SourceFits("up", w) => SourceFits("up", w)'
      BY <1>0, <1>1, <1>4, SourceFrame DEF c
    <2> QED
      BY <1>10, <2>1, <2>2, <2>3, Zenon
  <1>12. Fits(c, got'["up"], 1) /\ Fits(c, out'["up"], Len(got'["up"]) + 1)
    BY <1>0, <1>1, <1>2, FitsFew
  <1>13. StreamFits("up")'
    <2>1. /\ stream'["up"] = Tail(s) /\ wire'["up"] = wire["up"] /\ rest'["up"] = rest["up"]
          /\ dead' = dead /\ handler'[Reader("up")] = handler[Reader("up")]
      BY <1>0, <1>1
    <2>2. ASSUME ~dead'
          PROVE  /\ Fits(c, rest'["up"], 1 + Len(stream'["up"]))
                 /\ \E w \in Nat :
                       /\ Chain(c, wire'["up"], 1 + Len(stream'["up"]) + Len(rest'["up"]), w)
                       /\ handler'[Reader("up")] # "closed" => SourceFits("up", w)'
      BY <1>11, <2>1, <2>2 DEF k
    <2>3. Fits(c, stream'["up"], 1)
      BY <1>9, <2>1
    <2> QED
      BY <1>4, <1>6, <2>2, <2>3 DEF StreamFits, c
  <1> QED
    BY <1>4, <1>12, <1>13 DEF InOrder, c

\* The client has reached the local service, which has sent nothing yet.
LEMMA InOrderDial ==
    ASSUME TypeOK, ClientNewWF, AbsentWF, ~OwnAnswer, Dial
    PROVE  InOrder("down")'
  <1> DEFINE e == Content("down")'
  <1>1. /\ Reader("down") = "client" /\ Writer("down") = "server" /\ Dest("down") = "public"
        /\ Source("down") = "local"
    BY DEF Reader, Writer, Other, Dest, Source
  <1>2. /\ UNCHANGED <<kind, in, wire, rest, stream, out, sent, got, dead>>
        /\ handler.client = "dial" /\ handler'.server = handler.server
        /\ peer'.local = "open"
    BY DEF Dial, data, TypeOK
  <1>3. /\ got'["down"] = <<>>
        /\ out'["down"] = <<>> \/ (out'["down"] = <<Fin>> /\ handler'.server = "closed")
        /\ stream'["down"] = <<>> /\ rest'["down"] = <<>> /\ wire'["down"] = <<>>
        /\ in'["down"] = <<>> /\ sent'["down"] = 0
    BY <1>2 DEF ClientNewWF, AbsentWF, Empty
  <1>4. Fits(e, <<>>, 1) /\ Fits(e, <<Fin>>, 1) /\ Chain(e, <<>>, 1, 1)
    BY FitsFew, ChainNone
  <1>5. Len(<<>>) = 0 /\ 0 + 1 = 1 /\ 0 + 0 + 1 = 1 /\ 1 + 0 = 1 /\ 1 + 0 + 0 = 1
    OBVIOUS
  <1>6. Fits(e, got'["down"], 1) /\ Fits(e, out'["down"], Len(got'["down"]) + 1)
    BY <1>3, <1>4, <1>5
  <1>7. ASSUME handler'.server # "closed"
        PROVE  StreamFits("down")'
    <2>1. NextOut("down")' = 1
      BY <1>3, <1>5, <1>7 DEF NextOut
    <2>2. SourceFits("down", 1)'
      <3>1. FirstIn("down", 1)' = 1
        BY DEF FirstIn
      <3> QED
        BY <1>3, <1>4, <1>5, <3>1 DEF SourceFits, e
    <2> QED
      BY <1>3, <1>4, <1>5, <2>1, <2>2 DEF StreamFits, e
  <1> QED
    BY <1>1, <1>6, <1>7 DEF InOrder, e

LEMMA RefusalChain ==
    ASSUME NEW c, c = [k \in 0..1 |-> IF k = 0 THEN Hdr ELSE Refusal]
    PROVE  /\ Chain(c, <<>> \o (<<>> \o <<<<Fin>>>>), 1, 2)
           /\ Chain(c, <<>> \o (<<<<Refusal>>>> \o <<<<Fin>>>>), 1, 3)
  <1> DEFINE f == <<Fin>>
             r == <<Refusal>>
             m == <<>> \o <<r>>
  <1>1. /\ <<>> \in Seq(Seq(Item)) /\ f \in Seq(Item) /\ r \in Seq(Item)
        /\ m \in Seq(Seq(Item)) /\ <<f>> \in Seq(Seq(Item)) /\ <<r>> \in Seq(Seq(Item))
    BY DEF Item
  <1>2. Len(f) = 1 /\ Len(r) = 1 /\ 1 + 1 = 2 /\ 2 + 1 = 3
    OBVIOUS
  <1>3. 1 \in DOMAIN c /\ c[1] = Refusal
    OBVIOUS
  <1>4. Fits(c, f, 1) /\ Fits(c, f, 2) /\ Fits(c, <<c[1]>>, 1)
    BY <1>3, FitsFew
  <1>5. Fits(c, r, 1)
    BY <1>3, <1>4
  <1>6. Chain(c, <<>>, 1, 1)
    BY ChainNone
  <1>7. <<>> \o (<<>> \o <<f>>) = <<>> \o <<f>>
    BY TwoMessages
  <1>8. <<>> \o (<<r>> \o <<f>>) = m \o <<f>>
    <2>1. <<>> \o <<r>> = <<r>> /\ <<r>> \o <<f>> = <<r, f>>
      BY TwoMessages
    <2>2. <<>> \o <<r, f>> = <<r, f>>
      BY <1>1
    <2> QED
      BY <2>1, <2>2
  <1> HIDE DEF f, r
  <1>9. Chain(c, <<>> \o <<f>>, 1, 1 + Len(f))
    BY <1>1, <1>4, <1>6, ChainAppend
  <1>10. Chain(c, m, 1, 1 + Len(r))
    BY <1>1, <1>5, <1>6, ChainAppend
  <1> HIDE DEF m
  <1>11. Chain(c, m, 1, 2)
    BY <1>2, <1>10
  <1>12. Chain(c, m \o <<f>>, 1, 2 + Len(f))
    BY <1>1, <1>4, <1>11, ChainAppend
  <1> QED
    BY <1>2, <1>7, <1>8, <1>9, <1>12 DEF f, r, m

\* The client answers itself, or says nothing.
LEMMA InOrderDialFails ==
    ASSUME TypeOK, ClientNewWF, ~OwnAnswer, InOrder("down"), DialFails
    PROVE  InOrder("down")'
  <1>1. /\ "down" \in Dir /\ Reader("down") = "client" /\ Writer("down") = "server"
        /\ Dest("down") = "public" /\ Source("down") = "local"
    BY DEF Dir, Reader, Writer, Other, Dest, Source
  <1>2. /\ UNCHANGED <<kind, in, rest, stream, out, peer, sent, got, dead>>
        /\ handler.client = "dial" /\ handler'.client = "closed"
        /\ handler'.server = handler.server
        /\ \E answer \in {<<>>, <<<<Refusal>>>>} :
              ~dead => wire'["down"] = wire["down"] \o (answer \o <<<<Fin>>>>)
    BY <1>1 DEF DialFails, Written, ends, TypeOK
  <1>3. /\ got["down"] = <<>> /\ peer.local = "absent"
        /\ out["down"] = <<>> \/ (out["down"] = <<Fin>> /\ handler.server = "closed")
        /\ stream["down"] = <<>> /\ rest["down"] = <<>> /\ wire["down"] = <<>>
    BY <1>2 DEF ClientNewWF, Empty
  <1>4. Content("down") = [k \in 0..1 |-> IF k = 0 THEN Hdr ELSE Refusal]
    BY <1>3 DEF Content, Refused
  <1>5. Content("down")' = Content("down")
    BY <1>1, <1>2, ContentSame
  <1>6. NextOut("down")' = NextOut("down")
    BY <1>2 DEF NextOut
  <1>7. Len(<<>>) = 0 /\ 0 + 0 + 1 = 1 /\ 1 + 0 + 0 = 1
    OBVIOUS
  <1>8. handler.server # "closed" =>
           NextOut("down") + Len(stream["down"]) + Len(rest["down"]) = 1
    BY <1>3, <1>7 DEF NextOut
  <1>9. ~dead => \E v \in Nat : Chain(Content("down"), wire'["down"], 1, v)
    BY <1>2, <1>3, <1>4, RefusalChain
  <1>10. Extends(Content("down"), Content("down")')
    BY <1>5, ExtendsItself
  <1>11. ASSUME ~dead, handler[Writer("down")] # "closed"
         PROVE  \E x \in Nat :
                   /\ Chain(Content("down")', wire'["down"],
                            NextOut("down") + Len(stream["down"]) + Len(rest["down"]), x)
                   /\ handler'[Reader("down")] # "closed" => SourceFits("down", x)'
    BY <1>1, <1>2, <1>5, <1>8, <1>9, <1>11
  <1>12. /\ got'["down"] = got["down"] /\ out'["down"] = out["down"]
         /\ stream'["down"] = stream["down"]
         /\ rest'["down"] = rest["down"] /\ dead' = dead /\ peer' = peer
         /\ handler'[Writer("down")] = handler[Writer("down")]
    BY <1>1, <1>2
  <1> QED
    BY <1>1, <1>6, <1>10, <1>11, <1>12, InOrderSource

-----------------------------------------------------------------------------
(* Every step keeps a direction in order *)

LEMMA Ends ==
    /\ Dir = {"up", "down"}
    /\ Reader("up") = "server" /\ Writer("up") = "client"
    /\ Source("up") = "public" /\ Dest("up") = "local"
    /\ Reader("down") = "client" /\ Writer("down") = "server"
    /\ Source("down") = "local" /\ Dest("down") = "public"
    /\ Other("up") = "down" /\ Other("down") = "up"
  BY DEF Dir, Reader, Writer, Other, Source, Dest

LEMMA InOrderSame ==
    ASSUME NEW d \in Dir, InOrder(d),
           got'[d] = got[d], out'[d] = out[d], stream'[d] = stream[d],
           in'[d] = in[d], sent'[d] = sent[d], Content(d)' = Content(d),
           peer'[Dest(d)] # "gone" => peer[Dest(d)] # "gone",
           peer'[Source(d)] \in {"absent", "open"} => peer[Source(d)] \in {"absent", "open"},
           ~dead' => ~dead /\ rest'[d] = rest[d] /\ wire'[d] = wire[d],
           handler'[Reader(d)] # "closed" =>
               /\ handler[Reader(d)] # "closed"
               /\ d = "down" \/ (handler'.server = "new" <=> handler.server = "new"),
           handler'[Writer(d)] # "closed" =>
               /\ handler[Writer(d)] # "closed"
               /\ d = "down" \/ (handler'.client = "new" <=> handler.client = "new")
    PROVE  InOrder(d)'
  <1>1. handler'[Writer(d)] # "closed" => NextOut(d)' = NextOut(d)
    BY DEF NextOut
  <1>2. handler'[Reader(d)] # "closed" =>
            \A w \in Nat : SourceFits(d, w) => SourceFits(d, w)'
    BY SourceFrame
  <1> QED
    BY <1>1, <1>2, InOrderFrame

LEMMA ContentKeeps ==
    ASSUME TypeOK, NEW d \in Dir, sent'[d] = sent[d], NEW e \in Dir,
           \/ UNCHANGED peer
           \/ Shut(e) \/ Leave(e)
    PROVE  Content(d)' = Content(d)
  <1>1. CASE UNCHANGED peer
    BY <1>1, ContentSame
  <1>2. CASE Shut(e) \/ Leave(e)
    <2>1. peer'.local = "absent" <=> peer.local = "absent"
      BY <1>2, Ends DEF Shut, Leave, TypeOK
    <2> QED
      BY <2>1, ContentSame
  <1> QED
    BY <1>1, <1>2

LEMMA InOrderPeers ==
    ASSUME IInv, NEW d \in Dir, InOrder(d), NEW e \in Dir, Peers(e)
    PROVE  InOrder(d)'
  <1>1. TypeOK
    BY DEF IInv
  <1>2. CASE Send(e)
    <2>1. CASE e = d
      BY <1>1, <1>2, <2>1, InOrderSend
    <2>2. CASE e # d
      <3>1. /\ UNCHANGED <<handler, wire, rest, stream, out, peer, got, dead>>
            /\ sent'[d] = sent[d] /\ in'[d] = in[d]
        BY <1>1, <1>2, <2>2 DEF Send, TypeOK
      <3>2. Content(d)' = Content(d)
        BY <1>1, <3>1, ContentKeeps
      <3> QED
        BY <3>1, <3>2, InOrderSame
    <2> QED
      BY <2>1, <2>2
  <1>3. CASE Shut(e)
    <2>1. /\ UNCHANGED <<handler, wire, rest, stream, out, sent, got, dead>>
          /\ peer[Source(e)] = "open" /\ peer' = [peer EXCEPT ![Source(e)] = "shut"]
          /\ in' = [in EXCEPT ![e] = Append(@, Fin)]
      BY <1>3 DEF Shut
    <2>2. CASE e = d
      <3>1. /\ peer'[Source(d)] = "shut" /\ peer'[Dest(d)] = peer[Dest(d)]
            /\ in'[d] = Append(in[d], Fin)
        BY <1>1, <2>1, <2>2, Ends DEF TypeOK
      <3> QED
        BY <1>1, <2>1, <2>2, <3>1, InOrderEnd
    <2>3. CASE e # d
      <3>1. in'[d] = in[d] /\ Content(d)' = Content(d)
        BY <1>1, <1>3, <2>1, <2>3, ContentKeeps DEF TypeOK
      <3>2. peer'[Dest(d)] = "shut" /\ peer[Dest(d)] = "open" /\ peer'[Source(d)] = peer[Source(d)]
        BY <1>1, <2>1, <2>3, Ends, SMTT(30) DEF TypeOK
      <3> QED
        BY <2>1, <3>1, <3>2, InOrderSame
    <2> QED
      BY <2>2, <2>3
  <1>4. CASE Leave(e)
    <2>1. /\ UNCHANGED <<handler, wire, rest, stream, out, sent, got, dead>>
          /\ peer[Source(e)] \in {"open", "shut"}
          /\ peer' = [peer EXCEPT ![Source(e)] = "gone"]
          /\ \E q \in AfterClose(in[e], HasData(out[Other(e)])) : in' = [in EXCEPT ![e] = q]
      BY <1>4 DEF Leave
    <2>2. CASE e = d
      <3>1. /\ peer'[Source(d)] = "gone" /\ peer'[Dest(d)] = peer[Dest(d)]
            /\ in'[d] \in AfterClose(in[d], HasData(out[Other(d)]))
        BY <1>1, <2>1, <2>2, Ends DEF TypeOK
      <3> QED
        BY <1>1, <2>1, <2>2, <3>1, InOrderEnd
    <2>3. CASE e # d
      <3>1. in'[d] = in[d] /\ Content(d)' = Content(d)
        BY <1>1, <1>4, <2>1, <2>3, ContentKeeps DEF TypeOK
      <3>2. peer'[Dest(d)] = "gone" /\ peer'[Source(d)] = peer[Source(d)]
        BY <1>1, <2>1, <2>3, Ends DEF TypeOK
      <3> QED
        BY <2>1, <3>1, <3>2, InOrderSame
    <2> QED
      BY <2>2, <2>3
  <1>5. CASE Receive(e)
    <2>1. CASE e = d
      BY <1>1, <1>5, <2>1, InOrderReceive
    <2>2. CASE e # d
      <3>1. /\ UNCHANGED <<handler, wire, rest, stream, in, peer, sent, dead>>
            /\ got'[d] = got[d] /\ out'[d] = out[d]
        BY <1>1, <1>5, <2>2 DEF Receive, TypeOK
      <3>2. Content(d)' = Content(d)
        BY <1>1, <3>1, ContentKeeps
      <3> QED
        BY <3>1, <3>2, InOrderSame
    <2> QED
      BY <2>1, <2>2
  <1>6. CASE ReceiveEnd(e)
    <2>1. UNCHANGED <<handler, in, wire, rest, stream, out, peer, sent, got, dead>>
      BY <1>6 DEF ReceiveEnd, data
    <2>2. Content(d)' = Content(d)
      BY <1>1, <2>1, ContentKeeps
    <2> QED
      BY <2>1, <2>2, InOrderSame
  <1> QED
    BY <1>2, <1>3, <1>4, <1>5, <1>6 DEF Peers

LEMMA InOrderCopies ==
    ASSUME IInv, NEW d \in Dir, InOrder(d), NEW e \in Dir,
           WSRead(e) \/ CopyIn(e) \/ CopyInEnds(e) \/ CopyOut(e) \/ CopyOutEnds(e)
    PROVE  InOrder(d)'
  <1>1. TypeOK /\ DeadWF /\ ServerNewWF /\ ClientNewWF
    BY DEF IInv
  <1>2. CASE WSRead(e)
    <2>1. CASE e = d
      BY <1>1, <1>2, <2>1, InOrderWSRead
    <2>2. CASE e # d
      <3>1. /\ UNCHANGED <<handler, in, out, peer, sent, got, dead>>
            /\ stream'[d] = stream[d] /\ rest'[d] = rest[d] /\ wire'[d] = wire[d]
        BY <1>1, <1>2, <2>2 DEF WSRead, TypeOK, copies, ends
      <3>2. Content(d)' = Content(d)
        BY <1>1, <3>1, ContentKeeps
      <3> QED
        BY <3>1, <3>2, InOrderSame
    <2> QED
      BY <2>1, <2>2
  <1>3. CASE CopyIn(e)
    <2>1. UNCHANGED <<handler, rest, stream, out, peer, sent, got, dead>>
      BY <1>3 DEF CopyIn, ends
    <2>2. PICK n \in Chunks(in[e]) :
              /\ in' = [in EXCEPT ![e] = SubSeq(@, n + 1, Len(@))]
              /\ wire' = Written(e, <<SubSeq(in[e], 1, n)>>)
      BY <1>3 DEF CopyIn
    <2>3. CASE e = d
      <3>1. /\ in'[d] = SubSeq(in[d], n + 1, Len(in[d])) /\ n \in Chunks(in[d])
            /\ ~dead => wire'[d] = wire[d] \o <<SubSeq(in[d], 1, n)>>
        BY <1>1, <2>2, <2>3 DEF Written, TypeOK
      <3>2. handler[Reader(d)] # "closed" /\ (d = "down" \/ handler.server # "new")
        BY <1>1, <1>3, <2>3, Ends DEF CopyIn, ServerNewWF
      <3> QED
        BY <1>1, <2>1, <3>1, <3>2, InOrderIn
    <2>4. CASE e # d
      <3>1. in'[d] = in[d] /\ (~dead => wire'[d] = wire[d])
        BY <1>1, <2>2, <2>4 DEF Written, TypeOK
      <3>2. Content(d)' = Content(d)
        BY <1>1, <2>1, ContentKeeps
      <3> QED
        BY <2>1, <3>1, <3>2, InOrderSame
    <2> QED
      BY <2>3, <2>4
  <1>4. CASE CopyOut(e)
    <2>1. UNCHANGED <<handler, in, wire, rest, peer, sent, got, dead>>
      BY <1>4 DEF CopyOut, ends
    <2>2. PICK n \in Chunks(stream[e]) :
              /\ stream' = [stream EXCEPT ![e] = SubSeq(@, n + 1, Len(@))]
              /\ out' = Delivered(e, SubSeq(stream[e], 1, n))
      BY <1>4 DEF CopyOut
    <2>3. CASE e = d
      <3>1. /\ stream'[d] = SubSeq(stream[d], n + 1, Len(stream[d])) /\ n \in Chunks(stream[d])
            /\ peer[Dest(d)] # "gone" => out'[d] = out[d] \o SubSeq(stream[d], 1, n)
        BY <1>1, <2>2, <2>3 DEF Delivered, TypeOK
      <3>2. handler[Writer(d)] # "closed" /\ (d = "down" \/ handler.client # "new")
        BY <1>1, <1>4, <2>3, Ends DEF CopyOut, ClientNewWF
      <3> QED
        BY <1>1, <2>1, <3>1, <3>2, InOrderOut
    <2>4. CASE e # d
      <3>1. stream'[d] = stream[d] /\ out'[d] = out[d]
        BY <1>1, <2>2, <2>4 DEF Delivered, TypeOK
      <3>2. Content(d)' = Content(d)
        BY <1>1, <2>1, ContentKeeps
      <3> QED
        BY <2>1, <3>1, <3>2, InOrderSame
    <2> QED
      BY <2>3, <2>4
  <1>5. CASE CopyInEnds(e) \/ CopyOutEnds(e)
    <2>1. UNCHANGED <<handler, in, wire, rest, stream, out, peer, sent, got, dead>>
      BY <1>5 DEF CopyInEnds, CopyOutEnds, data, ends
    <2>2. Content(d)' = Content(d)
      BY <1>1, <2>1, ContentKeeps
    <2> QED
      BY <2>1, <2>2, InOrderSame
  <1> QED
    BY <1>2, <1>3, <1>4, <1>5

LEMMA WrittenAt ==
    ASSUME TypeOK, NEW d \in Dir, NEW ms, wire' = Written(d, ms)
    PROVE  /\ ~dead => wire'[d] = wire[d] \o ms
           /\ \A e \in Dir : e # d => wire'[e] = wire[e]
  BY DEF Written, TypeOK

\* What a closing handler of the server leaves alone.
LEMMA ServerCloseFrame ==
    ASSUME TypeOK,
           OpenFails \/ ServerPipeEnds \/ SendRequestFails \/ RelayResponse \/ RelayResponseFails
    PROVE  /\ UNCHANGED <<kind, copies, in, rest, ends, dead>>
           /\ stream'["up"] = stream["up"] /\ out'["up"] = out["up"]
           /\ handler'.client = handler.client
           /\ \/ handler' = handler /\ wire' = wire
              \/ handler'.server = "closed" /\ (wire' = wire \/ wire' = CloseStream("up"))
  <1>1. CASE OpenFails \/ ServerPipeEnds \/ SendRequestFails \/ RelayResponseFails
    <2>1. /\ UNCHANGED <<kind, copies, in, rest, stream, ends, dead>>
          /\ wire' = wire \/ wire' = CloseStream("up")
          /\ \E x : ServerCloses(x)
      BY <1>1 DEF OpenFails, ServerPipeEnds, SendRequestFails, RelayResponseFails
    <2>2. /\ out'["up"] = out["up"] /\ handler'.client = handler.client
          /\ handler'.server = "closed"
      BY <2>1 DEF ServerCloses, TypeOK
    <2> QED
      BY <2>1, <2>2
  <1>2. CASE RelayResponse
    <2>1. UNCHANGED <<kind, copies, in, rest, ends, dead>>
      BY <1>2 DEF RelayResponse
    <2>2. stream'["up"] = stream["up"]
      BY <1>2 DEF RelayResponse, TypeOK
    <2>3. /\ out'["up"] = out["up"] /\ handler'.client = handler.client
          /\ \/ handler' = handler /\ wire' = wire
             \/ handler'.server = "closed" /\ wire' = CloseStream("up")
      <3>1. \/ \E x : ServerCloses(x) /\ wire' = CloseStream("up")
            \/ \E x : out' = Delivered("down", x) /\ UNCHANGED <<handler, wire>>
        BY <1>2 DEF RelayResponse
      <3>2. CASE \E x : ServerCloses(x) /\ wire' = CloseStream("up")
        BY <3>2 DEF ServerCloses, TypeOK
      <3>3. CASE \E x : out' = Delivered("down", x) /\ UNCHANGED <<handler, wire>>
        BY <3>3 DEF Delivered, TypeOK
      <3> QED
        BY <3>1, <3>2, <3>3
    <2> QED
      BY <2>1, <2>2, <2>3
  <1> QED
    BY <1>1, <1>2

LEMMA ServerUp ==
    ASSUME IInv, InOrder("up"), Server
    PROVE  InOrder("up")'
  <1>1. TypeOK /\ ServerNewWF /\ "up" \in Dir
    BY DEF IInv, Dir
  <1>2. CASE OpenStream
    BY <1>1, <1>2, InOrderOpen
  <1>3. CASE SendRequest
    <2>1. UNCHANGED <<rest, stream, out, peer, sent, got, dead>> /\ handler.server = "request"
      BY <1>3 DEF SendRequest, ends
    <2>2. PICK n \in Chunks(in["up"]) :
              /\ in' = [in EXCEPT !["up"] = SubSeq(@, n + 1, Len(@))]
              /\ wire' = Written("up", <<SubSeq(in["up"], 1, n)>>)
              /\ handler' = [handler EXCEPT !.server =
                                IF in["up"][n] = Total("up") THEN "response" ELSE @]
      BY <1>3 DEF SendRequest
    <2>3. in'["up"] = SubSeq(in["up"], n + 1, Len(in["up"]))
      BY <1>1, <2>2 DEF TypeOK
    <2>4. ~dead => wire'["up"] = wire["up"] \o <<SubSeq(in["up"], 1, n)>>
      BY <1>1, <2>2, WrittenAt
    <2>5. handler'.client = handler.client /\ handler'.server # "new"
      BY <1>1, <2>1, <2>2 DEF TypeOK
    <2> QED
      BY <1>1, <2>1, <2>3, <2>4, <2>5, Ends, InOrderIn
  <1>4. CASE \/ OpenFails \/ ServerPipeEnds \/ SendRequestFails \/ RelayResponse
             \/ RelayResponseFails
    <2>1. /\ UNCHANGED <<in, rest, peer, sent, got, dead>>
          /\ stream'["up"] = stream["up"] /\ out'["up"] = out["up"]
          /\ handler'.client = handler.client
          /\ \/ handler' = handler /\ wire' = wire
             \/ handler'.server = "closed" /\ (wire' = wire \/ wire' = CloseStream("up"))
      BY <1>1, <1>4, ServerCloseFrame DEF ends
    <2>2. Content("up")' = Content("up")
      BY <1>1, <2>1, ContentKeeps
    <2>3. CASE wire' = wire
      BY <1>1, <2>1, <2>2, <2>3, Ends, InOrderSame
    <2>4. CASE wire' = CloseStream("up") /\ handler'.server = "closed"
      <3>1. ~dead => wire'["up"] = wire["up"] \o <<<<Fin>>>>
        BY <1>1, <2>4, WrittenAt DEF CloseStream
      <3> QED
        BY <1>1, <2>1, <2>4, <3>1, Ends, InOrderClosed
    <2> QED
      BY <2>1, <2>3, <2>4
  <1> QED
    BY <1>2, <1>3, <1>4 DEF Server

LEMMA ClientUp ==
    ASSUME IInv, InOrder("up"), Client
    PROVE  InOrder("up")'
  <1>1. TypeOK /\ ClientNewWF /\ "up" \in Dir
    BY DEF IInv, Dir
  <1>2. CASE ReadHeader
    BY <1>1, <1>2, InOrderHeader
  <1>3. CASE ReadHeaderFails \/ DialFails
    <2>1. /\ UNCHANGED <<in, rest, stream, out, peer, sent, got, dead>>
          /\ handler'.client = "closed" /\ handler'.server = handler.server
          /\ \E ms : wire' = Written("down", ms)
      BY <1>1, <1>3 DEF ReadHeaderFails, DialFails, ends, CloseStream, TypeOK
    <2>2. wire'["up"] = wire["up"]
      BY <1>1, <2>1, Ends, WrittenAt
    <2>3. Content("up")' = Content("up")
      BY <1>1, <2>1, ContentKeeps
    <2> QED
      BY <1>1, <2>1, <2>2, <2>3, Ends, InOrderSame
  <1>4. CASE Dial
    <2>1. /\ UNCHANGED <<in, wire, rest, stream, out, sent, got, dead>>
          /\ handler'.client = "pipe" /\ handler.client = "dial"
          /\ handler'.server = handler.server
          /\ peer'.local = "open" /\ peer'.public = peer.public /\ peer.local = "absent"
      BY <1>1, <1>4 DEF Dial, data, TypeOK, ClientNewWF
    <2>2. Content("up")' = Content("up")
      BY <2>1 DEF Content, Refused
    <2> QED
      BY <1>1, <2>1, <2>2, Ends, InOrderSame
  <1>5. CASE ClientPipeEnds
    <2>1. /\ UNCHANGED <<in, rest, stream, peer, sent, got, dead>>
          /\ handler'.client = "closed" /\ handler.client = "pipe"
          /\ out'["up"] \in AfterClose(out["up"], in["down"] # <<>>)
      BY <1>1, <1>5 DEF ClientPipeEnds, LocalClosed, ends, TypeOK
    <2>2. Content("up")' = Content("up")
      BY <1>1, <2>1, ContentKeeps
    <2>3. out["up"] \in Seq(Item) /\ Len(got["up"]) \in Nat
      BY <1>1, Types, Numbers
    <2>4. peer[Dest("up")] # "gone" => Fits(Content("up"), out["up"], Len(got["up"]) + 1)
      BY DEF InOrder
    <2> QED
      BY <1>1, <2>1, <2>2, <2>3, <2>4, Ends, CloseOut
  <1> QED
    BY <1>2, <1>3, <1>4, <1>5 DEF Client

LEMMA SessionDiesKeeps ==
    ASSUME IInv, NEW d \in Dir, InOrder(d), SessionDies
    PROVE  InOrder(d)'
  <1>1. TypeOK
    BY DEF IInv
  <1>2. UNCHANGED <<handler, in, stream, out, peer, sent, got>> /\ dead'
    BY DEF SessionDies, ends
  <1>3. Content(d)' = Content(d)
    BY <1>1, <1>2, ContentKeeps
  <1> QED
    BY <1>2, <1>3, InOrderSame

LEMMA TwoPieces ==
    ASSUME NEW x, NEW y
    PROVE  Append(<<x>>, y) = <<x, y>> /\ Append(<<>>, y) = <<y>>
  <1> DEFINE p == Append(<<x>>, y)
             q == <<x, y>>
  <1>1. Append(<<>>, y) = <<y>>
    OBVIOUS
  <1>2. p \in Seq({x, y}) /\ q \in Seq({x, y}) /\ Len(p) = 2 /\ Len(q) = 2
    OBVIOUS
  <1>3. p[1] = q[1] /\ p[2] = q[2]
    OBVIOUS
  <1> HIDE DEF p, q
  <1>4. \A i \in 1..Len(p) : p[i] = q[i]
    BY <1>2, <1>3
  <1>5. p = q
    BY <1>2, <1>4, SeqEqual
  <1> QED
    BY <1>1, <1>5 DEF p, q

\* The server's own answer, which a reset may destroy.
LEMMA ErrorCloses ==
    ASSUME TypeOK, InOrder("down"), ServerCloses(ErrorAnswer),
           UNCHANGED <<peer, sent, got>>
    PROVE  InOrder("down")' \/ OwnAnswer'
  <1>1. "down" \in Dir
    BY DEF Dir
  <1>2. PICK u : out'["down"] \in AfterClose(out["down"] \o ErrorAnswer, u)
    BY <1>1 DEF ServerCloses, TypeOK
  <1>3. handler'.server = "closed"
    BY DEF ServerCloses, TypeOK
  <1>4. Content("down")' = Content("down") /\ Len(got["down"]) \in Nat
    BY <1>1, ContentKeeps, Numbers
  <1>5. out["down"] \in Seq(Item)
    BY <1>1, Types
  <1>6. peer[Dest("down")] # "gone" => Fits(Content("down"), out["down"], Len(got["down"]) + 1)
    BY DEF InOrder
  <1>7. CASE ErrorAnswer = <<>>
    <2>1. out["down"] \o ErrorAnswer = out["down"]
      BY <1>5, <1>7
    <2>2. out'["down"] \in AfterClose(out["down"], u)
      BY <1>2, <2>1
    <2> QED
      BY <1>1, <1>3, <1>4, <1>5, <1>6, <2>2, Ends, CloseOut
  <1>8. CASE ErrorAnswer # <<>>
    <2>1. ErrorAnswer = <<Refusal>> /\ out["down"] = <<>> /\ got["down"] = <<>>
      BY <1>8 DEF ErrorAnswer
    <2>2. out'["down"] \in AfterClose(<<Refusal>>, u)
      <3>1. <<>> \o <<Refusal>> = <<Refusal>>
        OBVIOUS
      <3> QED
        BY <1>2, <2>1, <3>1
    <2>3. Append(<<Refusal>>, Fin) = <<Refusal, Fin>> /\ Append(<<>>, Fin) = <<Fin>>
      BY TwoPieces
    <2>4. Fin \notin ToSet(<<Refusal>>) /\ Fin \notin ToSet(<<>>)
      BY MarkAssumption DEF ToSet
    <2>5. out'["down"] \in {<<Refusal, Fin>>, <<Fin>>}
      BY <2>2, <2>3, <2>4 DEF AfterClose
    <2>6. CASE out'["down"] = <<Refusal, Fin>>
      BY <1>3, <2>1, <2>6 DEF OwnAnswer
    <2>7. CASE out'["down"] = <<Fin>>
      <3>1. out'["down"] \in AfterClose(out["down"], u)
        BY <2>1, <2>3, <2>4, <2>7 DEF AfterClose
      <3> QED
        BY <1>1, <1>3, <1>4, <1>5, <1>6, <3>1, Ends, CloseOut
    <2> QED
      BY <2>5, <2>6, <2>7
  <1> QED
    BY <1>7, <1>8

\* What is in the stream goes behind what is in the socket.
LEMMA OutFits ==
    ASSUME TypeOK, InOrder("down"), NEW n \in Chunks(stream["down"]),
           handler.server # "closed", peer.public # "gone"
    PROVE  Fits(Content("down"), out["down"] \o SubSeq(stream["down"], 1, n),
                Len(got["down"]) + 1)
  <1> DEFINE c == Content("down")
             s == stream["down"]
             q == out["down"]
             f == Len(got["down"]) + 1
  <1>1. "down" \in Dir
    BY DEF Dir
  <1>2. s \in Seq(Item) /\ q \in Seq(Item) /\ Len(got["down"]) \in Nat /\ Len(q) \in Nat
    BY <1>1, Types, Numbers
  <1>3. Fits(c, q, f) /\ Fits(c, s, NextOut("down"))
    BY Ends DEF InOrder, StreamFits
  <1>4. NextOut("down") = Len(got["down"]) + Len(q) + 1
    BY DEF NextOut
  <1>5. f \in Nat /\ NextOut("down") = f + Len(q)
    <2>1. \A x, y \in Nat : x + 1 \in Nat /\ x + y + 1 = (x + 1) + y
      OBVIOUS
    <2> QED
      BY <1>2, <1>4, <2>1, Zenon
  <1> HIDE DEF c, s, q, f
  <1>6. n \in 0..Len(s) /\ SubSeq(s, 1, n) \in Seq(Item)
    BY <1>2, Chunk DEF s
  <1>7. f + Len(q) \in Nat /\ Fits(c, s, f + Len(q))
    BY <1>2, <1>3, <1>5
  <1>8. Fits(c, SubSeq(s, 1, n), f + Len(q))
    BY <1>2, <1>6, <1>7, FitsSplit
  <1>9. Fits(c, q \o SubSeq(s, 1, n), f)
    BY <1>2, <1>3, <1>5, <1>6, <1>8, FitsJoin
  <1> QED
    BY <1>9 DEF c, s, q, f

LEMMA ServerDown ==
    ASSUME IInv, InOrder("down"), Server
    PROVE  InOrder("down")' \/ OwnAnswer'
  <1>1. TypeOK /\ ServerNewWF /\ "down" \in Dir /\ "up" \in Dir
    BY DEF IInv, Dir
  <1>2. CASE OpenStream \/ SendRequest
    <2>1. /\ UNCHANGED <<rest, stream, out, peer, sent, got, dead>>
          /\ handler'.client = handler.client
          /\ handler.server # "closed" /\ handler'.server # "closed"
          /\ in'["down"] = in["down"]
      BY <1>1, <1>2 DEF OpenStream, SendRequest, ends, TypeOK
    <2>2. wire'["down"] = wire["down"]
      BY <1>1, <1>2 DEF OpenStream, SendRequest, Written, TypeOK
    <2>3. Content("down")' = Content("down")
      BY <1>1, <2>1, ContentKeeps
    <2> QED
      BY <1>1, <2>1, <2>2, <2>3, Ends, InOrderSame
  <1>3. CASE OpenFails \/ SendRequestFails \/ RelayResponseFails
    <2>1. UNCHANGED <<peer, sent, got>> /\ ServerCloses(ErrorAnswer)
      BY <1>3 DEF OpenFails, SendRequestFails, RelayResponseFails, ends
    <2> QED
      BY <1>1, <2>1, ErrorCloses
  <1>4. ASSUME NEW q \in Seq(Item), ServerCloses(q), UNCHANGED <<peer, sent, got>>,
               peer.public # "gone" =>
                   Fits(Content("down"), out["down"] \o q, Len(got["down"]) + 1)
        PROVE  InOrder("down")'
    <2>1. PICK u : out'["down"] \in AfterClose(out["down"] \o q, u)
      BY <1>1, <1>4 DEF ServerCloses, TypeOK
    <2>2. handler'.server = "closed"
      BY <1>1, <1>4 DEF ServerCloses, TypeOK
    <2>3. Content("down")' = Content("down") /\ Len(got["down"]) \in Nat
      BY <1>1, <1>4, ContentKeeps, Numbers
    <2>4. out["down"] \o q \in Seq(Item)
      BY <1>1, Types, JoinLength
    <2> QED
      BY <1>1, <1>4, <2>1, <2>2, <2>3, <2>4, Ends, CloseOut
  <1>5. CASE ServerPipeEnds
    <2>1. out["down"] \o <<>> = out["down"] /\ <<>> \in Seq(Item)
      BY <1>1, Types
    <2>2. peer.public # "gone" => Fits(Content("down"), out["down"], Len(got["down"]) + 1)
      BY Ends DEF InOrder
    <2>3. ServerCloses(<<>>) /\ UNCHANGED <<peer, sent, got>>
      BY <1>5 DEF ServerPipeEnds, ends
    <2> QED
      BY <1>4, <2>1, <2>2, <2>3
  <1>6. CASE RelayResponse
    <2>1. PICK n \in Chunks(stream["down"]) :
              /\ stream' = [stream EXCEPT !["down"] = SubSeq(@, n + 1, Len(@))]
              /\ \/ ServerCloses(SubSeq(stream["down"], 1, n))
                 \/ /\ out' = Delivered("down", SubSeq(stream["down"], 1, n))
                    /\ UNCHANGED <<handler, wire>>
      BY <1>6 DEF RelayResponse
    <2>2. handler.server = "response" /\ UNCHANGED <<in, rest, peer, sent, got, dead>>
      BY <1>6 DEF RelayResponse, ends
    <2>3. CASE ServerCloses(SubSeq(stream["down"], 1, n))
      <3>1. SubSeq(stream["down"], 1, n) \in Seq(Item)
        BY <1>1, Types, Chunk
      <3>2. peer.public # "gone" =>
               Fits(Content("down"), out["down"] \o SubSeq(stream["down"], 1, n),
                    Len(got["down"]) + 1)
        BY <1>1, <2>2, OutFits
      <3> QED
        BY <1>4, <2>2, <2>3, <3>1, <3>2
    <2>4. CASE /\ out' = Delivered("down", SubSeq(stream["down"], 1, n))
               /\ UNCHANGED <<handler, wire>>
      <3>1. /\ stream'["down"] = SubSeq(stream["down"], n + 1, Len(stream["down"]))
            /\ peer.public # "gone" =>
                  out'["down"] = out["down"] \o SubSeq(stream["down"], 1, n)
        BY <1>1, <2>1, <2>4, Ends DEF Delivered, TypeOK
      <3> QED
        BY <1>1, <2>2, <2>4, <3>1, Ends, InOrderOut
    <2> QED
      BY <2>1, <2>3, <2>4
  <1> QED
    BY <1>2, <1>3, <1>5, <1>6 DEF Server

LEMMA ClientDown ==
    ASSUME IInv, InOrder("down"), ~OwnAnswer, Client
    PROVE  InOrder("down")'
  <1>1. TypeOK /\ ClientNewWF /\ AbsentWF /\ "down" \in Dir
    BY DEF IInv, Dir
  <1>2. CASE ReadHeader
    <2>1. /\ UNCHANGED <<in, wire, rest, out, peer, sent, got, dead>>
          /\ handler'.server = handler.server /\ handler.client # "closed"
          /\ stream'["down"] = stream["down"]
      BY <1>1, <1>2 DEF ReadHeader, ends, TypeOK
    <2>2. Content("down")' = Content("down")
      BY <1>1, <2>1, ContentKeeps
    <2> QED
      BY <1>1, <2>1, <2>2, Ends, InOrderSame
  <1>3. CASE Dial
    BY <1>1, <1>3, InOrderDial
  <1>4. CASE DialFails
    BY <1>1, <1>4, InOrderDialFails
  <1>5. CASE ReadHeaderFails \/ ClientPipeEnds
    <2>1. /\ UNCHANGED <<in, rest, stream, peer, sent, got, dead>>
          /\ handler'.client = "closed" /\ handler'.server = handler.server
          /\ out'["down"] = out["down"] /\ wire' = Written("down", <<<<Fin>>>>)
      BY <1>1, <1>5 DEF ReadHeaderFails, ClientPipeEnds, LocalClosed, CloseStream, ends, TypeOK
    <2>2. ~dead => wire'["down"] = wire["down"] \o <<<<Fin>>>>
      BY <1>1, <2>1, WrittenAt
    <2> QED
      BY <1>1, <2>1, <2>2, Ends, InOrderClosed
  <1> QED
    BY <1>2, <1>3, <1>4, <1>5 DEF Client

-----------------------------------------------------------------------------
(* Every step keeps the types *)

DownItem == Nat \cup {Refusal, Fin}

LEMMA SeqMore ==
    ASSUME NEW S, NEW T, S \subseteq T
    PROVE  Seq(S) \subseteq Seq(T) /\ Seq(Seq(S)) \subseteq Seq(Seq(T))
  <1>1. Seq(S) \subseteq Seq(T)
    OBVIOUS
  <1>2. \A A, B : A \subseteq B => Seq(A) \subseteq Seq(B)
    OBVIOUS
  <1> QED
    BY <1>1, <1>2

LEMMA WireNext ==
    ASSUME IInv, [Next]_vars
    PROVE  wire' \in [Dir -> Seq(Seq(Item))] /\ wire'["down"] \in Seq(Seq(DownItem))
  <1>1. /\ TypeOK /\ wire \in [Dir -> Seq(Seq(Item))] /\ wire["down"] \in Seq(Seq(DownItem))
        /\ Dir = {"up", "down"}
    BY DEF IInv, TypeOK, DownWF, Item, DownItem, Dir
  <1>2. ASSUME NEW d \in Dir, NEW ms, ms \in Seq(Seq(Item)),
               d = "down" => ms \in Seq(Seq(DownItem)), wire' = Written(d, ms)
        PROVE  wire' \in [Dir -> Seq(Seq(Item))] /\ wire'["down"] \in Seq(Seq(DownItem))
    <2>1. wire' \in [Dir -> Seq(Seq(Item))]
      BY <1>1, <1>2, WrittenTypes
    <2>2. d # "down" => wire'["down"] = wire["down"]
      BY <1>1, <1>2 DEF Written
    <2>3. d = "down" => wire'["down"] = wire["down"] \/ wire'["down"] = wire["down"] \o ms
      BY <1>1, <1>2 DEF Written
    <2>4. d = "down" => wire["down"] \o ms \in Seq(Seq(DownItem))
      BY <1>1, <1>2, JoinLength
    <2> QED
      BY <1>1, <2>1, <2>2, <2>3, <2>4
  <1>3. ASSUME NEW d \in Dir, NEW q \in Seq(Nat \cup {Fin}), wire' = Written(d, <<q>>)
        PROVE  wire' \in [Dir -> Seq(Seq(Item))] /\ wire'["down"] \in Seq(Seq(DownItem))
    <2>1. Nat \cup {Fin} \subseteq Item /\ Nat \cup {Fin} \subseteq DownItem
      BY DEF Item, DownItem
    <2>2. q \in Seq(Item) /\ q \in Seq(DownItem)
      BY <2>1, SeqMore
    <2>3. <<q>> \in Seq(Seq(Item)) /\ <<q>> \in Seq(Seq(DownItem))
      BY <2>2
    <2> QED
      BY <1>2, <1>3, <2>3
  <1>4. CASE OpenStream
    <2>1. wire' = [wire EXCEPT !["up"] =
                      @ \o <<<<Hdr>>>> \o (IF kind = "ws" THEN <<<<1>>>> ELSE <<>>)]
      BY <1>4 DEF OpenStream
    <2>2. /\ <<<<Hdr>>>> \in Seq(Seq(Item)) /\ <<<<1>>>> \in Seq(Seq(Item))
          /\ <<>> \in Seq(Seq(Item))
      BY DEF Item
    <2>3. wire["up"] \o <<<<Hdr>>>> \o (IF kind = "ws" THEN <<<<1>>>> ELSE <<>>)
             \in Seq(Seq(Item))
      BY <1>1, <2>2, JoinLength
    <2> QED
      BY <1>1, <2>1, <2>3
  <1>5. CASE SessionDies
    <2>1. wire' = [d \in Dir |-> <<>>]
      BY <1>5 DEF SessionDies
    <2>2. <<>> \in Seq(Seq(Item)) /\ <<>> \in Seq(Seq(DownItem))
      OBVIOUS
    <2> QED
      BY <1>1, <2>1, <2>2
  <1>6. ASSUME NEW d \in Dir, WSRead(d)
        PROVE  wire' \in [Dir -> Seq(Seq(Item))] /\ wire'["down"] \in Seq(Seq(DownItem))
    <2>1. \/ wire' = wire
          \/ wire[d] # <<>> /\ wire' = [wire EXCEPT ![d] = Tail(@)]
      BY <1>6 DEF WSRead
    <2>2. CASE wire[d] # <<>> /\ wire' = [wire EXCEPT ![d] = Tail(@)]
      <3>1. \A X : \A q \in Seq(X) : q # <<>> => Tail(q) \in Seq(X)
        OBVIOUS
      <3> QED
        BY <1>1, <2>2, <3>1
    <2> QED
      BY <1>1, <2>1, <2>2
  <1>7. ASSUME NEW d \in Dir, wire' = Written(d, <<<<Fin>>>>)
        PROVE  wire' \in [Dir -> Seq(Seq(Item))] /\ wire'["down"] \in Seq(Seq(DownItem))
    <2>1. <<Fin>> \in Seq(Nat \cup {Fin})
      OBVIOUS
    <2> QED
      BY <1>3, <1>7, <2>1
  <1>8. ASSUME NEW d \in Dir, NEW n \in Nat, n \in Chunks(in[d]),
               wire' = Written(d, <<SubSeq(in[d], 1, n)>>)
        PROVE  wire' \in [Dir -> Seq(Seq(Item))] /\ wire'["down"] \in Seq(Seq(DownItem))
    <2>1. SubSeq(in[d], 1, n) \in Seq(Nat \cup {Fin})
      BY <1>1, <1>8, Types, Chunk
    <2> QED
      BY <1>3, <1>8, <2>1
  <1>9. CASE wire' = Written("down", <<<<Refusal>>, <<Fin>>>>)
    <2>1. /\ <<<<Refusal>>, <<Fin>>>> \in Seq(Seq(Item))
          /\ <<<<Refusal>>, <<Fin>>>> \in Seq(Seq(DownItem))
      BY DEF Item, DownItem
    <2> QED
      BY <1>1, <1>2, <1>9, <2>1
  <1> QED
    BY <1>1, <1>4, <1>5, <1>6, <1>7, <1>8, <1>9, Writes

LEMMA BuffersNext ==
    ASSUME IInv, [Next]_vars
    PROVE  /\ rest' \in [Dir -> Seq(Item)] /\ rest'["down"] \in Seq(DownItem)
           /\ stream' \in [Dir -> Seq(Item)] /\ stream'["down"] \in Seq(DownItem)
  <1>1. /\ TypeOK /\ rest \in [Dir -> Seq(Item)] /\ rest["down"] \in Seq(DownItem)
        /\ stream \in [Dir -> Seq(Item)] /\ stream["down"] \in Seq(DownItem)
        /\ wire \in [Dir -> Seq(Seq(Item))] /\ wire["down"] \in Seq(Seq(DownItem))
        /\ Dir = {"up", "down"}
    BY DEF IInv, TypeOK, DownWF, Item, DownItem, Dir
  <1>2. ASSUME NEW d \in Dir, WSRead(d)
        PROVE  /\ rest' \in [Dir -> Seq(Item)] /\ rest'["down"] \in Seq(DownItem)
               /\ stream' \in [Dir -> Seq(Item)] /\ stream'["down"] \in Seq(DownItem)
    <2> DEFINE m == IF rest[d] # <<>> THEN rest[d] ELSE Head(wire[d])
    <2>1. rest[d] # <<>> \/ wire[d] # <<>>
      BY <1>2 DEF WSRead
    <2>2. PICK n \in 1..Len(m) :
              /\ stream' = [stream EXCEPT ![d] = @ \o SubSeq(m, 1, n)]
              /\ rest' = [rest EXCEPT ![d] = SubSeq(m, n + 1, Len(m))]
      BY <1>2 DEF WSRead
    <2>3. m \in Seq(Item) /\ (d = "down" => m \in Seq(DownItem))
      BY <1>1, <2>1
    <2> HIDE DEF m
    <2>4. n \in 0..Len(m)
      BY <2>3
    <2>5. /\ SubSeq(m, 1, n) \in Seq(Item) /\ SubSeq(m, n + 1, Len(m)) \in Seq(Item)
          /\ d = "down" => /\ SubSeq(m, 1, n) \in Seq(DownItem)
                           /\ SubSeq(m, n + 1, Len(m)) \in Seq(DownItem)
      BY <2>3, <2>4, Subsequence
    <2>6. /\ stream[d] \o SubSeq(m, 1, n) \in Seq(Item)
          /\ d = "down" => stream[d] \o SubSeq(m, 1, n) \in Seq(DownItem)
      BY <1>1, <2>5, JoinLength
    <2> QED
      BY <1>1, <2>2, <2>5, <2>6
  <1>3. ASSUME NEW d \in Dir, NEW n \in Chunks(stream[d]),
               stream' = [stream EXCEPT ![d] = SubSeq(@, n + 1, Len(@))]
        PROVE  stream' \in [Dir -> Seq(Item)] /\ stream'["down"] \in Seq(DownItem)
    <2>1. /\ SubSeq(stream[d], n + 1, Len(stream[d])) \in Seq(Item)
          /\ d = "down" => SubSeq(stream[d], n + 1, Len(stream[d])) \in Seq(DownItem)
      BY <1>1, Chunk
    <2> QED
      BY <1>1, <1>3, <2>1
  <1>4. rest' \in [Dir -> Seq(Item)] /\ rest'["down"] \in Seq(DownItem)
    <2>1. CASE SessionDies
      <3>1. rest' = [d \in Dir |-> <<>>]
        BY <2>1 DEF SessionDies
      <3> QED
        BY <1>1, <3>1
    <2> QED
      BY <1>1, <1>2, <2>1, Moves
  <1>5. stream' \in [Dir -> Seq(Item)] /\ stream'["down"] \in Seq(DownItem)
    <2>1. CASE RelayResponse
      BY <1>1, <1>3, <2>1 DEF RelayResponse
    <2>2. CASE \E d \in Dir : CopyOut(d)
      BY <1>3, <2>2 DEF CopyOut
    <2>3. CASE ReadHeader
      <3>1. stream' = [stream EXCEPT !["up"] = Tail(@)] /\ stream["up"] # <<>>
        BY <2>3 DEF ReadHeader, HasData
      <3>2. Tail(stream["up"]) \in Seq(Item)
        BY <1>1, <3>1
      <3> QED
        BY <1>1, <3>1, <3>2
    <2> QED
      BY <1>1, <1>2, <2>1, <2>2, <2>3, Moves
  <1> QED
    BY <1>4, <1>5

LEMMA InNext ==
    ASSUME IInv, [Next]_vars
    PROVE  in' \in [Dir -> Seq(Nat \cup {Fin})]
  <1>1. TypeOK /\ in \in [Dir -> Seq(Nat \cup {Fin})] /\ sent \in [Dir -> Nat]
    BY DEF IInv, TypeOK
  <1>2. ASSUME NEW d \in Dir, NEW q \in Seq(Nat \cup {Fin}), in' = [in EXCEPT ![d] = q]
        PROVE  in' \in [Dir -> Seq(Nat \cup {Fin})]
    BY <1>1, <1>2
  <1>3. ASSUME NEW d \in Dir, NEW n \in Chunks(in[d]),
               in' = [in EXCEPT ![d] = SubSeq(@, n + 1, Len(@))]
        PROVE  in' \in [Dir -> Seq(Nat \cup {Fin})]
    <2>1. SubSeq(in[d], n + 1, Len(in[d])) \in Seq(Nat \cup {Fin})
      BY <1>1, Chunk
    <2> QED
      BY <1>2, <1>3, <2>1
  <1>4. CASE OpenStream
    <2>1. /\ in' = in \/ (in' = [in EXCEPT !["up"] = Tail(@)] /\ kind = "ws")
          /\ handler.server = "new"
      BY <1>4 DEF OpenStream
    <2>2. kind = "ws" => in["up"] # <<>>
      BY <2>1 DEF IInv, ServerNewWF
    <2>3. kind = "ws" => Tail(in["up"]) \in Seq(Nat \cup {Fin})
      BY <1>1, <2>2, Ends
    <2> QED
      BY <1>1, <2>1, <2>3, Ends
  <1>5. CASE SendRequest
    BY <1>3, <1>5, Ends DEF SendRequest
  <1>6. CASE \E d \in Dir : CopyIn(d)
    BY <1>3, <1>6 DEF CopyIn
  <1>7. ASSUME NEW d \in Dir, Send(d) \/ Shut(d)
        PROVE  in' \in [Dir -> Seq(Nat \cup {Fin})]
    <2>1. in' = [in EXCEPT ![d] = Append(@, sent[d] + 1)] \/ in' = [in EXCEPT ![d] = Append(@, Fin)]
      BY <1>7 DEF Send, Shut
    <2>2. /\ Append(in[d], sent[d] + 1) \in Seq(Nat \cup {Fin})
          /\ Append(in[d], Fin) \in Seq(Nat \cup {Fin})
      BY <1>1
    <2> QED
      BY <1>1, <2>1, <2>2
  <1>8. ASSUME NEW d \in Dir, Leave(d)
        PROVE  in' \in [Dir -> Seq(Nat \cup {Fin})]
    <2>1. PICK q \in AfterClose(in[d], HasData(out[Other(d)])) : in' = [in EXCEPT ![d] = q]
      BY <1>8 DEF Leave
    <2>2. q \in Seq(Nat \cup {Fin})
      BY <1>1, <2>1, ClosedTypes
    <2> QED
      BY <1>2, <2>1, <2>2
  <1> QED
    BY <1>1, <1>4, <1>5, <1>6, <1>7, <1>8, Moves

\* The header never reaches a socket.
LEMMA NoHeader ==
    ASSUME TypeOK, NEW d \in Dir, NEW q \in Seq(Item), NEW a \in Nat, a > 0,
           Fits(Content(d), q, a)
    PROVE  q \in Seq(DownItem)
  <1> DEFINE c == Content(d)
  <1>1. \A k \in DOMAIN c : k > 0 => c[k] \in DownItem
    BY DEF Content, DownItem
  <1>2. Fits(c, q, a)
    OBVIOUS
  <1> HIDE DEF c
  <1>3. Fin \in DownItem
    BY DEF DownItem
  <1>4. ASSUME NEW i \in 1..Len(q)
        PROVE  q[i] \in DownItem
    <2>1. i \in DOMAIN q /\ a + i - 1 > 0
      OBVIOUS
    <2> QED
      BY <1>1, <1>2, <1>3, <2>1 DEF Fits
  <1>5. q = [i \in 1..Len(q) |-> q[i]] /\ Len(q) \in Nat
    OBVIOUS
  <1> QED
    BY <1>4, <1>5

LEMMA OutNext ==
    ASSUME IInv, [Next]_vars
    PROVE  out' \in [Dir -> Seq(DownItem)]
  <1>1. /\ TypeOK /\ out \in [Dir -> Seq(DownItem)] /\ Fin \in DownItem /\ Refusal \in DownItem
        /\ stream["down"] \in Seq(DownItem)
    BY DEF IInv, TypeOK, DownWF, DownItem
  <1>2. ASSUME NEW d \in Dir, NEW q \in Seq(DownItem), NEW u, NEW r \in AfterClose(q, u),
               out' = [out EXCEPT ![d] = r]
        PROVE  out' \in [Dir -> Seq(DownItem)]
    <2>1. r \in Seq(DownItem)
      BY <1>1, ClosedTypes
    <2> QED
      BY <1>1, <1>2, <2>1
  <1>3. ASSUME NEW q \in Seq(DownItem), ServerCloses(q)
        PROVE  out' \in [Dir -> Seq(DownItem)]
    <2>1. PICK r \in AfterClose(out["down"] \o q, kind # "http" /\ in["up"] # <<>>) :
              out' = [out EXCEPT !["down"] = r]
      BY <1>3 DEF ServerCloses
    <2>2. out["down"] \o q \in Seq(DownItem)
      BY <1>1, Ends, JoinLength
    <2> QED
      BY <1>2, <2>1, <2>2, Ends
  <1>4. ErrorAnswer \in Seq(DownItem)
    <2>1. <<Refusal>> \in Seq(DownItem) /\ <<>> \in Seq(DownItem)
      BY <1>1
    <2> QED
      BY <2>1 DEF ErrorAnswer
  <1>5. CASE OpenFails \/ SendRequestFails \/ RelayResponseFails
    BY <1>3, <1>4, <1>5 DEF OpenFails, SendRequestFails, RelayResponseFails
  <1>6. CASE ServerPipeEnds
    <2>1. <<>> \in Seq(DownItem)
      OBVIOUS
    <2> QED
      BY <1>3, <1>6, <2>1 DEF ServerPipeEnds
  <1>7. ASSUME NEW d \in Dir, NEW q, peer[Dest(d)] # "gone" => q \in Seq(DownItem),
               out' = Delivered(d, q)
        PROVE  out' \in [Dir -> Seq(DownItem)]
    <2>1. peer[Dest(d)] # "gone" => out[d] \o q \in Seq(DownItem)
      BY <1>1, <1>7, JoinLength
    <2> QED
      BY <1>1, <1>7, <2>1 DEF Delivered
  <1>8. CASE RelayResponse
    <2>1. PICK n \in Chunks(stream["down"]) :
              \/ ServerCloses(SubSeq(stream["down"], 1, n))
              \/ out' = Delivered("down", SubSeq(stream["down"], 1, n))
      BY <1>8 DEF RelayResponse
    <2>2. SubSeq(stream["down"], 1, n) \in Seq(DownItem)
      BY <1>1, Chunk
    <2> QED
      BY <1>3, <1>7, <2>1, <2>2, Ends
  <1>9. CASE ClientPipeEnds
    <2>1. PICK r \in AfterClose(out["up"], in["down"] # <<>>) : out' = [out EXCEPT !["up"] = r]
      BY <1>9 DEF ClientPipeEnds, LocalClosed
    <2> QED
      BY <1>1, <1>2, <2>1, Ends
  <1>10. ASSUME NEW d \in Dir, CopyOut(d)
         PROVE  out' \in [Dir -> Seq(DownItem)]
    <2>1. PICK n \in Chunks(stream[d]) : out' = Delivered(d, SubSeq(stream[d], 1, n))
      BY <1>10 DEF CopyOut
    <2>2. CASE d = "down"
      <3>1. SubSeq(stream[d], 1, n) \in Seq(DownItem)
        BY <1>1, <2>2, Chunk
      <3> QED
        BY <1>7, <2>1, <3>1
    <2>3. CASE d = "up" /\ peer[Dest(d)] # "gone"
      <3>1. handler[Writer(d)] # "closed" /\ handler.client # "new"
        BY <1>10, <2>3, Ends DEF CopyOut, IInv, ClientNewWF
      <3>2. Fits(Content(d), stream[d], NextOut(d))
        BY <2>3, <3>1 DEF IInv, InOrder, StreamFits
      <3>3. NextOut(d) \in Nat /\ NextOut(d) > 0
        <4>1. NextOut(d) = Len(got[d]) + Len(out[d]) + 1
          BY <3>1 DEF NextOut
        <4>2. Len(got[d]) \in Nat /\ Len(out[d]) \in Nat
          BY <1>1, Numbers
        <4>3. \A x, y \in Nat : x + y + 1 \in Nat /\ x + y + 1 > 0
          OBVIOUS
        <4> QED
          BY <4>1, <4>2, <4>3, Zenon
      <3>4. stream[d] \in Seq(Item)
        BY <1>1, Types
      <3>5. stream[d] \in Seq(DownItem)
        BY <1>1, <3>2, <3>3, <3>4, NoHeader
      <3>6. SubSeq(stream[d], 1, n) \in Seq(DownItem)
        BY <3>5, Chunk
      <3> QED
        BY <1>7, <2>1, <3>6
    <2> QED
      BY <1>7, <2>1, <2>2, <2>3, Ends
  <1>11. ASSUME NEW d \in Dir, Receive(d)
         PROVE  out' \in [Dir -> Seq(DownItem)]
    <2>1. out' = [out EXCEPT ![d] = Tail(@)] /\ out[d] # <<>>
      BY <1>11 DEF Receive, HasData
    <2>2. Tail(out[d]) \in Seq(DownItem)
      BY <1>1, <2>1
    <2> QED
      BY <1>1, <2>1, <2>2
  <1> QED
    BY <1>1, <1>5, <1>6, <1>8, <1>9, <1>10, <1>11, Moves

LEMMA EndsNext ==
    ASSUME IInv, [Next]_vars
    PROVE  /\ into' \in [Dir -> {"off", "on", "done"}]
           /\ outof' \in [Dir -> {"off", "on", "done"}]
           /\ sent' \in [Dir -> Nat] /\ \A d \in Dir : sent'[d] <= Pieces[kind][d]
           /\ got' \in [Dir -> Seq(Nat \cup {Refusal})]
           /\ over' \in [Dir -> BOOLEAN]
           /\ peer' \in [public : {"open", "shut", "gone"},
                         local : {"absent", "open", "shut", "gone"}]
           /\ dead' \in BOOLEAN
  <1>1. TypeOK
    BY DEF IInv
  <1>2. into' \in [Dir -> {"off", "on", "done"}]
    BY <1>1, Moves, Ends, SMTT(30) DEF TypeOK, OpenStream, Dial, CopyInEnds
  <1>3. outof' \in [Dir -> {"off", "on", "done"}]
    BY <1>1, Moves, Ends, SMTT(30) DEF TypeOK, OpenStream, Dial, CopyOutEnds
  <1>4. sent' \in [Dir -> Nat] /\ \A d \in Dir : sent'[d] <= Pieces[kind][d]
    <2>1. sent \in [Dir -> Nat] /\ \A d \in Dir : sent[d] <= Pieces[kind][d]
      BY <1>1 DEF TypeOK, Total
    <2>2. ASSUME NEW d \in Dir, Send(d)
          PROVE  sent' \in [Dir -> Nat] /\ \A e \in Dir : sent'[e] <= Pieces[kind][e]
      <3>1. sent' = [sent EXCEPT ![d] = @ + 1] /\ sent[d] < Pieces[kind][d]
        BY <2>2 DEF Send, Total
      <3>2. Pieces[kind][d] \in Nat
        BY <1>1, PiecesAssumption DEF TypeOK
      <3>3. \A x, y \in Nat : x < y => x + 1 <= y /\ x + 1 \in Nat
        OBVIOUS
      <3>4. sent[d] + 1 <= Pieces[kind][d] /\ sent[d] + 1 \in Nat
        BY <2>1, <3>1, <3>2, <3>3, Zenon
      <3> QED
        BY <2>1, <3>1, <3>4
    <2> QED
      BY <2>1, <2>2, Moves
  <1>5. got' \in [Dir -> Seq(Nat \cup {Refusal})]
    <2>1. ASSUME NEW d \in Dir, Receive(d)
          PROVE  got' \in [Dir -> Seq(Nat \cup {Refusal})]
      <3>1. /\ got' = [got EXCEPT ![d] = Append(@, Head(out[d]))]
            /\ out[d] # <<>> /\ Head(out[d]) # Fin
        BY <2>1 DEF Receive, HasData
      <3>2. out[d] \in Seq(Nat \cup {Refusal, Fin}) /\ got[d] \in Seq(Nat \cup {Refusal})
        BY <1>1, Types
      <3>3. Head(out[d]) \in Nat \cup {Refusal}
        BY <3>1, <3>2
      <3>4. Append(got[d], Head(out[d])) \in Seq(Nat \cup {Refusal})
        BY <3>2, <3>3
      <3> QED
        BY <1>1, <3>1, <3>4 DEF TypeOK
    <2> QED
      BY <1>1, <2>1, Moves DEF TypeOK
  <1>6. over' \in [Dir -> BOOLEAN] /\ dead' \in BOOLEAN
    BY <1>1, Moves DEF TypeOK, ReceiveEnd, SessionDies
  <1>7. peer' \in [public : {"open", "shut", "gone"}, local : {"absent", "open", "shut", "gone"}]
    <2>1. CASE Dial
      BY <1>1, <2>1 DEF TypeOK, Dial
    <2>2. CASE \E d \in Dir : Shut(d) \/ Leave(d)
      BY <1>1, <2>2, Ends, SMTT(30) DEF TypeOK, Shut, Leave
    <2> QED
      BY <1>1, <2>1, <2>2, Moves DEF TypeOK
  <1> QED
    BY <1>2, <1>3, <1>4, <1>5, <1>6, <1>7

LEMMA TypeNext ==
    ASSUME IInv, [Next]_vars
    PROVE  TypeOK' /\ DownWF'
  <1>1. kind' = kind /\ kind \in Kind
    BY Moves DEF IInv, TypeOK
  <1>2. handler' \in [server : {"new", "request", "response", "pipe", "closed"},
                      client : {"new", "dial", "pipe", "closed"}]
    BY HandlerNext DEF IInv
  <1>3. \A d \in Dir : Total(d)' = Pieces[kind][d]
    BY <1>1 DEF Total
  <1> QED
    BY <1>1, <1>2, <1>3, WireNext, BuffersNext, InNext, OutNext, EndsNext
       DEF TypeOK, DownWF, Item, DownItem

-----------------------------------------------------------------------------
(* Every step keeps the rest of the invariant *)

\* A handler does not go back.
LEMMA Onward ==
    ASSUME TypeOK, [Next]_vars
    PROVE  /\ handler'.server = "new" => handler.server = "new" /\ handler' = [handler EXCEPT !.client = handler'.client]
           /\ handler'.client = "new" => handler.client = "new"
           /\ handler'.client = "dial" => handler.client \in {"new", "dial"}
           /\ handler.server = "closed" => handler'.server = "closed"
           /\ handler.client = "closed" => handler'.client = "closed"
           /\ handler'.client = "pipe" => handler.client = "pipe" \/ Dial
  <1>1. CASE OpenStream \/ OpenFails \/ ServerPipeEnds \/ SendRequest \/ SendRequestFails
    BY <1>1 DEF OpenStream, OpenFails, ServerPipeEnds, SendRequest, SendRequestFails,
                ServerCloses, TypeOK
  <1>2. CASE RelayResponse \/ RelayResponseFails
    BY <1>2 DEF RelayResponse, RelayResponseFails, ServerCloses, TypeOK
  <1>3. CASE ReadHeader \/ ReadHeaderFails \/ Dial \/ DialFails \/ ClientPipeEnds
    BY <1>3 DEF ReadHeader, ReadHeaderFails, Dial, DialFails, ClientPipeEnds, TypeOK
  <1>4. CASE UNCHANGED handler
    BY <1>4 DEF TypeOK
  <1> QED
    BY <1>1, <1>2, <1>3, <1>4, Moves

\* An empty direction that nobody writes to stays empty.
LEMMA EmptyNext ==
    ASSUME TypeOK, NEW d \in Dir, Empty(d), [Next]_vars, into[d] # "on",
           d = "up" => handler.server = "new" /\ handler'.server = "new",
           d = "down" => handler.client \in {"new", "dial"} /\ handler'.client \in {"new", "dial"}
    PROVE  Empty(d)'
  <1>1. Dir = {"up", "down"} /\ stream[d] = <<>> /\ rest[d] = <<>> /\ wire[d] = <<>>
    BY Ends DEF Empty
  <1>2. ASSUME NEW e \in Dir, WSRead(e)
        PROVE  stream'[d] = <<>> /\ rest'[d] = <<>> /\ wire'[d] = <<>>
    <2>1. e # d
      BY <1>1, <1>2 DEF WSRead
    <2> QED
      BY <1>1, <1>2, <2>1 DEF WSRead, TypeOK
  <1>3. stream'[d] = <<>>
    <2>1. CASE RelayResponse \/ ReadHeader
      BY <1>1, <2>1 DEF RelayResponse, ReadHeader, HasData, TypeOK
    <2>2. CASE \E e \in Dir : CopyOut(e)
      BY <1>1, <2>2 DEF CopyOut, HasData, TypeOK
    <2> QED
      BY <1>1, <1>2, <2>1, <2>2, Moves
  <1>4. rest'[d] = <<>>
    <2>1. CASE SessionDies
      BY <2>1 DEF SessionDies
    <2> QED
      BY <1>1, <1>2, <2>1, Moves
  <1>5. wire'[d] = <<>>
    <2>1. CASE SessionDies
      BY <2>1 DEF SessionDies
    <2>2. CASE OpenStream \/ ServerPipeEnds \/ SendRequest \/ SendRequestFails
      <3>1. d = "down"
        BY <1>1, <2>2 DEF OpenStream, ServerPipeEnds, SendRequest, SendRequestFails,
                         ServerCloses, TypeOK
      <3>2. \E ms : wire' = [wire EXCEPT !["up"] = ms] \/ wire' = Written("up", ms)
        BY <2>2 DEF OpenStream, ServerPipeEnds, SendRequest, SendRequestFails, CloseStream
      <3> QED
        BY <1>1, <3>1, <3>2 DEF Written, TypeOK
    <2>3. CASE RelayResponse \/ RelayResponseFails
      <3>1. d = "down"
        BY <1>1, <2>3 DEF RelayResponse, RelayResponseFails
      <3>2. wire' = wire \/ wire' = Written("up", <<<<Fin>>>>)
        BY <2>3 DEF RelayResponse, RelayResponseFails, CloseStream
      <3> QED
        BY <1>1, <3>1, <3>2 DEF Written, TypeOK
    <2>4. CASE ReadHeaderFails \/ DialFails \/ ClientPipeEnds
      <3>1. d = "up"
        BY <1>1, <2>4 DEF ReadHeaderFails, DialFails, ClientPipeEnds, TypeOK
      <3>2. \E ms : wire' = Written("down", ms)
        BY <2>4 DEF ReadHeaderFails, DialFails, ClientPipeEnds, CloseStream
      <3> QED
        BY <1>1, <3>1, <3>2 DEF Written, TypeOK
    <2>5. ASSUME NEW e \in Dir, CopyIn(e)
          PROVE  wire'[d] = <<>>
      <3>1. e # d
        BY <2>5 DEF CopyIn
      <3>2. \E ms : wire' = Written(e, ms)
        BY <2>5 DEF CopyIn
      <3> QED
        BY <1>1, <3>1, <3>2 DEF Written, TypeOK
    <2> QED
      BY <1>1, <1>2, <2>1, <2>2, <2>3, <2>4, <2>5, Moves
  <1> QED
    BY <1>3, <1>4, <1>5 DEF Empty

LEMMA ServerNewNext ==
    ASSUME IInv, [Next]_vars
    PROVE  ServerNewWF'
  <1> SUFFICES ASSUME handler'.server = "new"
               PROVE  /\ Empty("up")' /\ into'["up"] = "off" /\ outof'["down"] = "off"
                      /\ out'["down"] = <<>> /\ got'["down"] = <<>>
                      /\ handler'.client \in {"new", "closed"}
                      /\ kind' # "tcp" => in'["up"] # <<>> /\ sent'["up"] > 0
    BY DEF ServerNewWF
  <1>1. /\ TypeOK /\ handler.server = "new" /\ Dir = {"up", "down"}
        /\ Empty("up") /\ into["up"] = "off" /\ outof["down"] = "off"
        /\ out["down"] = <<>> /\ got["down"] = <<>>
        /\ handler.client \in {"new", "closed"}
        /\ kind # "tcp" => in["up"] # <<>> /\ sent["up"] > 0
    BY Onward, Ends DEF IInv, ServerNewWF
  <1>2. Empty("up")'
    BY <1>1, EmptyNext
  <1>3. ~OpenStream /\ ~OpenFails
    BY <1>1 DEF OpenStream, OpenFails, ServerCloses, TypeOK
  <1>4. ~ServerPipeEnds /\ ~SendRequest /\ ~SendRequestFails /\ ~RelayResponse /\ ~RelayResponseFails
    BY <1>1 DEF ServerPipeEnds, SendRequest, SendRequestFails, RelayResponse, RelayResponseFails
  <1>5. ~Dial /\ ~DialFails /\ ~ClientPipeEnds
    BY <1>1 DEF Dial, DialFails, ClientPipeEnds
  <1>6. ~ReadHeader
    BY <1>1 DEF ReadHeader, HasData, Empty
  <1>7. into'["up"] = "off" /\ outof'["down"] = "off"
    BY <1>1, <1>3, <1>5, Moves, SMTT(30) DEF CopyInEnds, CopyOutEnds, TypeOK
  <1>8. out'["down"] = <<>> /\ got'["down"] = <<>>
    <2>1. ASSUME NEW d \in Dir, CopyOut(d)
          PROVE  out'["down"] = <<>>
      <3>1. d # "down"
        BY <1>1, <2>1 DEF CopyOut
      <3>2. \E x : out' = Delivered(d, x)
        BY <2>1 DEF CopyOut
      <3> QED
        BY <1>1, <3>1, <3>2 DEF Delivered, TypeOK
    <2>2. ASSUME NEW d \in Dir, Receive(d)
          PROVE  out'["down"] = <<>> /\ got'["down"] = <<>>
      <3>1. d # "down"
        BY <1>1, <2>2 DEF Receive, HasData
      <3> QED
        BY <1>1, <2>2, <3>1 DEF Receive, TypeOK
    <2> QED
      BY <1>1, <1>3, <1>4, <1>5, <2>1, <2>2, Moves
  <1>9. handler'.client \in {"new", "closed"}
    <2>1. CASE ReadHeaderFails
      BY <1>1, <2>1 DEF ReadHeaderFails, TypeOK
    <2> QED
      BY <1>1, <1>3, <1>4, <1>5, <1>6, <2>1, Moves
  <1>10. ASSUME kind' # "tcp"
         PROVE  in'["up"] # <<>> /\ sent'["up"] > 0
    <2>1. kind # "tcp" /\ in["up"] # <<>> /\ sent["up"] > 0 /\ sent["up"] \in Nat
      BY <1>1, <1>10, Moves DEF TypeOK
    <2>2. in["up"] \in Seq(Item)
      BY <1>1, Types
    <2>3. ASSUME NEW x PROVE Append(in["up"], x) # <<>>
      BY <2>2
    <2>4. ASSUME NEW d \in Dir, Send(d) \/ Shut(d)
          PROVE  in'["up"] # <<>> /\ sent'["up"] > 0
      <3>1. \E x : in' = [in EXCEPT ![d] = Append(@, x)]
        BY <2>4 DEF Send, Shut
      <3>2. in'["up"] # <<>>
        BY <1>1, <2>1, <2>3, <3>1, SMTT(30) DEF TypeOK
      <3>3. sent' = sent \/ sent' = [sent EXCEPT ![d] = @ + 1]
        BY <2>4 DEF Send, Shut
      <3>4. \A x \in Nat : x + 1 > 0
        OBVIOUS
      <3> QED
        BY <1>1, <2>1, <3>2, <3>3, <3>4 DEF TypeOK
    <2>5. CASE \E d \in Dir : Leave(d)
      <3>1. PICK d \in Dir : Leave(d)
        BY <2>5
      <3>2. PICK q \in AfterClose(in[d], HasData(out[Other(d)])) : in' = [in EXCEPT ![d] = q]
        BY <3>1 DEF Leave
      <3>3. d = "up" => q # <<>>
        <4>1. q \in {in[d], Append(in[d], Fin), <<Fin>>}
          BY <3>2 DEF AfterClose
        <4>2. <<Fin>> # <<>>
          OBVIOUS
        <4> QED
          BY <2>1, <2>3, <4>1, <4>2
      <3>4. sent' = sent
        BY <3>1 DEF Leave
      <3> QED
        BY <1>1, <2>1, <3>2, <3>3, <3>4 DEF TypeOK
    <2>6. CASE \E d \in Dir : CopyIn(d)
      BY <1>1, <2>1, <2>6 DEF CopyIn, ends, TypeOK
    <2> QED
      BY <1>1, <1>3, <1>4, <2>1, <2>4, <2>5, <2>6, Moves
  <1> QED
    BY <1>2, <1>7, <1>8, <1>9, <1>10

\* A server that closes before it has handed anything on.
LEMMA FirstAnswer ==
    ASSUME TypeOK, out["down"] = <<>>, NEW a \in {<<>>, <<Refusal>>}, ServerCloses(a)
    PROVE  out'["down"] \in {<<Fin>>, <<Refusal, Fin>>} /\ handler'.server = "closed"
  <1>1. PICK u : out'["down"] \in AfterClose(<<>> \o a, u)
    BY Ends DEF ServerCloses, TypeOK
  <1>2. <<>> \o a = a
    OBVIOUS
  <1>3. Append(<<Refusal>>, Fin) = <<Refusal, Fin>> /\ Append(<<>>, Fin) = <<Fin>>
    BY TwoPieces
  <1>4. Fin \notin ToSet(<<Refusal>>) /\ Fin \notin ToSet(<<>>)
    BY MarkAssumption DEF ToSet
  <1>5. out'["down"] \in {<<Fin>>, <<Refusal, Fin>>}
    BY <1>1, <1>2, <1>3, <1>4 DEF AfterClose
  <1>6. handler'.server = "closed"
    BY DEF ServerCloses, TypeOK
  <1> QED
    BY <1>5, <1>6

LEMMA OwnAnswerNext ==
    ASSUME TypeOK, OwnAnswer, [Next]_vars
    PROVE  OwnAnswer'
  <1>1. handler.server = "closed" /\ handler'.server = "closed" /\ Dir = {"up", "down"}
    BY Onward, Ends DEF OwnAnswer
  <1>2. /\ ~OpenStream /\ ~OpenFails /\ ~ServerPipeEnds /\ ~SendRequestFails
        /\ ~RelayResponse /\ ~RelayResponseFails
    BY <1>1 DEF OpenStream, OpenFails, ServerPipeEnds, SendRequestFails, RelayResponse,
                RelayResponseFails
  <1>3. CASE \E d \in Dir : Receive(d)
    <2>1. PICK d \in Dir : Receive(d)
      BY <1>3
    <2>2. CASE d = "up"
      BY <1>1, <2>1, <2>2 DEF Receive, OwnAnswer, TypeOK
    <2>3. CASE d = "down"
      <3>1. /\ HasData(out["down"]) /\ out'["down"] = Tail(out["down"])
            /\ got'["down"] = Append(got["down"], Head(out["down"]))
        BY <1>1, <2>1, <2>3 DEF Receive, TypeOK
      <3>2. Head(<<Fin>>) = Fin /\ Head(<<Refusal, Fin>>) = Refusal
        OBVIOUS
      <3>3. Tail(<<Refusal, Fin>>) = <<Fin>> /\ Append(<<>>, Refusal) = <<Refusal>>
        OBVIOUS
      <3>4. got["down"] = <<>> /\ out["down"] = <<Refusal, Fin>>
        BY <3>1, <3>2 DEF HasData, OwnAnswer
      <3> QED
        BY <1>1, <3>1, <3>2, <3>3, <3>4 DEF OwnAnswer
    <2> QED
      BY <1>1, <2>1, <2>2, <2>3
  <1>4. CASE got' = got
    <2>1. out'["down"] = out["down"]
      <3>1. CASE ClientPipeEnds
        BY <1>1, <3>1 DEF ClientPipeEnds, LocalClosed, TypeOK
      <3>2. ASSUME NEW d \in Dir, CopyOut(d)
            PROVE  out'["down"] = out["down"]
        <4>1. d # "down"
          BY <1>1, <3>2, Ends DEF CopyOut
        <4>2. \E x : out' = Delivered(d, x)
          BY <3>2 DEF CopyOut
        <4> QED
          BY <1>1, <4>1, <4>2 DEF Delivered, TypeOK
      <3>3. ASSUME NEW d \in Dir, Receive(d)
            PROVE  out'["down"] = out["down"]
        <4>1. got'[d] = Append(got[d], Head(out[d])) /\ got[d] \in Seq(Item)
          BY <3>3, Types DEF Receive, TypeOK
        <4>2. \A q \in Seq(Item) : \A x : Append(q, x) # q
          <5>1. \A q \in Seq(Item) : \A x : Len(Append(q, x)) = Len(q) + 1 /\ Len(q) \in Nat
            OBVIOUS
          <5>2. \A k \in Nat : k + 1 # k
            OBVIOUS
          <5> QED
            BY <5>1, <5>2
        <4> QED
          BY <1>4, <4>1, <4>2
      <3> QED
        BY <1>2, <3>1, <3>2, <3>3, Moves
    <2> QED
      BY <1>1, <1>4, <2>1 DEF OwnAnswer
  <1> QED
    BY <1>3, <1>4, Moves

LEMMA ClientNewNext ==
    ASSUME IInv, [Next]_vars
    PROVE  ClientNewWF'
  <1> SUFFICES ASSUME handler'.client \in {"new", "dial"}
               PROVE  /\ Empty("down")' /\ into'["down"] = "off" /\ outof'["up"] = "off"
                      /\ out'["up"] = <<>> /\ got'["up"] = <<>> /\ peer'.local = "absent"
                      /\ \/ got'["down"] = <<>> /\ out'["down"] = <<>>
                         \/ /\ handler'.server = "closed"
                            /\ got'["down"] = <<>> /\ out'["down"] = <<Fin>>
                         \/ OwnAnswer'
    BY DEF ClientNewWF
  <1>1. /\ TypeOK /\ handler.client \in {"new", "dial"} /\ Dir = {"up", "down"}
        /\ Empty("down") /\ into["down"] = "off" /\ outof["up"] = "off"
        /\ out["up"] = <<>> /\ got["up"] = <<>> /\ peer.local = "absent"
        /\ \/ got["down"] = <<>> /\ out["down"] = <<>>
           \/ handler.server = "closed" /\ got["down"] = <<>> /\ out["down"] = <<Fin>>
           \/ OwnAnswer
    BY Onward, Ends DEF IInv, ClientNewWF
  <1>2. Empty("down")'
    BY <1>1, EmptyNext
  <1>3. ~Dial /\ ~ClientPipeEnds
    BY <1>1 DEF Dial, ClientPipeEnds, TypeOK
  <1>4. stream["down"] = <<>>
    BY <1>1 DEF Empty
  <1>5. ~RelayResponse /\ ~CopyOut("down") /\ ~CopyOut("up") /\ ~Receive("up")
    BY <1>1, <1>4 DEF RelayResponse, CopyOut, HasData, Receive
  <1>6. into'["down"] = "off"
    BY <1>1, <1>3, Moves, SMTT(30) DEF CopyInEnds, OpenStream, TypeOK
  <1>7. outof'["up"] = "off"
    BY <1>1, <1>3, Moves, SMTT(30) DEF CopyOutEnds, OpenStream, TypeOK
  <1>8. out'["up"] = <<>> /\ got'["up"] = <<>>
    <2>1. CASE OpenFails \/ ServerPipeEnds \/ SendRequestFails \/ RelayResponseFails
      BY <1>1, <2>1, ServerCloseFrame DEF ends
    <2>2. CASE Receive("down")
      BY <1>1, <2>2 DEF Receive, TypeOK
    <2> QED
      BY <1>1, <1>3, <1>5, <2>1, <2>2, Moves
  <1>9. peer'.local = "absent"
    BY <1>1, <1>3, Moves, Ends DEF Shut, Leave, TypeOK
  <1>10. \/ got'["down"] = <<>> /\ out'["down"] = <<>>
         \/ /\ handler'.server = "closed"
            /\ got'["down"] = <<>> /\ out'["down"] = <<Fin>>
         \/ OwnAnswer'
    <2>1. CASE OwnAnswer
      BY <1>1, <2>1, OwnAnswerNext
    <2>2. CASE handler.server = "closed" /\ got["down"] = <<>> /\ out["down"] = <<Fin>>
      <3>1. ~OpenFails /\ ~ServerPipeEnds /\ ~SendRequestFails /\ ~RelayResponseFails
        BY <2>2 DEF OpenFails, ServerPipeEnds, SendRequestFails, RelayResponseFails
      <3>2. ~Receive("down")
        <4>1. Head(<<Fin>>) = Fin
          OBVIOUS
        <4> QED
          BY <2>2, <4>1 DEF Receive, HasData
      <3> QED
        BY <1>1, <1>3, <1>5, <2>2, <3>1, <3>2, Moves, Onward
    <2>3. CASE got["down"] = <<>> /\ out["down"] = <<>>
      <3>1. CASE OpenFails \/ ServerPipeEnds \/ SendRequestFails \/ RelayResponseFails
        <4>1. \E a \in {<<>>, <<Refusal>>} : ServerCloses(a)
          BY <3>1 DEF OpenFails, ServerPipeEnds, SendRequestFails, RelayResponseFails, ErrorAnswer
        <4>2. out'["down"] \in {<<Fin>>, <<Refusal, Fin>>} /\ handler'.server = "closed"
          BY <1>1, <2>3, <4>1, FirstAnswer
        <4>3. got' = got
          BY <1>1, <3>1, ServerCloseFrame DEF ends
        <4> QED
          BY <2>3, <4>2, <4>3 DEF OwnAnswer
      <3>2. ~Receive("down")
        BY <2>3 DEF Receive, HasData
      <3> QED
        BY <1>1, <1>3, <1>5, <2>3, <3>1, <3>2, Moves
    <2> QED
      BY <1>1, <2>1, <2>2, <2>3
  <1> QED
    BY <1>2, <1>6, <1>7, <1>8, <1>9, <1>10

LEMMA AbsentNext ==
    ASSUME IInv, [Next]_vars
    PROVE  AbsentWF'
  <1> SUFFICES ASSUME peer'.local = "absent"
               PROVE  in'["down"] = <<>> /\ sent'["down"] = 0 /\ handler'.client # "pipe"
    BY DEF AbsentWF
  <1>1. TypeOK /\ Dir = {"up", "down"}
    BY Ends DEF IInv
  <1>2. ~Dial
    BY <1>1 DEF Dial, TypeOK
  <1>3. peer.local = "absent"
    BY <1>1, <1>2, Moves, Ends, SMTT(30) DEF Shut, Leave, TypeOK
  <1>4. in["down"] = <<>> /\ sent["down"] = 0 /\ handler.client # "pipe"
    BY <1>3 DEF IInv, AbsentWF
  <1>5. sent'["down"] = 0
    BY <1>1, <1>3, <1>4, Moves, Ends DEF Send, TypeOK
  <1>6. handler'.client # "pipe"
    BY <1>1, <1>2, <1>4, Onward
  <1>7. in'["down"] = <<>>
    <2>1. ~CopyIn("down") /\ ~Send("down") /\ ~Shut("down") /\ ~Leave("down")
      BY <1>3, <1>4, Ends DEF CopyIn, HasData, Send, Shut, Leave
    <2>2. CASE OpenStream \/ SendRequest \/ CopyIn("up")
      BY <1>1, <1>4, <2>2 DEF OpenStream, SendRequest, CopyIn, TypeOK
    <2>3. CASE Send("up") \/ Shut("up") \/ Leave("up")
      <3>1. \E q : in' = [in EXCEPT !["up"] = q]
        BY <2>3 DEF Send, Shut, Leave
      <3> QED
        BY <1>1, <1>4, <3>1 DEF TypeOK
    <2> QED
      BY <1>1, <1>4, <2>1, <2>2, <2>3, Moves
  <1> QED
    BY <1>5, <1>6, <1>7

LEMMA DeadNext ==
    ASSUME IInv, [Next]_vars
    PROVE  DeadWF'
  <1> SUFFICES ASSUME dead', NEW d \in Dir
               PROVE  rest'[d] = <<>> /\ wire'[d] = <<>>
    BY DEF DeadWF
  <1>1. TypeOK
    BY DEF IInv
  <1>2. CASE SessionDies
    BY <1>2 DEF SessionDies
  <1>3. CASE ~SessionDies
    <2>1. dead /\ \A e \in Dir : rest[e] = <<>> /\ wire[e] = <<>>
      BY <1>3, Moves DEF IInv, DeadWF
    <2>2. \A e \in Dir : ~WSRead(e)
      BY <2>1 DEF WSRead
    <2>3. ~OpenStream
      BY <2>1 DEF OpenStream
    <2>4. wire' = wire \/ \E e, ms : wire' = Written(e, ms)
      BY <1>1, <1>3, <2>2, <2>3, Writes
    <2>5. wire' = wire
      BY <2>1, <2>4 DEF Written
    <2> QED
      BY <1>3, <2>1, <2>2, <2>5, Moves
  <1> QED
    BY <1>2, <1>3

LEMMA EndStays ==
    ASSUME NEW S, NEW q \in Seq(S), AtEnd(q), NEW p \in Seq(S)
    PROVE  AtEnd(q \o p)
  BY DEF AtEnd

LEMMA EndClosed ==
    ASSUME NEW S, NEW q \in Seq(S), AtEnd(q), NEW u, NEW r \in AfterClose(q, u)
    PROVE  AtEnd(r)
  <1>1. <<Fin>> # <<>> /\ Head(<<Fin>>) = Fin
    OBVIOUS
  <1>2. Append(q, Fin) # <<>> /\ Head(Append(q, Fin)) = Fin
    BY DEF AtEnd
  <1>3. r \in {q, Append(q, Fin), <<Fin>>}
    BY DEF AfterClose
  <1> QED
    BY <1>1, <1>2, <1>3 DEF AtEnd

LEMMA OverNext ==
    ASSUME IInv, [Next]_vars
    PROVE  OverWF'
  <1> SUFFICES ASSUME NEW d \in Dir, over'[d]
               PROVE  AtEnd(out'[d])
    BY DEF OverWF, AtEnd
  <1>1. TypeOK /\ Dir = {"up", "down"} /\ out \in [Dir -> Seq(Item)]
    BY Ends, Types DEF IInv, TypeOK, Item
  <1>2. CASE ReceiveEnd(d)
    BY <1>2 DEF ReceiveEnd, data
  <1>3. CASE ~ReceiveEnd(d)
    <2>1. over[d]
      BY <1>1, <1>3, Moves DEF ReceiveEnd, TypeOK
    <2>2. AtEnd(out[d])
      BY <2>1 DEF IInv, OverWF
    <2>3. ~Receive(d)
      BY <2>2 DEF Receive, HasData, AtEnd
    <2>4. ASSUME NEW e \in Dir, NEW q \in Seq(Item), NEW u, NEW r \in AfterClose(out[e] \o q, u),
                 out' = [out EXCEPT ![e] = r]
          PROVE  AtEnd(out'[d])
      <3>1. CASE e = d
        <4>1. out[d] \o q \in Seq(Item) /\ AtEnd(out[d] \o q)
          BY <1>1, <2>2, JoinLength, EndStays
        <4>2. AtEnd(r)
          BY <2>4, <3>1, <4>1, EndClosed
        <4> QED
          BY <1>1, <2>4, <3>1, <4>2
      <3>2. CASE e # d
        BY <1>1, <2>2, <2>4, <3>2
      <3> QED
        BY <3>1, <3>2
    <2>5. ASSUME NEW q \in Seq(Item), ServerCloses(q)
          PROVE  AtEnd(out'[d])
      BY <2>4, <2>5, Ends DEF ServerCloses
    <2>6. <<>> \in Seq(Item) /\ <<Refusal>> \in Seq(Item)
      BY DEF Item
    <2>7. CASE OpenFails \/ SendRequestFails \/ RelayResponseFails
      <3>1. ErrorAnswer \in Seq(Item) /\ ServerCloses(ErrorAnswer)
        BY <2>6, <2>7 DEF OpenFails, SendRequestFails, RelayResponseFails, ErrorAnswer
      <3> QED
        BY <2>5, <3>1
    <2>8. CASE ServerPipeEnds
      BY <2>5, <2>6, <2>8 DEF ServerPipeEnds
    <2>9. ASSUME NEW e \in Dir, NEW q \in Seq(Item), out' = Delivered(e, q)
          PROVE  AtEnd(out'[d])
      <3>1. AtEnd(out[d] \o q)
        BY <1>1, <2>2, EndStays
      <3> QED
        BY <1>1, <2>2, <2>9, <3>1 DEF Delivered
    <2>10. \A e \in Dir : \A n \in Chunks(stream[e]) : SubSeq(stream[e], 1, n) \in Seq(Item)
      BY <1>1, Types, Chunk
    <2>11. CASE RelayResponse
      <3>1. PICK n \in Chunks(stream["down"]) :
                \/ ServerCloses(SubSeq(stream["down"], 1, n))
                \/ out' = Delivered("down", SubSeq(stream["down"], 1, n))
        BY <2>11 DEF RelayResponse
      <3> QED
        BY <1>1, <2>5, <2>9, <2>10, <3>1
    <2>12. CASE ClientPipeEnds
      <3>1. PICK r \in AfterClose(out["up"], in["down"] # <<>>) :
                out' = [out EXCEPT !["up"] = r]
        BY <2>12 DEF ClientPipeEnds, LocalClosed
      <3>2. out["up"] \o <<>> = out["up"]
        BY <1>1
      <3> QED
        BY <1>1, <2>4, <2>6, <3>1, <3>2
    <2>13. ASSUME NEW e \in Dir, CopyOut(e)
           PROVE  AtEnd(out'[d])
      <3>1. PICK n \in Chunks(stream[e]) : out' = Delivered(e, SubSeq(stream[e], 1, n))
        BY <2>13 DEF CopyOut
      <3> QED
        BY <2>9, <2>10, <3>1
    <2>14. ASSUME NEW e \in Dir, Receive(e)
           PROVE  AtEnd(out'[d])
      <3>1. e # d
        BY <2>3, <2>14
      <3> QED
        BY <1>1, <2>2, <2>14, <3>1 DEF Receive
    <2> QED
      BY <1>1, <2>2, <2>7, <2>8, <2>11, <2>12, <2>13, <2>14, Moves
  <1> QED
    BY <1>2, <1>3

-----------------------------------------------------------------------------
(* The invariant is inductive *)

LEMMA InOrderNext ==
    ASSUME IInv, [Next]_vars
    PROVE  InOrder("up")' /\ (InOrder("down")' \/ OwnAnswer')
  <1>1. TypeOK /\ InOrder("up") /\ (InOrder("down") \/ OwnAnswer) /\ Dir = {"up", "down"}
    BY Ends DEF IInv
  <1>2. CASE UNCHANGED vars
    BY <1>1, <1>2 DEF vars, copies, data, ends, InOrder, OwnAnswer, StreamFits, SourceFits,
                      FirstIn, NextOut, Content, Refused
  <1>3. CASE SessionDies
    BY <1>1, <1>3, SessionDiesKeeps, OwnAnswerNext
  <1>4. CASE \E d \in Dir : \/ WSRead(d) \/ CopyIn(d) \/ CopyInEnds(d)
                            \/ CopyOut(d) \/ CopyOutEnds(d)
    BY <1>1, <1>4, InOrderCopies, OwnAnswerNext
  <1>5. CASE \E d \in Dir : Peers(d)
    BY <1>1, <1>5, InOrderPeers, OwnAnswerNext
  <1>6. CASE Server
    BY <1>1, <1>6, ServerUp, ServerDown, OwnAnswerNext
  <1>7. CASE Client
    BY <1>1, <1>7, ClientUp, ClientDown, OwnAnswerNext
  <1> QED
    BY <1>2, <1>3, <1>4, <1>5, <1>6, <1>7 DEF Next

LEMMA NextIInv ==
    ASSUME IInv, [Next]_vars
    PROVE  IInv'
  BY TypeNext, ServerNewNext, ClientNewNext, AbsentNext, OverNext, DeadNext, InOrderNext DEF IInv

LEMMA InitIInv ==
    ASSUME Init
    PROVE  IInv
  <1>1. /\ kind \in Kind /\ handler = [server |-> "new", client |-> "new"]
        /\ into = [d \in Dir |-> "off"] /\ outof = [d \in Dir |-> "off"]
        /\ wire = [d \in Dir |-> <<>>] /\ rest = [d \in Dir |-> <<>>]
        /\ stream = [d \in Dir |-> <<>>] /\ out = [d \in Dir |-> <<>>]
        /\ peer = [public |-> "open", local |-> "absent"]
        /\ got = [d \in Dir |-> <<>>] /\ over = [d \in Dir |-> FALSE] /\ dead = FALSE
        /\ Dir = {"up", "down"}
    BY DEF Init, Dir
  <1>2. /\ in = [d \in Dir |-> IF d = "up" /\ kind # "tcp" THEN <<1>> ELSE <<>>]
        /\ sent = [d \in Dir |-> Len(in[d])]
    BY DEF Init
  <1>3. /\ in["down"] = <<>> /\ sent["down"] = 0
        /\ \/ in["up"] = <<>> /\ sent["up"] = 0 /\ kind = "tcp"
           \/ in["up"] = <<1>> /\ sent["up"] = 1
    BY <1>1, <1>2
  <1>4. in \in [Dir -> Seq(Nat \cup {Fin})] /\ sent \in [Dir -> Nat]
    <2>1. /\ <<1>> \in Seq(Nat \cup {Fin}) /\ <<>> \in Seq(Nat \cup {Fin})
          /\ Len(<<1>>) = 1 /\ Len(<<>>) = 0
      OBVIOUS
    <2>2. \A d \in Dir : in[d] \in {<<>>, <<1>>}
      BY <1>2
    <2>3. \A d \in Dir : in[d] \in Seq(Nat \cup {Fin}) /\ Len(in[d]) \in {0, 1}
      BY <2>1, <2>2
    <2> QED
      BY <1>2, <2>3
  <1>5. \A d \in Dir : sent[d] <= Total(d)
    <2>1. \A d \in Dir : Pieces[kind][d] \in Nat \ {0} /\ sent[d] \in {0, 1}
      BY <1>1, <1>3, PiecesAssumption
    <2>2. \A x \in Nat \ {0} : \A y \in {0, 1} : y <= x
      OBVIOUS
    <2> QED
      BY <2>1, <2>2 DEF Total
  <1>6. TypeOK
    <2>1. \A S : <<>> \in Seq(S)
      OBVIOUS
    <2> QED
      BY <1>1, <1>4, <1>5, <2>1 DEF TypeOK
  <1>7. ServerNewWF /\ ClientNewWF /\ AbsentWF
    BY <1>1, <1>3 DEF ServerNewWF, ClientNewWF, AbsentWF, Empty
  <1>8. DownWF /\ OverWF /\ DeadWF
    <2>1. \A S : <<>> \in Seq(S)
      OBVIOUS
    <2> QED
      BY <1>1, <2>1 DEF DownWF, OverWF, DeadWF
  <1>9. ASSUME NEW d \in Dir
        PROVE  InOrder(d)
    <2> DEFINE c == Content(d)
               a == NextOut(d)
    <2>1. Len(<<>>) = 0 /\ \A x \in Nat : x + 0 + 0 = x /\ x + 0 = x
      OBVIOUS
    <2>2. /\ got[d] = <<>> /\ out[d] = <<>> /\ stream[d] = <<>> /\ rest[d] = <<>> /\ wire[d] = <<>>
      BY <1>1
    <2>3. a = (IF d = "up" THEN 0 ELSE 0 + 0 + 1) /\ a \in Nat
      BY <1>1, <2>1, <2>2 DEF NextOut
    <2>4. SourceFits(d, a)
      <3>1. FirstIn(d, a) = 1
        BY <1>1, <2>3 DEF FirstIn
      <3>2. 1 + Len(in[d]) = sent[d] + 1
        <4>1. Len(<<1>>) = 1 /\ Len(<<>>) = 0 /\ 1 + 1 = 1 + 1 /\ 1 + 0 = 0 + 1
          OBVIOUS
        <4>2. (in[d] = <<>> /\ sent[d] = 0) \/ (in[d] = <<1>> /\ sent[d] = 1)
          BY <1>1, <1>3
        <4> QED
          BY <4>1, <4>2
      <3>3. Fits(c, in[d], 1)
        <4>1. CASE in[d] = <<>>
          BY <4>1, FitsFew
        <4>2. CASE in[d] # <<>>
          <5>1. d = "up" /\ in[d] = <<1>> /\ sent[d] = 1
            BY <1>1, <1>3, <4>2
          <5>2. c = [k \in 0..1 |-> IF k = 0 THEN Hdr ELSE k]
            BY <5>1 DEF Content, Refused
          <5>3. 1 \in DOMAIN c /\ c[1] = 1
            BY <5>2
          <5> HIDE DEF c
          <5>4. Fits(c, <<c[1]>>, 1)
            BY <5>3, FitsFew
          <5> QED
            BY <5>1, <5>3, <5>4
        <4> QED
          BY <4>1, <4>2
      <3> QED
        BY <3>1, <3>2, <3>3 DEF SourceFits
    <2> HIDE DEF c, a
    <2>5. Fits(c, <<>>, 1) /\ \A x : Fits(c, <<>>, x)
      BY FitsFew
    <2>6. Chain(c, <<>>, a, a)
      BY <2>3, ChainNone
    <2>7. StreamFits(d)
      <3>1. a + Len(stream[d]) + Len(rest[d]) = a
        BY <2>1, <2>2, <2>3
      <3> QED
        BY <2>2, <2>3, <2>4, <2>5, <2>6, <3>1 DEF StreamFits, c, a
    <2> QED
      BY <2>2, <2>5, <2>7 DEF InOrder, c
  <1> QED
    BY <1>1, <1>6, <1>7, <1>8, <1>9 DEF IInv

-----------------------------------------------------------------------------
(* Theorems *)

\* The inductive invariant, of every reachable state: each direction is one
\* line of pieces from its receiver back to its source.
THEOREM Invariant == Spec => []IInv
  <1>1. Init => IInv
    BY InitIInv
  <1>2. IInv /\ [Next]_vars => IInv'
    BY NextIInv
  <1> QED
    BY <1>1, <1>2, PTL DEF Spec

\* Type correctness: among the rest, no stream header ever reaches a socket.
THEOREM TypeCorrect == Spec => []TypeOK
  <1>1. IInv => TypeOK
    BY DEF IInv
  <1> QED
    BY <1>1, Invariant, PTL

\* A piece that is received is the next one, or the refusal.
LEMMA ReceivesNext ==
    ASSUME IInv, NEW d \in Dir, Receive(d)
    PROVE  /\ ~over[d] /\ sent'[d] = sent[d] /\ over'[d] = over[d]
           /\ \/ /\ got[d] # <<Refusal>> /\ Len(got[d]) < sent[d]
                 /\ got'[d] = Append(got[d], Len(got[d]) + 1)
              \/ got[d] = <<>> /\ got'[d] = <<Refusal>>
  <1> DEFINE c == Content(d)
             g == got[d]
             q == out[d]
             h == Head(q)
  <1>1. TypeOK /\ Dir = {"up", "down"}
    BY Ends DEF IInv
  <1>2. /\ q # <<>> /\ h # Fin /\ sent'[d] = sent[d] /\ over'[d] = over[d]
        /\ got'[d] = Append(g, h) /\ peer[Dest(d)] # "gone"
    BY <1>1 DEF Receive, HasData, TypeOK
  <1>3. ~over[d]
    BY <1>2 DEF IInv, OverWF, AtEnd
  <1>4. g \in Seq(Item) /\ q \in Seq(Item) /\ Len(g) \in Nat /\ sent[d] \in Nat
    BY <1>1, Types, Numbers
  <1>5. Append(<<>>, Refusal) = <<Refusal>> /\ Len(<<Refusal>>) = 1 /\ <<Refusal>>[1] = Refusal
    OBVIOUS
  <1>6. CASE d = "down" /\ OwnAnswer
    <2>1. Head(<<Fin>>) = Fin /\ Head(<<Refusal, Fin>>) = Refusal
      OBVIOUS
    <2>2. g = <<>> /\ h = Refusal
      BY <1>2, <1>6, <2>1 DEF OwnAnswer
    <2> QED
      BY <1>2, <1>3, <1>5, <2>2
  <1>7. CASE InOrder(d)
    <2>1. Fits(c, g, 1) /\ Fits(c, q, Len(g) + 1)
      BY <1>2, <1>7 DEF InOrder
    <2> HIDE DEF c, g, q
    <2>2. Len(g) + 1 \in Nat
      BY <1>4
    <2>3. Len(g) + 1 \in DOMAIN c /\ h = c[Len(g) + 1]
      BY <1>2, <1>4, <2>1, <2>2, FitsTail
    <2> HIDE DEF h
    <2>4. CASE Refused(d)
      <3>1. c = [k \in 0..1 |-> IF k = 0 THEN Hdr ELSE Refusal]
        BY <2>4 DEF Content, c
      <3>2. Len(g) = 0 /\ h = Refusal
        BY <1>4, <2>3, <3>1
      <3>3. g = <<>>
        BY <1>4, <3>2
      <3> QED
        BY <1>2, <1>3, <1>5, <3>2, <3>3 DEF g
    <2>5. CASE ~Refused(d)
      <3> DEFINE n == sent[d]
      <3>1. c = [k \in 0..n |-> IF k = 0 THEN Hdr ELSE k]
        BY <2>5 DEF Content, c
      <3>2. n \in Nat
        BY <1>4
      <3> HIDE DEF n
      <3>3. Len(g) < n /\ h = Len(g) + 1
        BY <1>4, <2>3, <3>1, <3>2
      <3>4. ASSUME g = <<Refusal>>
            PROVE  FALSE
        <4>1. 1 \in DOMAIN g /\ g[1] = Refusal /\ 1 + 1 - 1 = 1
          BY <1>5, <3>4
        <4>2. g[1] = Fin \/ (1 \in DOMAIN c /\ g[1] = c[1])
          BY <2>1, <4>1 DEF Fits
        <4>3. c[1] \in Nat \/ 1 \notin DOMAIN c
          BY <3>1, <3>2
        <4> QED
          BY <4>1, <4>2, <4>3, MarkAssumption
      <3> QED
        BY <1>2, <1>3, <3>3, <3>4 DEF g, n
    <2> QED
      BY <2>4, <2>5
  <1> QED
    BY <1>1, <1>6, <1>7 DEF IInv

LEMMA PipeStep ==
    ASSUME IInv, [Next]_vars, NEW d \in Dir
    PROVE  \/ sent'[d] = sent[d] + 1 /\ got'[d] = got[d] /\ over'[d] = over[d]
           \/ /\ ~over[d] /\ sent'[d] = sent[d] /\ over'[d] = over[d]
              /\ \/ /\ got[d] # <<Refusal>> /\ Len(got[d]) < sent[d]
                    /\ got'[d] = Append(got[d], Len(got[d]) + 1)
                 \/ got[d] = <<>> /\ got'[d] = <<Refusal>>
           \/ ~over[d] /\ over'[d] = TRUE /\ sent'[d] = sent[d] /\ got'[d] = got[d]
           \/ sent'[d] = sent[d] /\ got'[d] = got[d] /\ over'[d] = over[d]
  <1>1. TypeOK
    BY DEF IInv
  <1>2. CASE \E e \in Dir : Send(e)
    BY <1>1, <1>2 DEF Send, TypeOK
  <1>3. CASE Receive(d)
    BY <1>3, ReceivesNext
  <1>4. CASE \E e \in Dir : e # d /\ Receive(e)
    BY <1>1, <1>4 DEF Receive, TypeOK
  <1>5. CASE \E e \in Dir : ReceiveEnd(e)
    BY <1>1, <1>5 DEF ReceiveEnd, TypeOK
  <1> QED
    BY <1>2, <1>3, <1>4, <1>5, Moves

\* Each direction of a relay is a pipe to its receiver: nothing is reordered,
\* repeated or left out in between (wsconn.go:28-47, proxy.go:25-77,
\* util.go:19-40).
THEOREM PipesKeepOrder == Spec => PipeSpec
  <1>1. Init => Up!Init /\ Down!Init
    BY InitIInv DEF Init, Up!Init, Down!Init, IInv, TypeOK, Dir
  <1>2. IInv /\ [Next]_vars => [Up!Next]_(Up!pipeVars)
    <2> SUFFICES ASSUME IInv, [Next]_vars
                 PROVE  [Up!Next]_(Up!pipeVars)
      OBVIOUS
    <2> QED
      BY PipeStep, Ends DEF Up!Next, Up!pipeVars, Up!Send, Up!Deliver, Up!Refuse, Up!End
  <1>3. IInv /\ [Next]_vars => [Down!Next]_(Down!pipeVars)
    <2> SUFFICES ASSUME IInv, [Next]_vars
                 PROVE  [Down!Next]_(Down!pipeVars)
      OBVIOUS
    <2> QED
      BY PipeStep, Ends DEF Down!Next, Down!pipeVars, Down!Send, Down!Deliver, Down!Refuse,
                           Down!End
  <1> QED
    BY <1>1, <1>2, <1>3, Invariant, PTL DEF Spec, PipeSpec, Up!Spec, Down!Spec

-----------------------------------------------------------------------------
(* An HTTP exchange that nobody has broken *)

LEMMA NoFinParts ==
    ASSUME NEW S, NEW q \in Seq(S), NEW n \in 0..Len(q), NoFin(q)
    PROVE  NoFin(SubSeq(q, 1, n)) /\ NoFin(SubSeq(q, n + 1, Len(q)))
  <1>1. \A i \in DOMAIN q : q[i] # Fin
    BY DEF NoFin, ToSet
  <1>2. DOMAIN q = 1..Len(q) /\ Len(q) \in Nat
    OBVIOUS
  <1>3. DOMAIN SubSeq(q, 1, n) = 1..n /\ \A i \in 1..n : SubSeq(q, 1, n)[i] = q[i] /\ i \in 1..Len(q)
    BY Subsequence
  <1>4. /\ DOMAIN SubSeq(q, n + 1, Len(q)) = 1..(Len(q) - n)
        /\ \A i \in 1..(Len(q) - n) : SubSeq(q, n + 1, Len(q))[i] = q[n + i] /\ n + i \in 1..Len(q)
    BY Subsequence
  <1>5. NoFin(SubSeq(q, 1, n))
    BY <1>1, <1>2, <1>3 DEF NoFin, ToSet
  <1>6. NoFin(SubSeq(q, n + 1, Len(q)))
    BY <1>1, <1>2, <1>4 DEF NoFin, ToSet
  <1> QED
    BY <1>5, <1>6

LEMMA NoFinChunk ==
    ASSUME NEW S, NEW q \in Seq(S), NEW n \in Chunks(q)
    PROVE  NoFin(SubSeq(q, 1, n))
  BY Chunk DEF NoFin, ToSet

LEMMA NoFinJoin ==
    ASSUME NEW S, NEW p \in Seq(S), NEW q \in Seq(S), NoFin(p), NoFin(q)
    PROVE  NoFin(p \o q)
  <1>1. /\ DOMAIN p = 1..Len(p) /\ DOMAIN q = 1..Len(q) /\ Len(p) \in Nat /\ Len(q) \in Nat
        /\ DOMAIN (p \o q) = 1..(Len(p) + Len(q))
        /\ \A i \in 1..(Len(p) + Len(q)) :
              \/ i \in 1..Len(p) /\ (p \o q)[i] = p[i]
              \/ i - Len(p) \in 1..Len(q) /\ (p \o q)[i] = q[i - Len(p)]
    OBVIOUS
  <1> QED
    BY <1>1 DEF NoFin, ToSet

LEMMA NoFinFew ==
    ASSUME NEW x, x # Fin
    PROVE  NoFin(<<>>) /\ NoFin(<<x>>)
  BY DEF NoFin, ToSet

LEMMA NoFinTail ==
    ASSUME NEW S, NEW q \in Seq(S), q # <<>>, NoFin(q)
    PROVE  NoFin(Tail(q)) /\ Head(q) # Fin
  <1>1. /\ DOMAIN q = 1..Len(q) /\ Len(q) \in Nat \ {0} /\ Head(q) = q[1]
        /\ DOMAIN Tail(q) = 1..(Len(q) - 1)
        /\ \A i \in 1..(Len(q) - 1) : Tail(q)[i] = q[i + 1]
    OBVIOUS
  <1> QED
    BY <1>1 DEF NoFin, ToSet

\* The response closes behind its last piece.
LEMMA CloseAfter ==
    ASSUME NEW S, NEW q \in Seq(S), NoFin(q), NEW r \in AfterClose(q, FALSE)
    PROVE  Len(r) = Len(q) + 1 /\ \A i \in 1..(Len(r) - 1) : r[i] # Fin
  <1>1. r = Append(q, Fin)
    BY DEF AfterClose, NoFin
  <1>2. /\ Len(r) = Len(q) + 1 /\ Len(q) \in Nat /\ DOMAIN q = 1..Len(q)
        /\ \A i \in 1..Len(q) : r[i] = q[i]
    BY <1>1
  <1> QED
    BY <1>2 DEF NoFin, ToSet

LEMMA FailedStays ==
    ASSUME IInv, [Next]_vars, Failed
    PROVE  Failed'
  <1>1. dead => dead'
    BY Moves DEF SessionDies
  <1>2. Dir = {"up", "down"} /\ TypeOK
    BY Ends DEF IInv
  <1>3. peer.public # "open" => peer'.public # "open"
    BY <1>2, Moves, Ends DEF Dial, Shut, Leave, TypeOK
  <1>4. peer.local \in {"shut", "gone"} => peer'.local \in {"shut", "gone"} \/ Dial
    BY <1>2, Moves, Ends, SMTT(30) DEF Shut, Leave, TypeOK
  <1>5. peer.local = "absent" => peer'.local = "absent" \/ Dial
    BY <1>2, Moves, Ends DEF Shut, Leave, TypeOK
  <1>6. handler.client = "closed" => handler'.client = "closed" /\ ~Dial
    BY <1>2, Onward DEF Dial
  <1>7. peer.local \in {"shut", "gone"} => ~Dial
    BY DEF Dial, IInv, ClientNewWF
  <1> QED
    BY <1>1, <1>3, <1>4, <1>5, <1>6, <1>7 DEF Failed

\* With a service to receive from, what comes down is no refusal.
LEMMA NoRefusal ==
    ASSUME NEW c, \A k \in DOMAIN c : c[k] = Hdr \/ c[k] = k, NEW g, NEW q,
           Fits(c, g, 1), Fits(c, q, Len(g) + 1)
    PROVE  g # <<Refusal>> /\ ~(g = <<>> /\ q = <<Refusal, Fin>>)
  <1>1. ASSUME NEW p, p \in {<<Refusal>>, <<Refusal, Fin>>}, Fits(c, p, 1)
        PROVE  FALSE
    <2>1. 1 \in DOMAIN p /\ p[1] = Refusal /\ 1 + 1 - 1 = 1
      BY <1>1
    <2>2. Refusal = Fin \/ (1 \in DOMAIN c /\ Refusal = c[1])
      BY <1>1, <2>1 DEF Fits
    <2> QED
      BY <2>2, MarkAssumption
  <1>2. Len(<<>>) + 1 = 1
    OBVIOUS
  <1>3. g # <<Refusal>>
    BY <1>1
  <1>4. ASSUME g = <<>>, q = <<Refusal, Fin>>
        PROVE  FALSE
    <2>1. Fits(c, <<Refusal, Fin>>, 1)
      BY <1>2, <1>4
    <2> QED
      BY <1>1, <2>1
  <1> QED
    BY <1>3, <1>4

LEMMA ServedContent ==
    ASSUME peer.local # "absent"
    PROVE  \A k \in DOMAIN Content("down") : Content("down")[k] = Hdr \/ Content("down")[k] = k
  BY DEF Content, Refused

LEMMA NoOwnAnswerNext ==
    ASSUME InOrder("down")', peer'.local # "absent", peer'.public # "gone"
    PROVE  ~OwnAnswer'
  <1> DEFINE c == Content("down")'
  <1>1. \A k \in DOMAIN c : c[k] = Hdr \/ c[k] = k
    BY DEF Content, Refused
  <1>2. Fits(c, got'["down"], 1) /\ Fits(c, out'["down"], Len(got'["down"]) + 1)
    BY Ends DEF InOrder
  <1> HIDE DEF c
  <1>3. /\ got'["down"] # <<Refusal>>
        /\ ~(got'["down"] = <<>> /\ out'["down"] = <<Refusal, Fin>>)
    BY <1>1, <1>2, NoRefusal
  <1> QED
    BY <1>3 DEF OwnAnswer

LEMMA TakeOne ==
    ASSUME NEW S, NEW g \in Seq(S), NEW q \in Seq(S), q # <<>>, NEW n \in Nat,
           Len(g) + Len(q) = n, \A i \in 1..(Len(q) - 1) : q[i] # Fin
    PROVE  /\ Len(Append(g, Head(q))) + Len(Tail(q)) = n
           /\ \A i \in 1..(Len(Tail(q)) - 1) : Tail(q)[i] # Fin
  <1>1. /\ Len(Append(g, Head(q))) = Len(g) + 1 /\ Len(Tail(q)) = Len(q) - 1
        /\ Len(q) \in Nat \ {0} /\ Len(g) \in Nat
        /\ \A i \in 1..(Len(q) - 1) : Tail(q)[i] = q[i + 1]
    OBVIOUS
  <1>2. \A i \in 1..(Len(q) - 1 - 1) : i + 1 \in 1..(Len(q) - 1) /\ i \in 1..(Len(q) - 1)
    BY <1>1
  <1>3. Len(g) + 1 + (Len(q) - 1) = n
    BY <1>1
  <1> QED
    BY <1>1, <1>2, <1>3

\* The server has closed, behind the whole response.
LEMMA HttpClosedNext ==
    ASSUME IInv, HttpWF, kind = "http", ~Failed, handler.server = "closed", [Next]_vars, ~Failed'
    PROVE  HttpWF'
  <1> DEFINE g == got["down"]
             q == out["down"]
             n == Total("down") + 1
  <1>1. /\ TypeOK /\ Dir = {"up", "down"} /\ kind' = "http" /\ handler'.server = "closed"
        /\ peer.public = "open" /\ peer'.public = "open"
    BY Moves, Onward, Ends DEF IInv, Failed
  <1>2. Len(g) + Len(q) = n /\ ~OwnAnswer /\ \A i \in 1..(Len(q) - 1) : q[i] # Fin
    BY DEF HttpWF
  <1>3. InOrder("down") /\ Total("down")' = Total("down") /\ n \in Nat /\ n > 1
    <2>1. Total("down") \in Nat \ {0}
      BY <1>1, PiecesAssumption DEF Total, TypeOK
    <2>2. \A x \in Nat \ {0} : x + 1 \in Nat /\ x + 1 > 1
      OBVIOUS
    <2> QED
      BY <1>1, <1>2, <2>1, <2>2 DEF IInv, Total
  <1>4. g \in Seq(Item) /\ q \in Seq(Item) /\ Len(g) \in Nat /\ Len(q) \in Nat
    BY <1>1, Types, Numbers
  <1>5. peer.local # "absent" /\ peer'.local # "absent"
    <2>1. ASSUME peer.local = "absent"
          PROVE  FALSE
      <3>1. handler.client \in {"new", "dial"}
        BY <1>1, <2>1 DEF IInv, AbsentWF, Failed, TypeOK
      <3>2. g = <<>> /\ (q = <<>> \/ q = <<Fin>>)
        BY <1>2, <3>1 DEF IInv, ClientNewWF
      <3>3. Len(<<>>) + Len(<<>>) <= 1 /\ Len(<<>>) + Len(<<Fin>>) <= 1
        OBVIOUS
      <3>4. Len(g) + Len(q) <= 1
        BY <3>2, <3>3
      <3> HIDE DEF n, g, q
      <3>5. ~(n <= 1)
        BY <1>3
      <3> QED
        BY <1>2, <3>4, <3>5
    <2> QED
      BY <1>1, <2>1, Moves, Ends DEF Dial, Shut, Leave, TypeOK
  <1>6. /\ ~OpenStream /\ ~OpenFails /\ ~ServerPipeEnds /\ ~SendRequest /\ ~SendRequestFails
        /\ ~RelayResponse /\ ~RelayResponseFails
    BY DEF OpenStream, OpenFails, ServerPipeEnds, SendRequest, SendRequestFails,
           RelayResponse, RelayResponseFails
  <1>7. InOrder("down")'
    <2>1. CASE UNCHANGED vars
      BY <1>3, <2>1 DEF vars, copies, data, ends, InOrder, StreamFits, SourceFits,
                        FirstIn, NextOut, Content, Refused
    <2> QED
      BY <1>1, <1>2, <1>3, <1>6, <2>1, SessionDiesKeeps, InOrderCopies, InOrderPeers, ClientDown
         DEF Next, Server
  <1>8. ~OwnAnswer'
    BY <1>1, <1>5, <1>7, NoOwnAnswerNext
  <1>9. /\ Len(got'["down"]) + Len(out'["down"]) = n
        /\ \A i \in 1..(Len(out'["down"]) - 1) : out'["down"][i] # Fin
    <2>1. CASE Receive("down")
      <3>1. got'["down"] = Append(g, Head(q)) /\ out'["down"] = Tail(q) /\ q # <<>>
        BY <1>1, <2>1 DEF Receive, HasData, TypeOK
      <3> HIDE DEF n, g, q
      <3>2. /\ Len(Append(g, Head(q))) + Len(Tail(q)) = n
            /\ \A i \in 1..(Len(Tail(q)) - 1) : Tail(q)[i] # Fin
        BY <1>2, <1>3, <1>4, <3>1, TakeOne
      <3> QED
        BY <3>1, <3>2
    <2>2. CASE ~Receive("down")
      <3>1. got'["down"] = g
        BY <1>1, <2>2, Moves, SMTT(30) DEF Receive, TypeOK
      <3>2. out'["down"] = q
        <4>1. CASE ClientPipeEnds
          BY <1>1, <4>1 DEF ClientPipeEnds, LocalClosed, TypeOK
        <4>2. CASE CopyOut("up")
          <5>1. \E x : out' = Delivered("up", x)
            BY <4>2 DEF CopyOut
          <5> QED
            BY <1>1, <5>1 DEF Delivered, TypeOK
        <4>3. CASE Receive("up")
          BY <1>1, <4>3 DEF Receive, TypeOK
        <4>4. ~CopyOut("down")
          BY Ends DEF CopyOut
        <4> QED
          BY <1>1, <1>6, <2>2, <4>1, <4>2, <4>3, <4>4, Moves
      <3> QED
        BY <1>2, <3>1, <3>2
    <2> QED
      BY <2>1, <2>2
  <1> QED
    BY <1>1, <1>3, <1>8, <1>9 DEF HttpWF

\* Until the response is complete, nothing ends.
LEMMA HttpNoEnd ==
    ASSUME IInv, HttpWF, kind = "http", ~Failed, handler.server # "closed", ~Failed'
    PROVE  /\ ~OpenFails /\ ~ServerPipeEnds /\ ~SendRequestFails /\ ~RelayResponseFails
           /\ ~ReadHeaderFails /\ ~DialFails /\ ~ClientPipeEnds /\ ~SessionDies
           /\ \A d \in Dir : ~CopyInEnds(d) /\ ~CopyOutEnds(d) /\ ~Shut(d) /\ ~Leave(d)
  <1>1. /\ TypeOK /\ Dir = {"up", "down"} /\ ~dead /\ peer.public = "open"
        /\ peer.local \in {"absent", "open"} /\ ~dead' /\ peer'.public = "open"
        /\ peer'.local \notin {"shut", "gone"}
        /\ ~(peer'.local = "absent" /\ handler'.client = "closed")
    BY Ends DEF IInv, Failed, TypeOK
  <1>2. /\ handler.client # "closed"
        /\ \A d \in Dir : /\ into[d] # "done" /\ outof[d] # "done"
                          /\ NoFin(in[d]) /\ NoFin(stream[d])
    BY DEF HttpWF
  <1>3. \A d \in Dir : ~StreamEnded(d) /\ ~AtEnd(in[d])
    <2>1. ASSUME NEW d \in Dir
          PROVE  ~StreamEnded(d) /\ ~AtEnd(in[d])
      <3>1. in[d] \in Seq(Item) /\ stream[d] \in Seq(Item)
        BY <1>1, Types
      <3> QED
        BY <1>1, <1>2, <3>1, NoFinTail DEF StreamEnded, AtEnd
    <2> QED
      BY <2>1
  <1>4. ~OpenFails /\ ~ServerPipeEnds /\ ~SendRequestFails /\ ~RelayResponseFails
    BY <1>1, <1>2, <1>3 DEF OpenFails, ServerPipeEnds, SendRequestFails, RelayResponseFails
  <1>5. ~ReadHeaderFails /\ ~ClientPipeEnds /\ ~SessionDies
    BY <1>1, <1>2, <1>3 DEF ReadHeaderFails, ClientPipeEnds, SessionDies
  <1>6. ~DialFails
    <2>1. handler.client = "dial" => peer.local = "absent"
      BY DEF IInv, ClientNewWF
    <2> QED
      BY <1>1, <2>1 DEF DialFails, TypeOK, ends
  <1>7. ASSUME NEW d \in Dir
        PROVE  ~CopyInEnds(d) /\ ~CopyOutEnds(d)
    <2>1. handler[Reader(d)] # "closed" /\ handler[Writer(d)] # "closed"
      BY <1>1, <1>2, Ends
    <2>2. peer[Dest(d)] # "gone"
      BY <1>1, Ends
    <2> QED
      BY <1>1, <1>3, <2>1, <2>2 DEF CopyInEnds, CopyOutEnds
  <1>8. ASSUME NEW d \in Dir
        PROVE  ~Shut(d) /\ ~Leave(d)
    BY <1>1, Ends DEF Shut, Leave, TypeOK
  <1> QED
    BY <1>4, <1>5, <1>6, <1>7, <1>8

LEMMA TailItems ==
    ASSUME NEW S, NEW q \in Seq(S), q # <<>>
    PROVE  \A i \in DOMAIN Tail(q) : i + 1 \in DOMAIN q /\ Tail(q)[i] = q[i + 1]
  OBVIOUS

LEMMA JoinItems ==
    ASSUME NEW S, NEW m \in Seq(S), NEW q \in S
    PROVE  \A i \in DOMAIN (m \o <<q>>) :
              \/ i \in DOMAIN m /\ (m \o <<q>>)[i] = m[i]
              \/ (m \o <<q>>)[i] = q
  OBVIOUS

\* The server hands on, and no end appears.
LEMMA HttpOpenNext ==
    ASSUME IInv, HttpWF, kind = "http", ~Failed, handler.server # "closed", [Next]_vars,
           ~Failed', handler'.server # "closed"
    PROVE  HttpWF'
  <1>1. /\ TypeOK /\ Dir = {"up", "down"} /\ kind' = "http" /\ Fin \notin Nat
        /\ Hdr # Fin /\ out \in [Dir -> Seq(Item)] /\ in \in [Dir -> Seq(Item)]
        /\ stream \in [Dir -> Seq(Item)] /\ rest \in [Dir -> Seq(Item)]
        /\ wire \in [Dir -> Seq(Seq(Item))]
    BY Moves, Ends, MarkAssumption, Types DEF IInv, TypeOK
  <1>2. /\ handler.client # "closed" /\ NoFin(out["down"])
        /\ \A d \in Dir : /\ into[d] # "done" /\ outof[d] # "done"
                          /\ NoFin(in[d]) /\ NoFin(stream[d]) /\ NoFin(rest[d])
                          /\ \A i \in DOMAIN wire[d] : NoFin(wire[d][i])
    BY DEF HttpWF
  <1>3. /\ ~OpenFails /\ ~ServerPipeEnds /\ ~SendRequestFails /\ ~RelayResponseFails
        /\ ~ReadHeaderFails /\ ~DialFails /\ ~ClientPipeEnds /\ ~SessionDies
        /\ \A d \in Dir : ~CopyInEnds(d) /\ ~CopyOutEnds(d) /\ ~Shut(d) /\ ~Leave(d)
    BY HttpNoEnd
  <1>4. handler'.client # "closed"
    <2>1. CASE OpenStream \/ SendRequest \/ RelayResponse
      BY <1>1, <1>2, <2>1 DEF OpenStream, SendRequest, RelayResponse, ServerCloses, TypeOK
    <2>2. CASE ReadHeader \/ Dial
      BY <1>1, <2>2 DEF ReadHeader, Dial, TypeOK
    <2> QED
      BY <1>2, <1>3, <2>1, <2>2, Moves
  <1>5. \A d \in Dir : into'[d] # "done" /\ outof'[d] # "done"
    <2>1. CASE OpenStream \/ Dial
      BY <1>1, <1>2, <2>1, SMTT(30) DEF OpenStream, Dial, TypeOK
    <2> QED
      BY <1>2, <1>3, <2>1, Moves
  <1>6. ASSUME NEW d \in Dir
        PROVE  NoFin(in'[d])
    <2>1. ASSUME NEW e \in Dir, NEW n \in Chunks(in[e]),
                 in' = [in EXCEPT ![e] = SubSeq(@, n + 1, Len(@))]
          PROVE  NoFin(in'[d])
      <3>1. n \in 0..Len(in[e]) /\ in[e] \in Seq(Item)
        BY <1>1, Chunk
      <3>2. NoFin(SubSeq(in[e], n + 1, Len(in[e])))
        BY <1>2, <3>1, NoFinParts
      <3> QED
        BY <1>1, <1>2, <2>1, <3>2
    <2>2. CASE OpenStream
      BY <1>1, <1>2, <2>2 DEF OpenStream
    <2>3. CASE SendRequest
      BY <1>1, <2>1, <2>3 DEF SendRequest
    <2>4. CASE \E e \in Dir : CopyIn(e)
      BY <2>1, <2>4 DEF CopyIn
    <2>5. ASSUME NEW e \in Dir, Send(e)
          PROVE  NoFin(in'[d])
      <3>1. in' = [in EXCEPT ![e] = Append(@, sent[e] + 1)] /\ sent[e] + 1 \in Nat
        <4>1. sent[e] \in Nat
          BY <1>1 DEF TypeOK
        <4>2. \A x \in Nat : x + 1 \in Nat
          OBVIOUS
        <4> QED
          BY <2>5, <4>1, <4>2, Zenon DEF Send
      <3>2. Append(in[e], sent[e] + 1) = in[e] \o <<sent[e] + 1>>
        BY <1>1, SMTT(30)
      <3>3. sent[e] + 1 \in Item /\ sent[e] + 1 # Fin
        BY <1>1, <3>1 DEF Item
      <3>4. <<sent[e] + 1>> \in Seq(Item) /\ NoFin(<<sent[e] + 1>>)
        BY <3>3, NoFinFew
      <3>5. NoFin(in[e] \o <<sent[e] + 1>>)
        BY <1>1, <1>2, <3>4, NoFinJoin
      <3> QED
        BY <1>1, <1>2, <3>1, <3>2, <3>5
    <2> QED
      BY <1>2, <1>3, <2>2, <2>3, <2>4, <2>5, Moves
  <1>7. ASSUME NEW e \in Dir, WSRead(e), NEW d \in Dir
        PROVE  /\ NoFin(stream'[d]) /\ NoFin(rest'[d])
               /\ \A i \in DOMAIN wire'[d] : NoFin(wire'[d][i])
    <2> DEFINE m == IF rest[e] # <<>> THEN rest[e] ELSE Head(wire[e])
    <2>1. PICK n \in 1..Len(m) :
              /\ stream' = [stream EXCEPT ![e] = @ \o SubSeq(m, 1, n)]
              /\ rest' = [rest EXCEPT ![e] = SubSeq(m, n + 1, Len(m))]
      BY <1>7 DEF WSRead
    <2>2. /\ rest[e] # <<>> \/ wire[e] # <<>>
          /\ wire' = IF rest[e] # <<>> THEN wire ELSE [wire EXCEPT ![e] = Tail(@)]
      BY <1>7 DEF WSRead
    <2>3. m \in Seq(Item) /\ NoFin(m)
      <3>1. wire[e] # <<>> => Head(wire[e]) = wire[e][1] /\ 1 \in DOMAIN wire[e]
        BY <1>1
      <3> QED
        BY <1>1, <1>2, <2>2, <3>1
    <2> HIDE DEF m
    <2>4. n \in 0..Len(m)
      BY <2>3
    <2>5. /\ NoFin(SubSeq(m, 1, n)) /\ NoFin(SubSeq(m, n + 1, Len(m)))
          /\ SubSeq(m, 1, n) \in Seq(Item)
      BY <2>3, <2>4, NoFinParts, Subsequence
    <2>6. NoFin(stream[e] \o SubSeq(m, 1, n))
      BY <1>1, <1>2, <2>5, NoFinJoin
    <2>7. NoFin(stream'[d]) /\ NoFin(rest'[d])
      BY <1>1, <1>2, <2>1, <2>5, <2>6
    <2>8. wire[e] # <<>> => \A i \in DOMAIN Tail(wire[e]) :
                               i + 1 \in DOMAIN wire[e] /\ Tail(wire[e])[i] = wire[e][i + 1]
      <3>1. wire[e] \in Seq(Seq(Item))
        BY <1>1
      <3> QED
        BY <3>1, TailItems
    <2>9. \A i \in DOMAIN wire'[d] : NoFin(wire'[d][i])
      BY <1>1, <1>2, <2>2, <2>8
    <2> QED
      BY <2>7, <2>9
  <1>8. ASSUME NEW d \in Dir
        PROVE  NoFin(stream'[d])
    <2>1. ASSUME NEW e \in Dir, NEW n \in Chunks(stream[e]),
                 stream' = [stream EXCEPT ![e] = SubSeq(@, n + 1, Len(@))]
          PROVE  NoFin(stream'[d])
      <3>1. n \in 0..Len(stream[e]) /\ stream[e] \in Seq(Item)
        BY <1>1, Chunk
      <3>2. NoFin(SubSeq(stream[e], n + 1, Len(stream[e])))
        BY <1>2, <3>1, NoFinParts
      <3> QED
        BY <1>1, <1>2, <2>1, <3>2
    <2>2. CASE RelayResponse
      BY <1>1, <2>1, <2>2 DEF RelayResponse
    <2>3. CASE \E e \in Dir : CopyOut(e)
      BY <2>1, <2>3 DEF CopyOut
    <2>4. CASE ReadHeader
      <3>1. stream' = [stream EXCEPT !["up"] = Tail(@)] /\ stream["up"] # <<>>
        BY <2>4 DEF ReadHeader, HasData
      <3>2. NoFin(Tail(stream["up"]))
        BY <1>1, <1>2, <3>1, NoFinTail
      <3> QED
        BY <1>1, <1>2, <3>1, <3>2
    <2> QED
      BY <1>2, <1>7, <2>2, <2>3, <2>4, Moves
  <1>9. \A d \in Dir : NoFin(rest'[d])
    BY <1>2, <1>3, <1>7, Moves
  <1>10. ASSUME NEW d \in Dir
         PROVE  \A i \in DOMAIN wire'[d] : NoFin(wire'[d][i])
    <2>1. ASSUME NEW e \in Dir, NEW q \in Seq(Item), NoFin(q), wire' = Written(e, <<q>>)
          PROVE  \A i \in DOMAIN wire'[d] : NoFin(wire'[d][i])
      <3>1. /\ wire[e] \in Seq(Seq(Item))
            /\ \A i \in DOMAIN (wire[e] \o <<q>>) :
                  \/ i \in DOMAIN wire[e] /\ (wire[e] \o <<q>>)[i] = wire[e][i]
                  \/ (wire[e] \o <<q>>)[i] = q
        <4>1. wire[e] \in Seq(Seq(Item))
          BY <1>1
        <4> QED
          BY <4>1, JoinItems
      <3> QED
        BY <1>1, <1>2, <2>1, <3>1 DEF Written
    <2>2. ASSUME NEW e \in Dir, NEW n \in Chunks(in[e]),
                 wire' = Written(e, <<SubSeq(in[e], 1, n)>>)
          PROVE  \A i \in DOMAIN wire'[d] : NoFin(wire'[d][i])
      <3>1. in[e] \in Seq(Item)
        BY <1>1
      <3>2. SubSeq(in[e], 1, n) \in Seq(Item) /\ NoFin(SubSeq(in[e], 1, n))
        BY <3>1, Chunk, NoFinChunk
      <3> QED
        BY <2>1, <2>2, <3>2
    <2>3. CASE SendRequest
      BY <1>1, <2>2, <2>3 DEF SendRequest
    <2>4. CASE \E e \in Dir : CopyIn(e)
      BY <2>2, <2>4 DEF CopyIn
    <2>5. CASE OpenStream
      <3>1. wire' = [wire EXCEPT !["up"] = @ \o <<<<Hdr>>>> \o <<>>] /\ ~dead
        BY <1>1, <2>5 DEF OpenStream
      <3>2. wire["up"] \o <<<<Hdr>>>> \o <<>> = wire["up"] \o <<<<Hdr>>>>
        <4>1. <<<<Hdr>>>> \in Seq(Seq(Item))
          BY DEF Item
        <4> QED
          BY <1>1, <4>1
      <3>3. wire' = Written("up", <<<<Hdr>>>>)
        BY <3>1, <3>2 DEF Written
      <3>4. <<Hdr>> \in Seq(Item) /\ NoFin(<<Hdr>>)
        BY <1>1, NoFinFew DEF Item
      <3> QED
        BY <1>1, <2>1, <3>3, <3>4
    <2>6. CASE RelayResponse
      <3>1. wire' = wire
        BY <1>1, <2>6 DEF RelayResponse, ServerCloses, TypeOK
      <3> QED
        BY <1>2, <3>1
    <2> QED
      BY <1>2, <1>3, <1>7, <2>3, <2>4, <2>5, <2>6, Moves
  <1>11. NoFin(out'["down"])
    <2>1. ASSUME NEW e \in Dir, NEW n \in Chunks(stream[e]),
                 out' = Delivered(e, SubSeq(stream[e], 1, n))
          PROVE  NoFin(out'["down"])
      <3>1. stream[e] \in Seq(Item)
        BY <1>1
      <3>2. SubSeq(stream[e], 1, n) \in Seq(Item) /\ NoFin(SubSeq(stream[e], 1, n))
        BY <3>1, Chunk, NoFinChunk
      <3>3. NoFin(out["down"] \o SubSeq(stream[e], 1, n))
        BY <1>1, <1>2, <3>2, NoFinJoin
      <3> QED
        BY <1>1, <1>2, <2>1, <3>3 DEF Delivered
    <2>2. CASE RelayResponse
      <3>1. PICK n \in Chunks(stream["down"]) : out' = Delivered("down", SubSeq(stream["down"], 1, n))
        BY <1>1, <2>2 DEF RelayResponse, ServerCloses, TypeOK
      <3> QED
        BY <1>1, <2>1, <3>1
    <2>3. CASE \E e \in Dir : CopyOut(e)
      BY <2>1, <2>3 DEF CopyOut
    <2>4. ASSUME NEW e \in Dir, Receive(e)
          PROVE  NoFin(out'["down"])
      <3>1. out' = [out EXCEPT ![e] = Tail(@)] /\ out[e] # <<>>
        BY <2>4 DEF Receive, HasData
      <3>2. e = "down" => NoFin(Tail(out["down"]))
        BY <1>1, <1>2, <3>1, NoFinTail
      <3> QED
        BY <1>1, <1>2, <3>1, <3>2
    <2> QED
      BY <1>2, <1>3, <2>2, <2>3, <2>4, Moves
  <1> QED
    BY <1>4, <1>5, <1>6, <1>8, <1>9, <1>10, <1>11 DEF HttpWF

\* A piece of what a service sends is the number of its place.
LEMMA PlaceOf ==
    ASSUME NEW d \in Dir, ~Refused(d), NEW k \in Nat \ {0}, k \in DOMAIN Content(d)
    PROVE  Content(d)[k] = k
  BY DEF Content

\* The last piece of the response is in its place.
LEMMA LastPiece ==
    ASSUME NEW S, NEW s \in Seq(S), NEW n \in Chunks(s), NEW c, NEW a \in Nat \ {0},
           Fits(c, s, a), \A k \in DOMAIN c : k \in Nat \ {0} => c[k] = k,
           NEW t \in Nat, s[n] \in {t, Refusal}
    PROVE  a + n - 1 = t
  <1>1. n \in 1..Len(s) /\ s[n] # Fin /\ DOMAIN s = 1..Len(s) /\ n \in Nat \ {0}
    BY Chunk
  <1> DEFINE k == a + n - 1
  <1>2. k \in Nat \ {0}
    BY <1>1
  <1>3. k \in DOMAIN c /\ s[n] = c[k]
    BY <1>1 DEF Fits
  <1> HIDE DEF k
  <1>4. s[n] = k
    BY <1>2, <1>3
  <1>5. k = t
    BY <1>2, <1>4, MarkAssumption
  <1> QED
    BY <1>5 DEF k

LEMMA CloseLength ==
    ASSUME NEW S, NEW q \in Seq(S), NEW s \in Seq(S), NEW n \in Chunks(s), NoFin(q),
           NEW r \in AfterClose(q \o SubSeq(s, 1, n), FALSE)
    PROVE  Len(r) = (Len(q) + n) + 1 /\ \A i \in 1..(Len(r) - 1) : r[i] # Fin
  <1> DEFINE p == q \o SubSeq(s, 1, n)
  <1>1. /\ SubSeq(s, 1, n) \in Seq(S) /\ Len(SubSeq(s, 1, n)) = n
        /\ NoFin(SubSeq(s, 1, n))
    BY Chunk, NoFinChunk
  <1>2. NoFin(p)
    BY <1>1, NoFinJoin
  <1>3. p \in Seq(S) /\ Len(p) = Len(q) + n
    BY <1>1, JoinLength
  <1> HIDE DEF p
  <1>4. r \in AfterClose(p, FALSE)
    BY DEF p
  <1>5. Len(r) = Len(p) + 1 /\ \A i \in 1..(Len(r) - 1) : r[i] # Fin
    BY <1>2, <1>3, <1>4, CloseAfter
  <1> QED
    BY <1>3, <1>5

\* The n-th piece of s, whose first is the a-th one, is the last that c holds.
Closes(g, q, s, c, a, t, n) ==
    /\ NoFin(q) /\ n \in Chunks(s) /\ s[n] \in {t, Refusal}
    /\ a = Len(g) + Len(q) + 1 /\ Fits(c, s, a)
    /\ \A k \in DOMAIN c : k \in Nat \ {0} => c[k] = k

LEMMA LastChunk ==
    ASSUME NEW g \in Seq(Item), NEW q \in Seq(Item), NEW s \in Seq(Item), NEW c, NEW a,
           NEW t \in Nat, NEW n, Closes(g, q, s, c, a, t, n),
           NEW r, r \in AfterClose(q \o SubSeq(s, 1, n), FALSE)
    PROVE  Len(g) + Len(r) = t + 1 /\ \A i \in 1..(Len(r) - 1) : r[i] # Fin
  <1> USE DEF Closes
  <1>1. Len(g) \in Nat /\ Len(q) \in Nat /\ a \in Nat \ {0} /\ n \in Nat
    BY Chunk, SMTT(30)
  <1>2. a + n - 1 = t
    BY <1>1, LastPiece
  <1>3. Len(r) = (Len(q) + n) + 1 /\ \A i \in 1..(Len(r) - 1) : r[i] # Fin
    BY CloseLength
  <1>4. \A x, y, z, v, w \in Nat :
            v = x + y + 1 /\ v + z - 1 = w => x + ((y + z) + 1) = w + 1
    OBVIOUS
  <1> QED
    <2>1. a \in Nat
      BY <1>1
    <2> DEFINE x == Len(g)
               y == Len(q)
    <2>2. x + ((y + n) + 1) = t + 1
      <3>1. x \in Nat /\ y \in Nat /\ n \in Nat /\ a = x + y + 1 /\ a + n - 1 = t
        BY <1>1, <1>2
      <3> HIDE DEF x, y
      <3> QED
        BY <1>4, <2>1, <3>1
    <2> QED
      BY <1>3, <2>2

LEMMA ResponseEnds ==
    ASSUME TypeOK, HttpWF, kind = "http", ~Failed, handler.server # "closed",
           InOrder("down"), ~Refused("down"), NEW n \in Chunks(stream["down"]),
           stream["down"][n] \in {Total("down"), Refusal}
    PROVE  \A r \in AfterClose(out["down"] \o SubSeq(stream["down"], 1, n), FALSE) :
              /\ Len(got["down"]) + Len(r) = Total("down") + 1
              /\ \A i \in 1..(Len(r) - 1) : r[i] # Fin
  <1> DEFINE c == Content("down")
             t == Total("down")
             a == NextOut("down")
             g == got["down"]
             q == out["down"]
             s == stream["down"]
  <1>1. Dir = {"up", "down"} /\ ~dead /\ peer.public = "open" /\ NoFin(q)
    BY Ends DEF Failed, HttpWF
  <1>2. g \in Seq(Item) /\ q \in Seq(Item) /\ s \in Seq(Item)
    BY <1>1, Types
  <1>3. t \in Nat
    BY <1>1, PiecesAssumption DEF Total, TypeOK
  <1>4. a = Len(g) + Len(q) + 1
    BY DEF NextOut
  <1>5. Fits(c, s, a)
    BY <1>1, Ends DEF InOrder, StreamFits
  <1>6. \A k \in DOMAIN c : k \in Nat \ {0} => c[k] = k
    BY <1>1, PlaceOf
  <1>7. s[n] \in {t, Refusal} /\ n \in Chunks(s)
    OBVIOUS
  <1> HIDE DEF c, t, a, g, q, s
  <1>8. \A r \in AfterClose(q \o SubSeq(s, 1, n), FALSE) :
           Len(g) + Len(r) = t + 1 /\ \A i \in 1..(Len(r) - 1) : r[i] # Fin
    <2>1. Closes(g, q, s, c, a, t, n)
      BY <1>1, <1>4, <1>5, <1>6, <1>7 DEF Closes
    <2> QED
      BY <1>2, <1>3, <2>1, LastChunk
  <1> QED
    BY <1>8 DEF g, q, s, t

\* The server closes, behind the last piece of the response.
LEMMA HttpCloses ==
    ASSUME IInv, HttpWF, kind = "http", ~Failed, handler.server # "closed", [Next]_vars,
           ~Failed', handler'.server = "closed"
    PROVE  HttpWF'
  <1> DEFINE g == got["down"]
             q == out["down"]
             s == stream["down"]
             c == Content("down")
             t == Total("down")
  <1>1. /\ TypeOK /\ Dir = {"up", "down"} /\ kind' = "http" /\ ~dead
        /\ peer.public = "open" /\ peer'.public = "open"
    BY Moves, Ends DEF IInv, Failed
  <1>2. RelayResponse
    <2>1. CASE OpenStream \/ SendRequest
      BY <1>1, <2>1 DEF OpenStream, SendRequest, TypeOK
    <2>2. CASE ReadHeader \/ Dial
      BY <1>1, <2>2 DEF ReadHeader, Dial, TypeOK
    <2> QED
      BY <2>1, <2>2, HttpNoEnd, Moves
  <1>3. PICK n \in Chunks(s) : /\ s[n] \in {t, Refusal}
                               /\ out'["down"] \in AfterClose(q \o SubSeq(s, 1, n), FALSE)
    <2>1. ~(kind # "http" /\ in["up"] # <<>>)
      BY <1>1
    <2>2. \A x : AfterClose(x, kind # "http" /\ in["up"] # <<>>) = AfterClose(x, FALSE)
      BY <2>1 DEF AfterClose
    <2>3. PICK n \in Chunks(s) :
              IF s[n] \in {t, Refusal} THEN ServerCloses(SubSeq(s, 1, n))
                                       ELSE UNCHANGED handler
      BY <1>2 DEF RelayResponse
    <2>4. s[n] \in {t, Refusal} /\ ServerCloses(SubSeq(s, 1, n))
      BY <2>3
    <2>5. \E r \in AfterClose(q \o SubSeq(s, 1, n), kind # "http" /\ in["up"] # <<>>) :
              out' = [out EXCEPT !["down"] = r]
      BY <2>4 DEF ServerCloses
    <2>6. out'["down"] \in AfterClose(q \o SubSeq(s, 1, n), FALSE)
      BY <1>1, <2>2, <2>5 DEF TypeOK
    <2> QED
      BY <2>4, <2>6
  <1>4. /\ peer' = peer /\ sent' = sent /\ got' = got /\ s # <<>>
    BY <1>2 DEF RelayResponse, HasData, ends
  <1>5. peer.local # "absent" /\ ~Refused("down")
    BY <1>1, <1>4 DEF IInv, AbsentWF, ClientNewWF, Empty, Failed, TypeOK, Refused
  <1>6. g \in Seq(Item) /\ q \in Seq(Item) /\ s \in Seq(Item) /\ Len(g) \in Nat /\ Len(q) \in Nat
    BY <1>1, Types, Numbers
  <1>7. t \in Nat /\ Total("down")' = t
    BY <1>1, PiecesAssumption DEF Total, TypeOK
  <1>8. InOrder("down")
    BY DEF IInv, OwnAnswer
  <1>9. /\ NextOut("down") = Len(g) + Len(q) + 1
        /\ Fits(c, s, NextOut("down")) /\ Fits(c, g, 1)
    BY <1>1, <1>8, Ends DEF InOrder, StreamFits, NextOut
  <1>10. Fits(c, q \o SubSeq(s, 1, n), Len(g) + 1)
    BY <1>1, <1>8, OutFits
  <1>11. \A k \in DOMAIN c : k \in Nat \ {0} => c[k] = k
    BY <1>1, <1>5, PlaceOf
  <1>12. \A k \in DOMAIN c : c[k] = Hdr \/ c[k] = k
    BY <1>5, ServedContent
  <1>13. NoFin(q)
    BY DEF HttpWF
  <1>14. /\ got'["down"] = g
         /\ HttpWF' = /\ Len(g) + Len(out'["down"]) = t + 1
                      /\ \A i \in 1..(Len(out'["down"]) - 1) : out'["down"][i] # Fin
                      /\ ~OwnAnswer'
    BY <1>1, <1>4, <1>7 DEF HttpWF
  <1>15. /\ OwnAnswer' => \/ g = <<>> /\ out'["down"] = <<Refusal, Fin>>
                          \/ g = <<Refusal>>
    BY <1>4 DEF OwnAnswer
  <1> HIDE DEF g, q, s, c, t
  <1>16. /\ Len(g) + Len(out'["down"]) = t + 1
         /\ \A i \in 1..(Len(out'["down"]) - 1) : out'["down"][i] # Fin
    <2>1. n \in Chunks(s) /\ s[n] \in {t, Refusal}
      BY <1>3
    <2>2. \A r \in AfterClose(q \o SubSeq(s, 1, n), FALSE) :
             Len(g) + Len(r) = t + 1 /\ \A i \in 1..(Len(r) - 1) : r[i] # Fin
      <3>1. TypeOK
        BY DEF IInv
      <3> QED
        BY <1>5, <1>8, <2>1, <3>1, ResponseEnds DEF g, q, s, t
    <2> QED
      BY <1>3, <2>2
  <1>17. Fits(c, out'["down"], Len(g) + 1)
    <2>1. SubSeq(s, 1, n) \in Seq(Item) /\ Len(g) + 1 \in Nat
      BY <1>3, <1>6, Chunk
    <2>2. q \o SubSeq(s, 1, n) \in Seq(Item)
      BY <1>6, <2>1, JoinLength
    <2> QED
      BY <1>3, <1>10, <2>1, <2>2, FitsClosed
  <1>18. ~OwnAnswer'
    BY <1>9, <1>12, <1>15, <1>17, NoRefusal
  <1> QED
    BY <1>14, <1>16, <1>18

LEMMA HttpNext ==
    ASSUME IInv, HttpWF, [Next]_vars
    PROVE  HttpWF'
  <1> SUFFICES ASSUME kind' = "http", ~Failed'
               PROVE  HttpWF'
    BY DEF HttpWF
  <1>1. kind = "http" /\ ~Failed
    BY Moves, FailedStays
  <1> QED
    BY <1>1, HttpClosedNext, HttpOpenNext, HttpCloses

LEMMA InitHttp ==
    ASSUME Init
    PROVE  HttpWF
  <1>1. /\ handler.server = "new" /\ handler.client = "new" /\ Dir = {"up", "down"}
        /\ \A d \in Dir : /\ into[d] = "off" /\ outof[d] = "off" /\ in[d] \in {<<>>, <<1>>}
                          /\ stream[d] = <<>> /\ rest[d] = <<>> /\ wire[d] = <<>>
                          /\ out[d] = <<>>
    BY DEF Init, Dir
  <1>2. NoFin(<<>>) /\ NoFin(<<1>>) /\ DOMAIN <<>> = {}
    BY NoFinFew, MarkAssumption
  <1> QED
    BY <1>1, <1>2 DEF HttpWF

LEMMA OnlyEnd ==
    ASSUME NEW S, NEW q \in Seq(S), q # <<>>, Head(q) = Fin,
           \A i \in 1..(Len(q) - 1) : q[i] # Fin
    PROVE  Len(q) = 1
  <1>1. Head(q) = q[1] /\ Len(q) \in Nat \ {0}
    OBVIOUS
  <1>2. 1 \notin 1..(Len(q) - 1)
    BY <1>1
  <1>3. \A x \in Nat \ {0} : 1 \notin 1..(x - 1) => x = 1
    OBVIOUS
  <1> QED
    BY <1>1, <1>2, <1>3, Zenon

\* An end that the visitor sees stands behind the whole response.
LEMMA WholeAnswer ==
    ASSUME IInv, HttpWF
    PROVE  HttpAnswered
  <1> DEFINE g == got["down"]
             q == out["down"]
             c == Content("down")
             t == Total("down")
  <1> SUFFICES ASSUME kind = "http", over["down"], ~dead, peer.local = "open",
                      peer.public = "open"
               PROVE  g = [i \in 1..t |-> i]
    BY DEF HttpAnswered
  <1>1. TypeOK /\ "down" \in Dir /\ ~Failed /\ AtEnd(q)
    BY Ends DEF IInv, OverWF, Failed
  <1>2. /\ g \in Seq(Nat \cup {Refusal}) /\ q \in Seq(Item) /\ Len(g) \in Nat
        /\ t \in Nat
    <2>1. t \in Nat
      BY <1>1, PiecesAssumption DEF Total, TypeOK
    <2> HIDE DEF t
    <2> QED
      BY <1>1, <2>1, Types, Numbers
  <1>3. q # <<>> /\ Head(q) = Fin
    BY <1>1 DEF AtEnd
  <1>4. handler.server = "closed"
    BY <1>1, <1>2, <1>3, NoFinTail DEF HttpWF
  <1>5. /\ Len(g) + Len(q) = t + 1 /\ ~OwnAnswer
        /\ \A i \in 1..(Len(q) - 1) : q[i] # Fin
    BY <1>1, <1>4 DEF HttpWF
  <1>6. Fits(c, g, 1)
    BY <1>5 DEF IInv, InOrder
  <1>7. \A k \in DOMAIN c : k \in Nat \ {0} => c[k] = k
    BY <1>1, PlaceOf DEF Refused
  <1> HIDE DEF g, q, c, t
  <1>8. Len(q) = 1
    BY <1>2, <1>3, <1>5, OnlyEnd
  <1>9. Len(g) = t
    BY <1>2, <1>5, <1>8
  <1>10. ASSUME NEW i \in 1..t
         PROVE  g[i] = i
    <2>1. i \in DOMAIN g /\ g[i] \in Nat \cup {Refusal} /\ 1 + i - 1 = i /\ i \in Nat \ {0}
      BY <1>2, <1>9
    <2>2. g[i] # Fin
      BY <2>1, MarkAssumption
    <2> QED
      BY <1>6, <1>7, <2>1, <2>2 DEF Fits
  <1>11. DOMAIN g = 1..t /\ g = [i \in DOMAIN g |-> g[i]]
    BY <1>2, <1>9
  <1> QED
    BY <1>10, <1>11

\* An HTTP exchange whose parties and session all live ends with the whole
\* response: no path of RoundTrip or of the copies closes early
\* (http_proxy.go:97-139, proxy.go:52-63).
THEOREM HttpIsAnswered == Spec => []HttpAnswered
  <1>1. Init => HttpWF
    BY InitHttp
  <1>2. IInv /\ HttpWF /\ [Next]_vars => HttpWF'
    BY HttpNext
  <1>3. IInv /\ HttpWF => HttpAnswered
    BY WholeAnswer
  <1> QED
    BY <1>1, <1>2, <1>3, Invariant, PTL DEF Spec
=============================================================================
