----------------------------- MODULE RelayHeard -----------------------------
(***************************************************************************)
(* The proof that the first to close is heard.  It follows one piece, the  *)
(* last that a source has sent: where it is, and that an end on the same   *)
(* way is never in front of it.                                            *)
(***************************************************************************)
EXTENDS RelayProofs

-----------------------------------------------------------------------------
(* Queues as sets, and ends that are the last thing in them *)

EndsLast(q) == \A i \in DOMAIN q : q[i] = Fin => i = Len(q)
OnlyOnce(q, s) == \A i, j \in DOMAIN q : q[i] = s /\ q[j] = s => i = j

\* The pieces of a queue of messages.
Contents(m) == UNION {ToSet(m[i]) : i \in DOMAIN m}
EndsAlone(m) == \A i \in DOMAIN m : Fin \in ToSet(m[i]) => i = Len(m) /\ m[i] = <<Fin>>

LEMMA SplitSet ==
    ASSUME NEW S, NEW q \in Seq(S), NEW n \in 0..Len(q)
    PROVE  /\ ToSet(q) = ToSet(SubSeq(q, 1, n)) \cup ToSet(SubSeq(q, n + 1, Len(q)))
           /\ EndsLast(q) => EndsLast(SubSeq(q, n + 1, Len(q)))
           /\ n < Len(q) => SubSeq(q, n + 1, Len(q))[Len(q) - n] = q[Len(q)]
           /\ \A s : OnlyOnce(q, s) =>
                 /\ OnlyOnce(SubSeq(q, n + 1, Len(q)), s)
                 /\ ~(s \in ToSet(SubSeq(q, 1, n)) /\ s \in ToSet(SubSeq(q, n + 1, Len(q))))
  <1> DEFINE l == SubSeq(q, 1, n)
             r == SubSeq(q, n + 1, Len(q))
  <1>1. /\ DOMAIN l = 1..n /\ DOMAIN r = 1..(Len(q) - n) /\ Len(r) = Len(q) - n
        /\ Len(q) \in Nat /\ n \in Nat /\ DOMAIN q = 1..Len(q) /\ n <= Len(q)
    BY Subsequence
  <1>2. /\ \A i \in 1..n : l[i] = q[i] /\ i \in 1..Len(q)
        /\ \A i \in 1..(Len(q) - n) : r[i] = q[n + i] /\ n + i \in 1..Len(q)
    BY Subsequence
  <1> HIDE DEF l, r
  <1>3. ASSUME NEW i \in 1..Len(q)
        PROVE  i \in 1..n \/ (i - n \in 1..(Len(q) - n) /\ n + (i - n) = i)
    BY <1>1
  <1>4. ToSet(q) \subseteq ToSet(l) \cup ToSet(r)
    <2> SUFFICES ASSUME NEW i \in 1..Len(q) PROVE q[i] \in ToSet(l) \cup ToSet(r)
      BY <1>1 DEF ToSet
    <2>1. CASE i \in 1..n
      BY <1>1, <1>2, <2>1 DEF ToSet
    <2>2. CASE i - n \in 1..(Len(q) - n) /\ n + (i - n) = i
      <3>1. r[i - n] = q[i]
        BY <1>2, <2>2
      <3> QED
        BY <1>1, <2>2, <3>1 DEF ToSet
    <2> QED
      BY <1>3, <2>1, <2>2
  <1>5. ToSet(l) \cup ToSet(r) \subseteq ToSet(q)
    BY <1>1, <1>2 DEF ToSet
  <1>6. ASSUME EndsLast(q) PROVE EndsLast(r)
    <2> SUFFICES ASSUME NEW i \in 1..(Len(q) - n), r[i] = Fin PROVE i = Len(q) - n
      BY <1>1 DEF EndsLast
    <2>1. n + i = Len(q)
      BY <1>1, <1>2, <1>6 DEF EndsLast
    <2> QED
      BY <1>1, <2>1
  <1>7. ASSUME NEW s, OnlyOnce(q, s)
        PROVE  OnlyOnce(r, s) /\ ~(s \in ToSet(l) /\ s \in ToSet(r))
    <2>1. OnlyOnce(r, s)
      <3> SUFFICES ASSUME NEW i \in 1..(Len(q) - n), NEW j \in 1..(Len(q) - n),
                          r[i] = s, r[j] = s
                   PROVE  i = j
        BY <1>1 DEF OnlyOnce
      <3>1. n + i = n + j
        BY <1>1, <1>2, <1>7 DEF OnlyOnce
      <3> QED
        BY <1>1, <3>1
    <2>2. ASSUME NEW i \in 1..n, NEW j \in 1..(Len(q) - n), l[i] = s, r[j] = s PROVE FALSE
      <3>1. i = n + j
        BY <1>1, <1>2, <1>7, <2>2 DEF OnlyOnce
      <3> QED
        BY <1>1, <3>1
    <2> QED
      BY <1>1, <2>1, <2>2 DEF ToSet
  <1>8. n < Len(q) => r[Len(q) - n] = q[Len(q)]
    BY <1>1, <1>2
  <1> QED
    BY <1>4, <1>5, <1>6, <1>7, <1>8 DEF l, r

LEMMA Before ==
    \A n \in Nat : \A i \in 1..n : i # 1 => i - 1 \in 1..(n - 1) /\ (i - 1) + 1 = i
  OBVIOUS

LEMMA TailSet ==
    ASSUME NEW S, NEW q \in Seq(S), q # <<>>
    PROVE  /\ ToSet(q) = {Head(q)} \cup ToSet(Tail(q))
           /\ EndsLast(q) => EndsLast(Tail(q)) /\ (Head(q) = Fin => q = <<Fin>>)
           /\ \A s : OnlyOnce(q, s) =>
                 OnlyOnce(Tail(q), s) /\ ~(s = Head(q) /\ s \in ToSet(Tail(q)))
  <1>1. /\ DOMAIN Tail(q) = 1..(Len(q) - 1) /\ DOMAIN q = 1..Len(q) /\ Len(q) \in Nat \ {0}
        /\ \A i \in 1..(Len(q) - 1) : Tail(q)[i] = q[i + 1] /\ i + 1 \in 1..Len(q)
        /\ Head(q) = q[1] /\ 1 \in 1..Len(q) /\ Len(Tail(q)) = Len(q) - 1
    OBVIOUS
  <1>2. \A i \in 1..Len(q) : i # 1 => i - 1 \in 1..(Len(q) - 1) /\ (i - 1) + 1 = i
    BY <1>1, Before
  <1>3. ToSet(q) = {Head(q)} \cup ToSet(Tail(q))
    <2>1. ASSUME NEW i \in 1..Len(q), i # 1 PROVE q[i] \in ToSet(Tail(q))
      <3>1. i - 1 \in DOMAIN Tail(q) /\ Tail(q)[i - 1] = q[i]
        BY <1>1, <1>2, <2>1
      <3> QED
        BY <3>1 DEF ToSet
    <2>2. ToSet(Tail(q)) \subseteq ToSet(q) /\ Head(q) \in ToSet(q)
      BY <1>1 DEF ToSet
    <2> QED
      BY <1>1, <2>1, <2>2 DEF ToSet
  <1>4. ASSUME EndsLast(q) PROVE EndsLast(Tail(q))
    BY <1>1, <1>4 DEF EndsLast
  <1>5. ASSUME EndsLast(q), Head(q) = Fin PROVE q = <<Fin>>
    <2>1. Len(q) = 1
      BY <1>1, <1>5 DEF EndsLast
    <2> QED
      BY <1>1, <1>5, <2>1
  <1>6. ASSUME NEW s, OnlyOnce(q, s)
        PROVE  OnlyOnce(Tail(q), s) /\ ~(s = Head(q) /\ s \in ToSet(Tail(q)))
    <2>1. \A i \in 1..(Len(q) - 1) : i + 1 # 1
      BY <1>1
    <2>2. \A i, j \in 1..(Len(q) - 1) : i + 1 = j + 1 => i = j
      BY <1>1
    <2> QED
      BY <1>1, <1>6, <2>1, <2>2 DEF OnlyOnce, ToSet
  <1> QED
    BY <1>3, <1>4, <1>5, <1>6

LEMMA AppendSet ==
    ASSUME NEW S, NEW q \in Seq(S), NEW e
    PROVE  /\ ToSet(Append(q, e)) = ToSet(q) \cup {e}
           /\ NoFin(q) => EndsLast(Append(q, e))
           /\ \A s : s # e /\ OnlyOnce(q, s) => OnlyOnce(Append(q, e), s)
           /\ e \notin ToSet(q) => OnlyOnce(Append(q, e), e)
           /\ Len(Append(q, e)) = Len(q) + 1 /\ Append(q, e)[Len(q) + 1] = e
           /\ q # <<>> => Head(Append(q, e)) = Head(q)
  <1> DEFINE r == Append(q, e)
  <1>1. /\ DOMAIN r = 1..(Len(q) + 1) /\ DOMAIN q = 1..Len(q) /\ Len(q) \in Nat
        /\ \A i \in 1..Len(q) : r[i] = q[i] /\ i \in 1..(Len(q) + 1)
        /\ r[Len(q) + 1] = e /\ Len(q) + 1 \in 1..(Len(q) + 1) /\ Len(r) = Len(q) + 1
        /\ q # <<>> => Head(r) = Head(q)
    OBVIOUS
  <1>2. \A i \in 1..(Len(q) + 1) : i \in 1..Len(q) \/ i = Len(q) + 1
    BY <1>1
  <1> HIDE DEF r
  <1>3. ToSet(r) = ToSet(q) \cup {e}
    BY <1>1, <1>2 DEF ToSet
  <1>4. NoFin(q) => EndsLast(r)
    BY <1>1, <1>2 DEF NoFin, ToSet, EndsLast
  <1>5. /\ \A s : s # e /\ OnlyOnce(q, s) => OnlyOnce(r, s)
        /\ e \notin ToSet(q) => OnlyOnce(r, e)
    BY <1>1, <1>2 DEF ToSet, OnlyOnce
  <1> QED
    BY <1>1, <1>3, <1>4, <1>5 DEF r

LEMMA JoinSet ==
    ASSUME NEW S, NEW p \in Seq(S), NEW q \in Seq(S)
    PROVE  /\ ToSet(p \o q) = ToSet(p) \cup ToSet(q)
           /\ NoFin(p) /\ EndsLast(q) => EndsLast(p \o q)
  <1> DEFINE r == p \o q
  <1>1. /\ DOMAIN r = 1..(Len(p) + Len(q)) /\ Len(p) \in Nat /\ Len(q) \in Nat
        /\ DOMAIN p = 1..Len(p) /\ DOMAIN q = 1..Len(q) /\ Len(r) = Len(p) + Len(q)
        /\ \A i \in 1..Len(p) : r[i] = p[i] /\ i \in DOMAIN r
        /\ \A i \in DOMAIN r : i > Len(p) => i - Len(p) \in 1..Len(q) /\ r[i] = q[i - Len(p)]
    OBVIOUS
  <1>2. ASSUME NEW i \in 1..Len(q)
        PROVE  Len(p) + i \in DOMAIN r /\ r[Len(p) + i] = q[i]
    OBVIOUS
  <1> HIDE DEF r
  <1>3. \A i \in DOMAIN r : i \in 1..Len(p) \/ i > Len(p)
    BY <1>1
  <1>4. ToSet(r) = ToSet(p) \cup ToSet(q)
    <2>1. ToSet(p) \subseteq ToSet(r)
      BY <1>1 DEF ToSet
    <2>2. ToSet(q) \subseteq ToSet(r)
      BY <1>1, <1>2 DEF ToSet
    <2>3. ASSUME NEW i \in DOMAIN r PROVE r[i] \in ToSet(p) \cup ToSet(q)
      BY <1>1, <1>3 DEF ToSet
    <2>4. ToSet(r) \subseteq ToSet(p) \cup ToSet(q)
      BY <2>3 DEF ToSet
    <2> QED
      BY <2>1, <2>2, <2>4
  <1>5. ASSUME NoFin(p), EndsLast(q) PROVE EndsLast(r)
    <2> SUFFICES ASSUME NEW i \in DOMAIN r, r[i] = Fin PROVE i = Len(p) + Len(q)
      BY <1>1 DEF EndsLast
    <2>1. i > Len(p)
      BY <1>1, <1>3, <1>5 DEF NoFin, ToSet
    <2>2. i - Len(p) = Len(q)
      BY <1>1, <1>5, <2>1 DEF EndsLast
    <2> QED
      BY <1>1, <2>2
  <1> QED
    BY <1>4, <1>5 DEF r

LEMMA JoinThree ==
    ASSUME NEW S, NEW p \in Seq(S), NEW q \in Seq(S), NEW r \in Seq(S)
    PROVE  p \o (q \o r) = (p \o q) \o r
  OBVIOUS

LEMMA OneWritten ==
    ASSUME NEW S, NEW w \in Seq(S), NEW p \in S
    PROVE  Append(w, p) = w \o <<p>> /\ Append(w, p) \in Seq(S)
  <1>1. Append(w, p) = w \o <<p>>
    OBVIOUS
  <1>2. Append(w, p) \in Seq(S)
    OBVIOUS
  <1> QED
    BY <1>1, <1>2

LEMMA TwoWritten ==
    ASSUME NEW S, NEW w \in Seq(S), NEW p \in S, NEW q \in S
    PROVE  w \o <<p, q>> = Append(w, p) \o <<q>>
  <1>1. w \o <<p, q>> = Append(Append(w, p), q)
    OBVIOUS
  <1> QED
    BY <1>1, OneWritten

LEMMA FewSet ==
    ASSUME NEW e, NEW s
    PROVE  /\ ToSet(<<>>) = {} /\ ToSet(<<e>>) = {e} /\ EndsLast(<<>>) /\ EndsLast(<<e>>)
           /\ OnlyOnce(<<>>, s) /\ OnlyOnce(<<e>>, s)
  BY DEF ToSet, EndsLast, OnlyOnce

LEMMA EmptySet ==
    ASSUME NEW S, NEW q \in Seq(S)
    PROVE  ToSet(q) = {} <=> q = <<>>
  BY DEF ToSet

LEMMA ClosedSet ==
    ASSUME NEW S, NEW q \in Seq(S), NEW u, NEW r \in AfterClose(q, u)
    PROVE  /\ ToSet(r) \subseteq ToSet(q) \cup {Fin} /\ Fin \in ToSet(r)
           /\ ~u => ToSet(q) \subseteq ToSet(r)
           /\ EndsLast(q) => EndsLast(r)
           /\ \A s : s # Fin /\ OnlyOnce(q, s) => OnlyOnce(r, s)
           /\ ~u /\ q # <<>> => Head(r) = Head(q) /\ r # <<>>
  <1>1. \/ r = <<Fin>> /\ u
        \/ r = q /\ Fin \in ToSet(q)
        \/ r = Append(q, Fin) /\ NoFin(q)
    BY DEF AfterClose, NoFin
  <1>2. CASE r = <<Fin>> /\ u
    BY <1>2, FewSet
  <1>3. CASE r = q /\ Fin \in ToSet(q)
    BY <1>3
  <1>4. CASE r = Append(q, Fin) /\ NoFin(q)
    <2>1. Append(q, Fin) # <<>>
      OBVIOUS
    <2> QED
      BY <1>4, <2>1, AppendSet
  <1> QED
    BY <1>1, <1>2, <1>3, <1>4

LEMMA FewMessages ==
    ASSUME NEW q
    PROVE  /\ Contents(<<>>) = {} /\ EndsAlone(<<>>) /\ Contents(<<q>>) = ToSet(q)
  <1>1. DOMAIN <<>> = {} /\ DOMAIN <<q>> = {1} /\ <<q>>[1] = q
    OBVIOUS
  <1> QED
    BY <1>1 DEF Contents, EndsAlone

LEMMA MoreMessages ==
    ASSUME NEW S, NEW m \in Seq(Seq(S)), NEW q \in Seq(S)
    PROVE  /\ m \o <<q>> \in Seq(Seq(S))
           /\ Contents(m \o <<q>>) = Contents(m) \cup ToSet(q)
  <1> DEFINE r == m \o <<q>>
  <1>1. /\ DOMAIN r = 1..(Len(m) + 1) /\ DOMAIN m = 1..Len(m) /\ Len(m) \in Nat
        /\ \A i \in 1..Len(m) : r[i] = m[i] /\ i \in 1..(Len(m) + 1)
        /\ r[Len(m) + 1] = q /\ Len(m) + 1 \in 1..(Len(m) + 1)
        /\ r \in Seq(Seq(S))
    OBVIOUS
  <1>2. \A i \in 1..(Len(m) + 1) : i \in 1..Len(m) \/ i = Len(m) + 1
    BY <1>1
  <1> HIDE DEF r
  <1>3. Contents(r) = Contents(m) \cup ToSet(q)
    BY <1>1, <1>2 DEF Contents
  <1> QED
    BY <1>1, <1>3 DEF r

LEMMA FirstMessage ==
    ASSUME NEW S, NEW m \in Seq(Seq(S)), m # <<>>
    PROVE  Contents(m) = ToSet(Head(m)) \cup Contents(Tail(m))
  <1>1. /\ DOMAIN Tail(m) = 1..(Len(m) - 1) /\ DOMAIN m = 1..Len(m) /\ Len(m) \in Nat \ {0}
        /\ \A i \in 1..(Len(m) - 1) : Tail(m)[i] = m[i + 1] /\ i + 1 \in 1..Len(m)
        /\ Head(m) = m[1] /\ 1 \in 1..Len(m)
    OBVIOUS
  <1>2. \A i \in 1..Len(m) : i # 1 => i - 1 \in 1..(Len(m) - 1) /\ (i - 1) + 1 = i
    BY <1>1, Before
  <1>3. \A i \in DOMAIN m : i = 1 \/ (i - 1 \in DOMAIN Tail(m) /\ m[i] = Tail(m)[i - 1])
    BY <1>1, <1>2
  <1>4. Contents(m) \subseteq ToSet(m[1]) \cup Contents(Tail(m))
    BY <1>3 DEF Contents
  <1>5. Contents(Tail(m)) \subseteq Contents(m) /\ ToSet(m[1]) \subseteq Contents(m)
    BY <1>1 DEF Contents
  <1> QED
    BY <1>1, <1>4, <1>5

LEMMA SingleMessage ==
    ASSUME NEW e
    PROVE  SubSeq(<<e>>, 1, 1) = <<e>> /\ SubSeq(<<e>>, 1 + 1, 1) = <<>>
  <1>1. <<e>> \in Seq({e}) /\ Len(<<e>>) = 1 /\ 1 \in 0..Len(<<e>>) /\ <<e>>[1] = e
    OBVIOUS
  <1> DEFINE p == SubSeq(<<e>>, 1, 1)
             r == SubSeq(<<e>>, 1 + 1, Len(<<e>>))
  <1>2. /\ p \in Seq({e}) /\ Len(p) = 1 /\ p[1] = e
        /\ r \in Seq({e}) /\ Len(r) = 0
    BY <1>1, Subsequence
  <1> HIDE DEF p, r
  <1>3. p = <<e>> /\ r = <<>>
    BY <1>2
  <1> QED
    BY <1>1, <1>3 DEF p, r

-----------------------------------------------------------------------------
(* What a step does to one direction *)

\* The first n pieces of the source's data are written to the stream.
Taking(d, n) ==
    /\ n \in Chunks(in[d]) /\ handler[Reader(d)] # "closed"
    /\ d = "up" => handler.server # "new"
    /\ in'[d] = SubSeq(in[d], n + 1, Len(in[d]))
    /\ ~dead => wire'[d] = wire[d] \o <<SubSeq(in[d], 1, n)>>
    /\ dead => wire'[d] = wire[d]
    /\ UNCHANGED <<rest[d], stream[d], out[d], got[d], sent[d], peer, dead>>

\* The stream is opened, with the head of an upgrade in a second message.
Opening(d) ==
    /\ d = "up" /\ handler.server = "new" /\ ~dead /\ Empty(d)
    /\ \/ in'[d] = in[d] /\ wire'[d] = <<<<Hdr>>>>
       \/ kind = "ws" /\ in'[d] = Tail(in[d]) /\ wire'[d] = <<<<Hdr>>, <<1>>>>
    /\ UNCHANGED <<rest[d], stream[d], out[d], got[d], sent[d], peer, dead>>

\* The first n pieces of the stream are written to the destination.
Passing(d, n) ==
    /\ n \in Chunks(stream[d]) /\ handler[Writer(d)] # "closed"
    /\ d = "up" => handler.client # "new"
    /\ stream'[d] = SubSeq(stream[d], n + 1, Len(stream[d]))
    /\ IF peer[Dest(d)] = "gone" THEN out'[d] = out[d]
                                 ELSE out'[d] = out[d] \o SubSeq(stream[d], 1, n)
    /\ UNCHANGED <<in[d], wire[d], rest[d], got[d], sent[d], handler, peer, dead>>

\* The handler that reads the source's data closes the stream,
ReaderCloses(d) ==
    /\ handler[Reader(d)] # "closed" /\ handler'[Reader(d)] = "closed"
    /\ handler'[Writer(d)] = handler[Writer(d)]
    /\ \/ wire'[d] = wire[d]
       \/ wire'[d] = wire[d] \o <<<<Fin>>>>
       \/ wire'[d] = wire[d] \o <<<<Refusal>>, <<Fin>>>>
    /\ UNCHANGED <<in[d], rest[d], stream[d], out[d], got[d], sent[d], peer, dead>>

\* and the one that writes to the destination closes its socket, after a last
\* answer; the client's closes none that it has not opened.
Answering(d, q) ==
    \/ stream'[d] = stream[d] /\ q \in {<<>>, <<Refusal>>}
    \/ /\ d = "down"
       /\ \E n \in Chunks(stream[d]) :
             /\ q = SubSeq(stream[d], 1, n)
             /\ stream[d][n] \in {Total(d), Refusal}
             /\ stream'[d] = SubSeq(stream[d], n + 1, Len(stream[d]))
WriterCloses(d) ==
    /\ handler[Writer(d)] # "closed" /\ handler'[Writer(d)] = "closed"
    /\ handler'[Reader(d)] = handler[Reader(d)]
    /\ \/ \E q : /\ Answering(d, q)
                 /\ out'[d] \in AfterClose(out[d] \o q,
                        (d = "up" \/ kind # "http") /\ in[Other(d)] # <<>>)
       \/ d = "up" /\ peer.local = "absent" /\ UNCHANGED <<stream[d], out[d]>>
    /\ UNCHANGED <<in, wire[d], rest[d], got[d], sent[d], peer, dead>>

\* Nothing is moved here.
Still(d) ==
    UNCHANGED <<in[d], wire[d], rest[d], stream[d], out[d], got[d], sent[d]>>

\* All that a step may do to direction d.
Flow(d) == \/ Still(d) \/ Opening(d) \/ ReaderCloses(d) \/ WriterCloses(d)
           \/ (\E n \in Nat : Taking(d, n)) \/ (\E n \in Nat : Passing(d, n))
           \/ (d = "up" /\ ReadHeader) \/ WSRead(d) \/ SessionDies
           \/ Send(d) \/ Shut(d) \/ Leave(d) \/ Receive(d)

LEMMA ServerFlow ==
    ASSUME IInv, Server, NEW d \in Dir
    PROVE  Flow(d)
  <1>1. TypeOK /\ Dir = {"up", "down"}
    BY Ends DEF IInv
  <1>2. CASE OpenStream
    <2>1. CASE d = "up"
      <3>1. Opening("up")
        <4>1. Empty("up")
          BY <1>2 DEF OpenStream, IInv, ServerNewWF
        <4>2. wire'["up"] = <<>> \o <<<<Hdr>>>>
                               \o (IF kind = "ws" THEN <<<<1>>>> ELSE <<>>)
          BY <1>1, <1>2, <4>1 DEF OpenStream, Empty, TypeOK
        <4>3. <<<<Hdr>>>> \o <<>> = <<<<Hdr>>>>
          OBVIOUS
        <4>4. wire'["up"] = IF kind = "ws" THEN <<<<Hdr>>, <<1>>>> ELSE <<<<Hdr>>>>
          BY <4>2, <4>3, TwoMessages
        <4>5. in'["up"] = IF kind = "ws" THEN Tail(in["up"]) ELSE in["up"]
          BY <1>1, <1>2 DEF OpenStream, TypeOK
        <4> QED
          BY <1>2, <4>1, <4>4, <4>5 DEF OpenStream, Opening, ends
      <3> QED
        BY <2>1, <3>1 DEF Flow
    <2>2. CASE d = "down"
      BY <1>1, <1>2, <2>2 DEF OpenStream, Flow, Still, TypeOK, data, ends
    <2> QED
      BY <1>1, <2>1, <2>2
  <1>3. CASE SendRequest
    <2>1. CASE d = "up"
      <3>1. PICK n \in Chunks(in["up"]) :
              /\ in' = [in EXCEPT !["up"] = SubSeq(@, n + 1, Len(@))]
              /\ wire' = Written("up", <<SubSeq(in["up"], 1, n)>>)
        BY <1>3 DEF SendRequest
      <3>2. n \in Nat
        BY DEF Chunks
      <3>3. Taking("up", n)
        BY <1>1, <1>3, <3>1, Ends DEF SendRequest, Taking, Written, TypeOK, data, ends
      <3> QED
        BY <2>1, <3>2, <3>3 DEF Flow
    <2>2. CASE d = "down"
      BY <1>1, <1>3, <2>2 DEF SendRequest, Flow, Still, Written, TypeOK, data, ends
    <2> QED
      BY <1>1, <2>1, <2>2
  <1>4. ASSUME OpenFails \/ ServerPipeEnds \/ SendRequestFails \/ RelayResponseFails
        PROVE  Flow(d)
    <2>1. /\ UNCHANGED <<kind, in, rest, stream, ends, dead>>
          /\ handler.server # "closed"
          /\ wire' = wire \/ wire' = CloseStream("up")
          /\ \E q \in {<<>>, <<Refusal>>} : ServerCloses(q)
      BY <1>4 DEF OpenFails, ServerPipeEnds, SendRequestFails, RelayResponseFails,
                  ErrorAnswer
    <2>2. PICK q \in {<<>>, <<Refusal>>} : ServerCloses(q)
      BY <2>1
    <2>3. /\ handler'.server = "closed" /\ handler'.client = handler.client
          /\ out'["up"] = out["up"]
          /\ out'["down"] \in AfterClose(out["down"] \o q, kind # "http" /\ in["up"] # <<>>)
      BY <1>1, <2>2 DEF ServerCloses, TypeOK
    <2>4. CASE d = "up"
      <3>1. wire'["up"] = wire["up"] \/ wire'["up"] = wire["up"] \o <<<<Fin>>>>
        BY <1>1, <2>1 DEF CloseStream, Written, TypeOK
      <3>2. ReaderCloses("up")
        BY <2>1, <2>3, <3>1, Ends DEF ReaderCloses, ends
      <3> QED
        BY <2>4, <3>2 DEF Flow
    <2>5. CASE d = "down"
      <3>1. wire'["down"] = wire["down"]
        BY <1>1, <2>1 DEF CloseStream, Written, TypeOK
      <3>2. Answering("down", q)
        BY <2>1 DEF Answering
      <3>3. WriterCloses("down")
        BY <2>1, <2>3, <3>1, <3>2, Ends DEF WriterCloses, ends
      <3> QED
        BY <2>5, <3>3 DEF Flow
    <2> QED
      BY <1>1, <2>4, <2>5
  <1>5. CASE RelayResponse
    <2> DEFINE s == stream["down"]
    <2>1. PICK n \in Chunks(s) :
            /\ stream' = [stream EXCEPT !["down"] = SubSeq(@, n + 1, Len(@))]
            /\ IF s[n] \in {Total("down"), Refusal}
               THEN /\ ServerCloses(SubSeq(s, 1, n))
                    /\ wire' = CloseStream("up")
               ELSE /\ out' = Delivered("down", SubSeq(s, 1, n))
                    /\ UNCHANGED <<handler, wire>>
      BY <1>5 DEF RelayResponse
    <2>2. /\ UNCHANGED <<kind, in, rest, ends, dead>> /\ handler.server = "response"
          /\ n \in Nat
      BY <1>5 DEF RelayResponse, Chunks
    <2>3. /\ stream'["up"] = stream["up"]
          /\ stream'["down"] = SubSeq(s, n + 1, Len(s))
      BY <1>1, <2>1 DEF TypeOK
    <2>4. CASE s[n] \in {Total("down"), Refusal}
      <3>1. ServerCloses(SubSeq(s, 1, n)) /\ wire' = CloseStream("up")
        BY <2>1, <2>4
      <3>2. /\ handler'.server = "closed" /\ handler'.client = handler.client
            /\ out'["up"] = out["up"]
            /\ out'["down"] \in AfterClose(out["down"] \o SubSeq(s, 1, n),
                                           kind # "http" /\ in["up"] # <<>>)
        BY <1>1, <3>1 DEF ServerCloses, TypeOK
      <3>3. CASE d = "up"
        <4>1. wire'["up"] = wire["up"] \/ wire'["up"] = wire["up"] \o <<<<Fin>>>>
          BY <1>1, <3>1 DEF CloseStream, Written, TypeOK
        <4>2. ReaderCloses("up")
          BY <2>2, <2>3, <3>2, <4>1, Ends DEF ReaderCloses, ends
        <4> QED
          BY <3>3, <4>2 DEF Flow
      <3>4. CASE d = "down"
        <4>1. wire'["down"] = wire["down"]
          BY <1>1, <3>1 DEF CloseStream, Written, TypeOK
        <4>2. Answering("down", SubSeq(s, 1, n))
          BY <2>3, <2>4 DEF Answering
        <4>3. WriterCloses("down")
          BY <2>2, <3>2, <4>1, <4>2, Ends DEF WriterCloses, ends
        <4> QED
          BY <3>4, <4>3 DEF Flow
      <3> QED
        BY <1>1, <3>3, <3>4
    <2>5. CASE s[n] \notin {Total("down"), Refusal}
      <3>1. out' = Delivered("down", SubSeq(s, 1, n)) /\ UNCHANGED <<handler, wire>>
        BY <2>1, <2>5
      <3>2. CASE d = "up"
        <4>1. out'["up"] = out["up"]
          BY <1>1, <3>1 DEF Delivered, TypeOK
        <4>2. Still("up")
          BY <2>2, <2>3, <3>1, <4>1 DEF Still, ends
        <4> QED
          BY <3>2, <4>2 DEF Flow
      <3>3. CASE d = "down"
        <4>1. IF peer[Dest("down")] = "gone" THEN out'["down"] = out["down"]
              ELSE out'["down"] = out["down"] \o SubSeq(s, 1, n)
          BY <1>1, <3>1 DEF Delivered, TypeOK
        <4>2. Passing("down", n)
          BY <2>2, <2>3, <3>1, <4>1, Ends DEF Passing, ends
        <4> QED
          BY <2>2, <3>3, <4>2 DEF Flow
      <3> QED
        BY <1>1, <3>2, <3>3
    <2> QED
      BY <2>4, <2>5
  <1> QED
    BY <1>2, <1>3, <1>4, <1>5 DEF Server

LEMMA ClientFlow ==
    ASSUME IInv, Client, NEW d \in Dir
    PROVE  Flow(d)
  <1>1. TypeOK /\ Dir = {"up", "down"}
    BY Ends DEF IInv
  <1>2. CASE ReadHeader
    BY <1>1, <1>2 DEF ReadHeader, Flow, Still, TypeOK, data, ends
  <1>3. CASE Dial
    BY <1>3 DEF Dial, Flow, Still, data
  <1>4. ASSUME ReadHeaderFails \/ DialFails \/ ClientPipeEnds
        PROVE  Flow(d)
    <2>1. /\ UNCHANGED <<kind, in, rest, stream, ends, dead>>
          /\ handler.client # "closed"
          /\ handler' = [handler EXCEPT !.client = "closed"]
      BY <1>4 DEF ReadHeaderFails, DialFails, ClientPipeEnds, data
    <2>2. handler'.client = "closed" /\ handler'.server = handler.server
      BY <1>1, <2>1 DEF TypeOK
    <2>3. \/ wire' = Written("down", <<<<Fin>>>>)
          \/ wire' = Written("down", <<<<Refusal>>, <<Fin>>>>)
      BY <1>4, TwoMessages DEF ReadHeaderFails, DialFails, ClientPipeEnds, CloseStream
    <2>4. /\ wire'["up"] = wire["up"]
          /\ \/ wire'["down"] = wire["down"]
             \/ wire'["down"] = wire["down"] \o <<<<Fin>>>>
             \/ wire'["down"] = wire["down"] \o <<<<Refusal>>, <<Fin>>>>
      BY <1>1, <2>3 DEF Written, TypeOK
    <2>5. \/ UNCHANGED out /\ peer.local = "absent"
          \/ \E q \in AfterClose(out["up"], in["down"] # <<>>) :
                 out' = [out EXCEPT !["up"] = q]
      BY <1>4 DEF ReadHeaderFails, DialFails, ClientPipeEnds, LocalClosed, IInv, ClientNewWF
    <2>6. CASE d = "down"
      <3>1. out'["down"] = out["down"]
        BY <1>1, <2>5 DEF TypeOK
      <3>2. ReaderCloses("down")
        BY <2>1, <2>2, <2>4, <3>1, Ends DEF ReaderCloses, ends
      <3> QED
        BY <2>6, <3>2 DEF Flow
    <2>7. CASE d = "up"
      <3>1. out["up"] \o <<>> = out["up"]
        BY <1>1, Types
      <3>2. \/ UNCHANGED <<stream["up"], out["up"]>> /\ peer.local = "absent"
            \/ out'["up"] \in AfterClose(out["up"] \o <<>>, in["down"] # <<>>)
        BY <1>1, <2>1, <2>5, <3>1 DEF TypeOK
      <3>3. Answering("up", <<>>)
        BY <2>1 DEF Answering
      <3>4. WriterCloses("up")
        BY <2>1, <2>2, <2>4, <3>2, <3>3, Ends DEF WriterCloses, ends
      <3> QED
        BY <2>7, <3>4 DEF Flow
    <2> QED
      BY <1>1, <2>6, <2>7
  <1> QED
    BY <1>2, <1>3, <1>4 DEF Client

LEMMA Flows ==
    ASSUME IInv, [Next]_vars, NEW d \in Dir
    PROVE  Flow(d)
  <1>1. TypeOK /\ Dir = {"up", "down"}
    BY Ends DEF IInv
  <1>2. CASE UNCHANGED vars
    BY <1>2 DEF vars, data, ends, Flow, Still
  <1>3. ASSUME NEW e \in Dir, CopyIn(e) PROVE Flow(d)
    <2>1. CASE d = e
      <3>1. PICK n \in Chunks(in[d]) :
              /\ in' = [in EXCEPT ![d] = SubSeq(@, n + 1, Len(@))]
              /\ wire' = Written(d, <<SubSeq(in[d], 1, n)>>)
        BY <1>3, <2>1 DEF CopyIn
      <3>2. n \in Nat
        BY DEF Chunks
      <3>3. d = "up" => handler.server # "new"
        BY <1>3, <2>1 DEF CopyIn, IInv, ServerNewWF
      <3>4. Taking(d, n)
        BY <1>1, <1>3, <2>1, <3>1, <3>3 DEF CopyIn, Taking, Written, TypeOK, data, ends
      <3> QED
        BY <3>2, <3>4 DEF Flow
    <2>2. CASE d # e
      BY <1>1, <1>3, <2>2 DEF CopyIn, Flow, Still, Written, TypeOK, data, ends
    <2> QED
      BY <2>1, <2>2
  <1>4. ASSUME NEW e \in Dir, CopyOut(e) PROVE Flow(d)
    <2>1. PICK n \in Chunks(stream[e]) :
            /\ stream' = [stream EXCEPT ![e] = SubSeq(@, n + 1, Len(@))]
            /\ out' = Delivered(e, SubSeq(stream[e], 1, n))
      BY <1>4 DEF CopyOut
    <2>2. CASE d = e
      <3>1. n \in Nat
        BY DEF Chunks
      <3>2. d = "up" => handler.client # "new"
        BY <1>4, <2>2 DEF CopyOut, IInv, ClientNewWF
      <3>3. /\ stream'[d] = SubSeq(stream[d], n + 1, Len(stream[d]))
            /\ IF peer[Dest(d)] = "gone" THEN out'[d] = out[d]
               ELSE out'[d] = out[d] \o SubSeq(stream[d], 1, n)
        BY <1>1, <2>1, <2>2 DEF Delivered, TypeOK
      <3>4. Passing(d, n)
        BY <1>4, <2>1, <2>2, <3>2, <3>3 DEF CopyOut, Passing, data, ends
      <3> QED
        BY <3>1, <3>4 DEF Flow
    <2>3. CASE d # e
      <3>1. stream'[d] = stream[d] /\ out'[d] = out[d]
        BY <1>1, <2>1, <2>3 DEF Delivered, TypeOK
      <3> QED
        BY <1>4, <3>1 DEF CopyOut, Flow, Still, ends
    <2> QED
      BY <2>2, <2>3
  <1>5. ASSUME NEW e \in Dir, CopyInEnds(e) \/ CopyOutEnds(e) \/ ReceiveEnd(e) PROVE Flow(d)
    BY <1>5 DEF CopyInEnds, CopyOutEnds, ReceiveEnd, Flow, Still, data, ends
  <1>6. ASSUME NEW e \in Dir, Send(e) \/ Shut(e) PROVE Flow(d)
    BY <1>1, <1>6 DEF Send, Shut, Flow, Still, TypeOK
  <1>7. ASSUME NEW e \in Dir, Leave(e) \/ Receive(e) PROVE Flow(d)
    BY <1>1, <1>7 DEF Leave, Receive, Flow, Still, TypeOK
  <1>8. ASSUME NEW e \in Dir, WSRead(e) PROVE Flow(d)
    BY <1>1, <1>8 DEF WSRead, Flow, Still, TypeOK, ends
  <1>9. CASE SessionDies
    BY <1>9 DEF Flow
  <1> QED
    BY <1>2, <1>3, <1>4, <1>5, <1>6, <1>7, <1>8, <1>9, ServerFlow, ClientFlow DEF Next, Peers

-----------------------------------------------------------------------------
(* The inductive invariant *)

\* What is under way in direction d, by stages.
Waiting(d) == sent[d] \in ToSet(in[d])
Transit(d) == ToSet(stream[d]) \cup ToSet(rest[d]) \cup Contents(wire[d])
Passed(d) == ToSet(got[d]) \cup ToSet(out[d])

Closed(h) == handler[h] = "closed"

\* Pieces are numbered as they are sent, and the last one is in one place.
Bounded(d) == (Passed(d) \cup Transit(d) \cup ToSet(in[d])) \cap Nat \subseteq 1..sent[d]
Once(d) == /\ OnlyOnce(in[d], sent[d])
           /\ Waiting(d) => sent[d] \notin Passed(d) \cup Transit(d)

\* A socket ends when its source has closed it; until then its last piece is
\* the last one sent.
SourceWF(d) ==
    /\ EndsLast(in[d])
    /\ Fin \in ToSet(in[d]) => peer[Source(d)] \in {"shut", "gone"}
    /\ in[d] # <<>> /\ peer[Source(d)] \in {"absent", "open"} =>
           in[d][Len(in[d])] = sent[d]

\* An end is the last thing there is (in a message of its own), and comes of
\* a close.
StreamEnds(d) ==
    /\ Fin \in Transit(d) => Closed(Reader(d))
    /\ EndsAlone(wire[d])
    /\ NoFin(rest[d])
    /\ EndsLast(stream[d])
    /\ Fin \in ToSet(stream[d]) => rest[d] = <<>> /\ wire[d] = <<>>
OutEnds(d) == EndsLast(out[d]) /\ (Fin \in ToSet(out[d]) => Closed(Writer(d)))

HandlerWF ==
    /\ handler.server \in {"request", "response"} => kind = "http"
    /\ handler.server = "response" => sent["up"] = Total("up") /\ ~Waiting("up")
    /\ handler.server = "new" => /\ peer.local = "absent"
                                 /\ kind # "tcp" => Head(in["up"]) = 1

\* The receiver is gone and has missed something; or a handler that has
\* closed has left something unread.
Missed(d) == peer[Dest(d)] = "gone" /\ Len(got[d]) < sent[d]
Unheard(d) == Missed(d) \/ (Closed(Reader(d)) /\ Waiting(d))

\* A receiver that is gone and has missed nothing has nothing on its way.
NothingMissed(d) ==
    /\ peer[Dest(d)] = "gone" /\ ~Missed(d)
    /\ ~dead /\ ~Closed(Writer(d)) /\ ~Closed(Reader(d))
    => Transit(d) = {} /\ ToSet(in[d]) \subseteq {Fin}

\* Why a copy ends.
CopiesWF(d) ==
    /\ into[d] = "done" =>
           dead \/ Closed(Reader(d)) \/ peer[Source(d)] \in {"shut", "gone"}
    /\ outof[d] = "done" =>
           dead \/ Closed(Reader(d)) \/ Closed(Writer(d)) \/ Missed(d)

\* The source sends no more.
Quiet(d) == \/ peer[Source(d)] \in {"shut", "gone"}
            \/ sent[d] = Total(d)
            \/ peer[Source(d)] = "absent" /\ Closed("client")

\* The receiver of d ended something itself, or was not heard.
Excused(d) == \/ dead
              \/ peer[Dest(d)] \in {"shut", "gone"}
              \/ peer[Dest(d)] = "absent" /\ Closed("client")
              \/ Unheard(Other(d))

\* Unless it did, the last piece is on its way, past every copy and handler
\* that has come to its end.
Carried(d) ==
    ~Excused(d) =>
        /\ sent[d] > 0 => sent[d] \in Passed(d) \cup Transit(d) \cup ToSet(in[d])
        /\ Closed(Reader(d)) \/ into[d] = "done" => ~Waiting(d) /\ Quiet(d)
        /\ Closed(Writer(d)) \/ outof[d] = "done" =>
               /\ ~Waiting(d) /\ Quiet(d)
               /\ sent[d] > 0 => sent[d] \in Passed(d)

HeardInv ==
    /\ HandlerWF
    /\ \A d \in Dir : /\ Bounded(d) /\ Once(d) /\ SourceWF(d)
                      /\ StreamEnds(d) /\ OutEnds(d)
                      /\ NothingMissed(d) /\ CopiesWF(d) /\ Carried(d)

-----------------------------------------------------------------------------
(* Handlers and peers *)

LEMMA ClosedStays ==
    ASSUME TypeOK, [Next]_vars, NEW d \in Dir
    PROVE  /\ Closed(Reader(d)) => Closed(Reader(d))'
           /\ Closed(Writer(d)) => Closed(Writer(d))'
           /\ Closed("client") => Closed("client")'
           /\ dead => dead'
  <1>1. dead => dead'
    BY Moves DEF SessionDies
  <1> QED
    BY <1>1, Onward, Ends DEF Closed

LEMMA PeersNext ==
    ASSUME IInv, [Next]_vars, NEW d \in Dir
    PROVE  \/ peer'[Source(d)] = peer[Source(d)]
           \/ Shut(d) /\ peer[Source(d)] = "open" /\ peer'[Source(d)] = "shut"
           \/ Leave(d) /\ peer[Source(d)] \in {"open", "shut"} /\ peer'[Source(d)] = "gone"
           \/ /\ Dial /\ d = "down" /\ peer[Source(d)] = "absent"
              /\ peer'[Source(d)] = "open" /\ ~Closed("client")
  <1>1. TypeOK /\ Dir = {"up", "down"}
    BY Ends DEF IInv
  <1>2. peer \in [public : {"open", "shut", "gone"},
                  local : {"absent", "open", "shut", "gone"}]
    BY <1>1 DEF TypeOK
  <1>3. CASE UNCHANGED peer
    BY <1>3
  <1>4. CASE Dial
    <2>1. peer.local = "absent" /\ handler.client = "dial"
      BY <1>4 DEF Dial, IInv, ClientNewWF
    <2>2. peer' = [peer EXCEPT !.local = "open"]
      BY <1>4 DEF Dial
    <2> QED
      BY <1>1, <1>2, <1>4, <2>1, <2>2, Ends DEF Closed
  <1>5. ASSUME NEW e \in Dir, Shut(e)
        PROVE  \/ peer'[Source(d)] = peer[Source(d)]
               \/ Shut(d) /\ peer[Source(d)] = "open" /\ peer'[Source(d)] = "shut"
    BY <1>1, <1>2, <1>5, Ends DEF Shut
  <1>6. ASSUME NEW e \in Dir, Leave(e)
        PROVE  \/ peer'[Source(d)] = peer[Source(d)]
               \/ Leave(d) /\ peer[Source(d)] \in {"open", "shut"} /\ peer'[Source(d)] = "gone"
    BY <1>1, <1>2, <1>6, Ends DEF Leave
  <1> QED
    BY <1>3, <1>4, <1>5, <1>6, Moves

LEMMA Sending ==
    ASSUME TypeOK, NEW d \in Dir, Send(d)
    PROVE  /\ in'[d] = Append(in[d], sent[d] + 1) /\ sent'[d] = sent[d] + 1
           /\ peer[Source(d)] = "open" /\ sent[d] < Total(d)
           /\ sent[d] + 1 \in Nat /\ sent[d] + 1 # Fin /\ sent[d] + 1 # sent[d]
           /\ UNCHANGED <<kind, handler, copies, wire, rest, stream, out, peer, got, dead>>
  <1>1. sent[d] \in Nat
    BY Types
  <1>2. \A k \in Nat : k + 1 \in Nat /\ k + 1 # Fin /\ k + 1 # k
    BY MarkAssumption
  <1>3. in'[d] = Append(in[d], sent[d] + 1) /\ sent'[d] = sent[d] + 1
    BY DEF Send, TypeOK
  <1> QED
    BY <1>1, <1>2, <1>3 DEF Send

LEMMA Reading ==
    ASSUME TypeOK, NEW d \in Dir, WSRead(d)
    PROVE  /\ \E m \in Seq(Item) : \E n \in 0..Len(m) :
                 /\ n > 0
                 /\ stream'[d] = stream[d] \o SubSeq(m, 1, n)
                 /\ rest'[d] = SubSeq(m, n + 1, Len(m))
                 /\ \/ rest[d] # <<>> /\ m = rest[d] /\ wire'[d] = wire[d]
                    \/ /\ rest[d] = <<>> /\ wire[d] # <<>>
                       /\ m = Head(wire[d]) /\ wire'[d] = Tail(wire[d])
           /\ UNCHANGED <<kind, handler, copies, in, out, ends, dead>>
  <1> DEFINE m == IF rest[d] # <<>> THEN rest[d] ELSE Head(wire[d])
  <1>1. rest[d] \in Seq(Item) /\ wire[d] \in Seq(Seq(Item))
    BY Types
  <1>2. /\ \/ rest[d] # <<>> /\ m = rest[d] /\ wire' = wire
           \/ /\ rest[d] = <<>> /\ wire[d] # <<>>
              /\ m = Head(wire[d]) /\ wire' = [wire EXCEPT ![d] = Tail(@)]
        /\ UNCHANGED <<kind, handler, copies, in, out, ends, dead>>
        /\ \E n \in 1..Len(m) :
               /\ stream' = [stream EXCEPT ![d] = @ \o SubSeq(m, 1, n)]
               /\ rest' = [rest EXCEPT ![d] = SubSeq(m, n + 1, Len(m))]
    BY DEF WSRead
  <1>3. m \in Seq(Item)
    BY <1>1, <1>2
  <1> HIDE DEF m
  <1>4. PICK n \in 1..Len(m) :
               /\ stream' = [stream EXCEPT ![d] = @ \o SubSeq(m, 1, n)]
               /\ rest' = [rest EXCEPT ![d] = SubSeq(m, n + 1, Len(m))]
    BY <1>2
  <1>5. n \in 0..Len(m) /\ n > 0
    BY <1>3
  <1>6. /\ stream'[d] = stream[d] \o SubSeq(m, 1, n)
        /\ rest'[d] = SubSeq(m, n + 1, Len(m))
        /\ wire' = [wire EXCEPT ![d] = Tail(@)] => wire'[d] = Tail(wire[d])
    BY <1>4 DEF TypeOK
  <1> QED
    BY <1>2, <1>3, <1>5, <1>6

LEMMA SourceNext ==
    ASSUME IInv, [Next]_vars, NEW d \in Dir, SourceWF(d)
    PROVE  SourceWF(d)'
  <1> DEFINE q == in[d]
  <1>1. TypeOK /\ Dir = {"up", "down"} /\ q \in Seq(Item) /\ Len(q) \in Nat
    BY Ends, Types, Numbers DEF IInv
  <1>2. CASE Send(d)
    <2>1. /\ in'[d] = Append(q, sent[d] + 1) /\ sent'[d] = sent[d] + 1 /\ UNCHANGED peer
          /\ peer[Source(d)] = "open" /\ sent[d] + 1 # Fin
      BY <1>1, <1>2, Sending
    <2>2. NoFin(q)
      BY <2>1 DEF SourceWF, NoFin
    <2> QED
      BY <1>1, <2>1, <2>2, AppendSet DEF SourceWF, NoFin
  <1>3. CASE Shut(d)
    <2>1. in'[d] = Append(q, Fin) /\ peer'[Source(d)] = "shut" /\ peer[Source(d)] = "open"
      BY <1>1, <1>3, Ends DEF Shut, TypeOK
    <2>2. NoFin(q)
      BY <2>1 DEF SourceWF, NoFin
    <2> QED
      BY <1>1, <2>1, <2>2, AppendSet DEF SourceWF
  <1>4. CASE Leave(d)
    <2>1. PICK r \in AfterClose(q, HasData(out[Other(d)])) : in'[d] = r
      BY <1>1, <1>4 DEF Leave, TypeOK
    <2>2. peer'[Source(d)] = "gone"
      BY <1>1, <1>4, Ends DEF Leave, TypeOK
    <2> QED
      BY <1>1, <2>1, <2>2, ClosedSet DEF SourceWF
  <1>5. ASSUME ~Shut(d), ~Leave(d), in'[d] = q, sent'[d] = sent[d]
        PROVE  SourceWF(d)'
    <2>1. CASE peer'[Source(d)] = peer[Source(d)]
      BY <1>5, <2>1 DEF SourceWF
    <2>2. CASE d = "down" /\ peer[Source(d)] = "absent"
      <3>1. q = <<>>
        BY <2>2, Ends DEF IInv, AbsentWF
      <3> QED
        BY <1>5, <3>1, FewSet DEF SourceWF
    <2> QED
      BY <1>5, <2>1, <2>2, PeersNext
  <1>6. ASSUME NEW n \in Nat, Taking(d, n)
        PROVE  SourceWF(d)'
    <2> DEFINE r == SubSeq(q, n + 1, Len(q))
    <2>1. in'[d] = r /\ sent'[d] = sent[d] /\ UNCHANGED peer /\ n \in Chunks(q)
      BY <1>6 DEF Taking
    <2>2. n \in 0..Len(q) /\ Len(r) = Len(q) - n /\ (r # <<>> => n < Len(q) /\ q # <<>>)
      <3>1. n \in 0..Len(q) /\ Len(r) = Len(q) - n /\ r \in Seq(Item)
        BY <1>1, <2>1, Chunk
      <3>2. Len(r) = 0 => r = <<>>
        BY <3>1
      <3>3. Len(q) = 0 => n = 0
        BY <1>1, <3>1
      <3>4. q = <<>> => Len(q) = 0
        OBVIOUS
      <3> HIDE DEF q, r
      <3> QED
        BY <1>1, <3>1, <3>2, <3>3, <3>4
    <2>3. /\ ToSet(r) \subseteq ToSet(q) /\ (EndsLast(q) => EndsLast(r))
          /\ n < Len(q) => r[Len(q) - n] = q[Len(q)]
      BY <1>1, <2>2, SplitSet
    <2> QED
      BY <2>1, <2>2, <2>3 DEF SourceWF
  <1>7. CASE Opening(d)
    <2>1. CASE in'[d] = q
      BY <1>7, <2>1 DEF Opening, SourceWF
    <2>2. CASE in'[d] = Tail(q) /\ kind = "ws"
      <3>1. q # <<>> /\ UNCHANGED peer /\ sent'[d] = sent[d]
        BY <1>7, <2>2 DEF Opening, IInv, ServerNewWF
      <3>2. /\ ToSet(Tail(q)) \subseteq ToSet(q) /\ (EndsLast(q) => EndsLast(Tail(q)))
        BY <1>1, <3>1, TailSet
      <3>3. Tail(q) # <<>> => Tail(q)[Len(Tail(q))] = q[Len(q)]
        BY <1>1, <3>1
      <3> QED
        BY <2>2, <3>1, <3>2, <3>3 DEF SourceWF
    <2> QED
      BY <1>7, <2>1, <2>2 DEF Opening
  <1>8. CASE Still(d) \/ ReaderCloses(d) \/ WriterCloses(d) \/ \E n \in Nat : Passing(d, n)
    <2>1. in'[d] = q /\ sent'[d] = sent[d]
      BY <1>8 DEF Still, ReaderCloses, WriterCloses, Passing
    <2> QED
      BY <1>3, <1>4, <1>5, <2>1
  <1>9. CASE ReadHeader \/ WSRead(d) \/ SessionDies \/ Receive(d)
    <2>1. in'[d] = q /\ sent'[d] = sent[d]
      BY <1>9 DEF ReadHeader, WSRead, SessionDies, Receive, ends
    <2> QED
      BY <1>3, <1>4, <1>5, <2>1
  <1> QED
    BY <1>2, <1>3, <1>4, <1>6, <1>7, <1>8, <1>9, Flows DEF Flow

-----------------------------------------------------------------------------
(* Ends stay behind *)

\* Messages without an end, and one that is the end, behind others.
LEMMA EndsAloneMore ==
    ASSUME NEW S, NEW m \in Seq(Seq(S)), Fin \notin Contents(m), NEW q \in Seq(S),
           NoFin(q) \/ q = <<Fin>>
    PROVE  EndsAlone(m \o <<q>>)
  <1> DEFINE r == m \o <<q>>
  <1>1. /\ DOMAIN r = 1..(Len(m) + 1) /\ DOMAIN m = 1..Len(m) /\ Len(m) \in Nat
        /\ \A i \in 1..Len(m) : r[i] = m[i]
        /\ r[Len(m) + 1] = q /\ Len(r) = Len(m) + 1
    OBVIOUS
  <1>2. \A i \in 1..(Len(m) + 1) : i \in 1..Len(m) \/ i = Len(m) + 1
    BY <1>1
  <1>3. \A i \in DOMAIN m : Fin \notin ToSet(m[i])
    BY DEF Contents
  <1> HIDE DEF r
  <1>4. EndsAlone(r)
    BY <1>1, <1>2, <1>3 DEF EndsAlone, NoFin
  <1> QED
    BY <1>4 DEF r

LEMMA EndsAloneTail ==
    ASSUME NEW S, NEW m \in Seq(Seq(S)), m # <<>>, EndsAlone(m)
    PROVE  /\ EndsAlone(Tail(m))
           /\ Fin \in ToSet(Head(m)) => Head(m) = <<Fin>> /\ Tail(m) = <<>>
  <1>1. /\ DOMAIN Tail(m) = 1..(Len(m) - 1) /\ DOMAIN m = 1..Len(m) /\ Len(m) \in Nat \ {0}
        /\ \A i \in 1..(Len(m) - 1) : Tail(m)[i] = m[i + 1] /\ i + 1 \in 1..Len(m)
        /\ Head(m) = m[1] /\ 1 \in 1..Len(m) /\ Len(Tail(m)) = Len(m) - 1
    OBVIOUS
  <1>2. EndsAlone(Tail(m))
    <2>1. \A n \in Nat : \A i \in 1..(n - 1) : i + 1 = n => i = n - 1
      OBVIOUS
    <2>2. \A i \in 1..(Len(m) - 1) : i + 1 = Len(m) => i = Len(m) - 1
      BY <1>1, <2>1
    <2> QED
      BY <1>1, <2>2 DEF EndsAlone
  <1>3. Fin \in ToSet(Head(m)) => Head(m) = <<Fin>> /\ Len(m) = 1
    BY <1>1 DEF EndsAlone
  <1>4. Len(m) = 1 => Tail(m) = <<>>
    <2>1. Tail(m) \in Seq(Seq(S))
      OBVIOUS
    <2>2. \A n \in Nat : n = 1 => n - 1 = 0
      OBVIOUS
    <2>3. Len(m) = 1 => Len(Tail(m)) = 0
      BY <1>1, <2>2
    <2>4. \A r \in Seq(Seq(S)) : Len(r) = 0 => r = <<>>
      OBVIOUS
    <2> QED
      BY <2>1, <2>3, <2>4
  <1> QED
    BY <1>2, <1>3, <1>4

\* Nothing with an end has been written before the reader closes.
LEMMA NoEndYet ==
    ASSUME TypeOK, NEW d \in Dir, StreamEnds(d), ~Closed(Reader(d))
    PROVE  NoFin(stream[d]) /\ NoFin(rest[d]) /\ Fin \notin Contents(wire[d])
  BY DEF StreamEnds, Transit, NoFin

LEMMA StreamEndsWritten ==
    ASSUME TypeOK, NEW d \in Dir, StreamEnds(d), ~Closed(Reader(d)), NEW q \in Seq(Item),
           NoFin(q) \/ (q = <<Fin>> /\ Closed(Reader(d))'),
           wire'[d] = wire[d] \o <<q>>, rest'[d] = rest[d], stream'[d] = stream[d]
    PROVE  StreamEnds(d)'
  <1>1. NoFin(stream[d]) /\ NoFin(rest[d]) /\ Fin \notin Contents(wire[d])
    BY NoEndYet
  <1>2. wire[d] \in Seq(Seq(Item))
    BY Types
  <1>3. EndsAlone(wire'[d]) /\ Contents(wire'[d]) = Contents(wire[d]) \cup ToSet(q)
    BY <1>1, <1>2, EndsAloneMore, MoreMessages
  <1>4. Fin \in Transit(d)' => Closed(Reader(d))'
    BY <1>1, <1>3 DEF Transit, NoFin
  <1> QED
    BY <1>1, <1>3, <1>4 DEF StreamEnds, NoFin

LEMMA StreamEndsRead ==
    ASSUME TypeOK, [Next]_vars, NEW d \in Dir, StreamEnds(d), WSRead(d)
    PROVE  StreamEnds(d)'
  <1> DEFINE s == stream[d]
             w == wire[d]
  <1>1. PICK m \in Seq(Item) : \E n \in 0..Len(m) :
                 /\ n > 0
                 /\ stream'[d] = s \o SubSeq(m, 1, n)
                 /\ rest'[d] = SubSeq(m, n + 1, Len(m))
                 /\ \/ rest[d] # <<>> /\ m = rest[d] /\ wire'[d] = w
                    \/ rest[d] = <<>> /\ w # <<>> /\ m = Head(w) /\ wire'[d] = Tail(w)
    BY Reading
  <1>2. PICK n \in 0..Len(m) :
                 /\ n > 0
                 /\ stream'[d] = s \o SubSeq(m, 1, n)
                 /\ rest'[d] = SubSeq(m, n + 1, Len(m))
                 /\ \/ rest[d] # <<>> /\ m = rest[d] /\ wire'[d] = w
                    \/ rest[d] = <<>> /\ w # <<>> /\ m = Head(w) /\ wire'[d] = Tail(w)
    BY <1>1
  <1> DEFINE p == SubSeq(m, 1, n)
             r == SubSeq(m, n + 1, Len(m))
  <1>3. s \in Seq(Item) /\ w \in Seq(Seq(Item)) /\ p \in Seq(Item) /\ r \in Seq(Item)
    <2>1. s \in Seq(Item) /\ w \in Seq(Seq(Item))
      BY Types
    <2> QED
      BY <2>1, Subsequence
  <1>4. NoFin(s)
    BY <1>2 DEF StreamEnds, NoFin
  <1>5. ToSet(m) = ToSet(p) \cup ToSet(r) /\ ToSet(s \o p) = ToSet(s) \cup ToSet(p)
    <2>1. ToSet(m) = ToSet(p) \cup ToSet(r)
      BY SplitSet
    <2> HIDE DEF p, r, s
    <2>2. ToSet(s \o p) = ToSet(s) \cup ToSet(p)
      BY <1>3, JoinSet
    <2> QED
      BY <2>1, <2>2
  <1>6. /\ Contents(w) = ToSet(m) \cup Contents(wire'[d]) \/ ToSet(m) = ToSet(rest[d])
        /\ Contents(wire'[d]) \subseteq Contents(w)
        /\ ToSet(m) \subseteq Contents(w) \cup ToSet(rest[d])
        /\ EndsAlone(wire'[d])
    <2>1. CASE m = rest[d] /\ wire'[d] = w
      BY <2>1 DEF StreamEnds
    <2>2. CASE w # <<>> /\ m = Head(w) /\ wire'[d] = Tail(w)
      <3>1. EndsAlone(w)
        BY DEF StreamEnds
      <3> HIDE DEF w
      <3>2. Contents(w) = ToSet(m) \cup Contents(Tail(w)) /\ EndsAlone(Tail(w))
        BY <1>3, <2>2, <3>1, FirstMessage, EndsAloneTail
      <3> QED
        BY <2>2, <3>2
    <2> QED
      BY <1>2, <2>1, <2>2
  <1>7. Fin \in Transit(d)' => Closed(Reader(d))'
    <2>1. Transit(d)' \subseteq Transit(d)
      BY <1>2, <1>5, <1>6 DEF Transit
    <2> QED
      BY <2>1, ClosedStays DEF StreamEnds
  <1>8. CASE NoFin(m)
    <2>1. NoFin(p) /\ NoFin(r)
      BY <1>5, <1>8 DEF NoFin
    <2>2. NoFin(s \o p)
      BY <1>4, <1>5, <2>1 DEF NoFin
    <2>3. EndsLast(s \o p)
      BY <2>2 DEF NoFin, EndsLast, ToSet
    <2> QED
      BY <1>2, <1>6, <1>7, <2>1, <2>2, <2>3 DEF StreamEnds, NoFin
  <1>9. CASE ~NoFin(m)
    <2>1. m # rest[d]
      BY <1>9 DEF StreamEnds
    <2>2. m = <<Fin>> /\ wire'[d] = <<>>
      BY <1>2, <1>3, <1>9, <2>1, EndsAloneTail DEF StreamEnds, NoFin
    <2>3. Len(m) = 1 /\ n = 1
      BY <1>2, <2>2
    <2>4. p = <<Fin>> /\ r = <<>>
      <3>1. SubSeq(<<Fin>>, 1, 1) = <<Fin>> /\ SubSeq(<<Fin>>, 1 + 1, 1) = <<>>
        BY SingleMessage
      <3> QED
        BY <2>2, <2>3, <3>1
    <2>5. EndsLast(s \o p)
      BY <1>3, <1>4, <2>4, JoinSet, FewSet
    <2>6. NoFin(r)
      BY <2>4, FewSet DEF NoFin
    <2> QED
      BY <1>2, <1>6, <1>7, <2>2, <2>4, <2>5, <2>6 DEF StreamEnds
  <1> QED
    BY <1>8, <1>9

LEMMA StreamEndsNext ==
    ASSUME IInv, [Next]_vars, NEW d \in Dir, StreamEnds(d)
    PROVE  StreamEnds(d)'
  <1> DEFINE s == stream[d]
  <1>1. /\ TypeOK /\ Dir = {"up", "down"} /\ s \in Seq(Item) /\ in[d] \in Seq(Item)
        /\ wire[d] \in Seq(Seq(Item))
    BY Ends, Types DEF IInv
  <1>2. Closed(Reader(d)) => Closed(Reader(d))'
    BY <1>1, ClosedStays
  <1>3. ASSUME wire'[d] = wire[d], rest'[d] = rest[d], stream'[d] = s
        PROVE  StreamEnds(d)'
    BY <1>2, <1>3 DEF StreamEnds, Transit
  <1>4. ASSUME NEW r, stream'[d] = r, wire'[d] = wire[d], rest'[d] = rest[d],
               ToSet(r) \subseteq ToSet(s), EndsLast(s) => EndsLast(r)
        PROVE  StreamEnds(d)'
    <2>1. Transit(d)' \subseteq Transit(d)
      BY <1>4 DEF Transit
    <2> QED
      BY <1>2, <1>4, <2>1 DEF StreamEnds
  <1>0. ASSUME NEW n \in Chunks(s)
        PROVE  /\ ToSet(SubSeq(s, n + 1, Len(s))) \subseteq ToSet(s)
               /\ EndsLast(s) => EndsLast(SubSeq(s, n + 1, Len(s)))
    <2>1. n \in 0..Len(s)
      BY <1>1, Chunk
    <2> QED
      BY <1>1, <2>1, SplitSet
  <1>5. CASE Opening(d)
    <2>1. Hdr \in Item /\ 1 \in Item /\ Hdr # Fin /\ 1 # Fin /\ <<Hdr>> \in Seq(Item)
          /\ <<1>> \in Seq(Item)
      BY MarkAssumption DEF Item
    <2>2. <<<<Hdr>>>> = <<>> \o <<<<Hdr>>>> /\ <<<<Hdr>>, <<1>>>> = <<<<Hdr>>>> \o <<<<1>>>>
      BY TwoMessages
    <2>3. /\ NoFin(<<Hdr>>) /\ NoFin(<<1>>) /\ Fin \notin Contents(<<>>)
          /\ Contents(<<<<Hdr>>>>) = {Hdr} /\ ToSet(<<1>>) = {1}
          /\ <<>> \in Seq(Seq(Item)) /\ <<<<Hdr>>>> \in Seq(Seq(Item))
      BY <2>1, NoFinFew, FewMessages, FewSet
    <2>4. /\ EndsAlone(<<<<Hdr>>>>) /\ EndsAlone(<<<<Hdr>>, <<1>>>>)
      <3>1. EndsAlone(<<>> \o <<<<Hdr>>>>)
        BY <2>1, <2>3, EndsAloneMore
      <3>2. EndsAlone(<<<<Hdr>>>> \o <<<<1>>>>)
        BY <2>1, <2>3, EndsAloneMore
      <3> QED
        BY <2>2, <3>1, <3>2
    <2>5. Contents(<<<<Hdr>>, <<1>>>>) = {Hdr} \cup {1}
      <3>1. Contents(<<<<Hdr>>>> \o <<<<1>>>>) = Contents(<<<<Hdr>>>>) \cup ToSet(<<1>>)
        BY <2>1, <2>3, MoreMessages, ZenonT(30)
      <3> QED
        BY <2>2, <2>3, <3>1
    <2>6. NoFin(<<>>) /\ EndsLast(<<>>) /\ ToSet(<<>>) = {}
      BY FewSet DEF NoFin
    <2>7. stream'[d] = <<>> /\ rest'[d] = <<>> /\ wire'[d] \in {<<<<Hdr>>>>, <<<<Hdr>>, <<1>>>>}
      BY <1>5 DEF Opening, Empty
    <2>8. Fin \notin Transit(d)'
      BY <2>1, <2>3, <2>5, <2>6, <2>7 DEF Transit
    <2> QED
      BY <2>4, <2>6, <2>7, <2>8 DEF StreamEnds, NoFin
  <1>6. ASSUME NEW n \in Nat, Taking(d, n) PROVE StreamEnds(d)'
    <2>1. NoFin(SubSeq(in[d], 1, n)) /\ SubSeq(in[d], 1, n) \in Seq(Item)
      BY <1>1, <1>6, NoFinChunk, Chunk DEF Taking
    <2>2. ~Closed(Reader(d)) /\ rest'[d] = rest[d] /\ stream'[d] = stream[d]
      BY <1>6 DEF Taking, Closed
    <2>3. CASE wire'[d] = wire[d]
      BY <1>3, <2>2, <2>3
    <2>4. CASE wire'[d] = wire[d] \o <<SubSeq(in[d], 1, n)>>
      BY <1>1, <2>1, <2>2, <2>4, StreamEndsWritten
    <2> QED
      BY <1>6, <2>3, <2>4 DEF Taking
  <1>7. CASE ReaderCloses(d)
    <2>1. /\ ~Closed(Reader(d)) /\ Closed(Reader(d))' /\ rest'[d] = rest[d]
          /\ stream'[d] = stream[d]
      BY <1>7 DEF ReaderCloses, Closed
    <2>2. <<Fin>> \in Seq(Item) /\ <<Refusal>> \in Seq(Item) /\ NoFin(<<Refusal>>)
      BY NoFinFew, MarkAssumption DEF Item
    <2>3. CASE wire'[d] = wire[d]
      BY <1>3, <2>1, <2>3
    <2>4. CASE wire'[d] = wire[d] \o <<<<Fin>>>>
      BY <1>1, <2>1, <2>2, <2>4, StreamEndsWritten
    <2>5. CASE wire'[d] = wire[d] \o <<<<Refusal>>, <<Fin>>>>
      <3> DEFINE p == <<Refusal>>
                 q == <<Fin>>
                 v == Append(wire[d], p)
      <3>1. NoFin(stream[d]) /\ NoFin(rest[d]) /\ Fin \notin Contents(wire[d])
        BY <1>1, <2>1, NoEndYet
      <3>2. v \in Seq(Seq(Item)) /\ Contents(v) = Contents(wire[d]) \cup ToSet(p)
        <4>1. p \in Seq(Item)
          BY <2>2
        <4> HIDE DEF p
        <4>2. v = wire[d] \o <<p>> /\ v \in Seq(Seq(Item))
          BY <1>1, <4>1, OneWritten
        <4> HIDE DEF v
        <4> QED
          BY <1>1, <4>1, <4>2, MoreMessages
      <3>3. wire'[d] = wire[d] \o <<p, q>> /\ p \in Seq(Item) /\ q \in Seq(Item)
        BY <2>2, <2>5
      <3>4. wire'[d] = v \o <<q>>
        <4> HIDE DEF p, q
        <4> QED
          BY <1>1, <3>3, TwoWritten
      <3> HIDE DEF v
      <3>5. EndsAlone(wire'[d])
        BY <2>2, <3>1, <3>2, <3>4, EndsAloneMore DEF NoFin
      <3>6. EndsLast(stream[d])
        BY DEF StreamEnds
      <3> QED
        BY <2>1, <3>1, <3>5, <3>6 DEF StreamEnds, NoFin
    <2> QED
      BY <1>7, <2>3, <2>4, <2>5 DEF ReaderCloses
  <1>8. CASE WriterCloses(d)
    <2>1. wire'[d] = wire[d] /\ rest'[d] = rest[d]
      BY <1>8 DEF WriterCloses
    <2>2. CASE stream'[d] = s
      BY <1>3, <2>1, <2>2
    <2>3. ASSUME NEW n \in Chunks(s), stream'[d] = SubSeq(s, n + 1, Len(s))
          PROVE  StreamEnds(d)'
      BY <1>0, <1>4, <2>1, <2>3
    <2> QED
      BY <1>8, <2>2, <2>3 DEF WriterCloses, Answering
  <1>9. ASSUME NEW n \in Nat, Passing(d, n) PROVE StreamEnds(d)'
    BY <1>0, <1>4, <1>9 DEF Passing
  <1>10. CASE d = "up" /\ ReadHeader
    <2>1. stream'[d] = Tail(s) /\ s # <<>> /\ wire'[d] = wire[d] /\ rest'[d] = rest[d]
      BY <1>1, <1>10 DEF ReadHeader, HasData, TypeOK
    <2> QED
      BY <1>1, <1>4, <2>1, TailSet
  <1>11. CASE SessionDies
    <2>1. wire'[d] = <<>> /\ rest'[d] = <<>> /\ stream'[d] = s
      BY <1>11 DEF SessionDies
    <2>2. NoFin(<<>>) /\ EndsAlone(<<>>) /\ Contents(<<>>) = {} /\ ToSet(<<>>) = {}
      BY FewSet, FewMessages DEF NoFin
    <2>3. Transit(d)' \subseteq Transit(d)
      BY <2>1, <2>2 DEF Transit
    <2> QED
      BY <1>2, <2>1, <2>2, <2>3 DEF StreamEnds
  <1>12. CASE Still(d) \/ Send(d) \/ Shut(d) \/ Leave(d) \/ Receive(d)
    BY <1>3, <1>12 DEF Still, Send, Shut, Leave, Receive
  <1> QED
    BY <1>1, <1>5, <1>6, <1>7, <1>8, <1>9, <1>10, <1>11, <1>12, StreamEndsRead, Flows DEF Flow

\* The last answer of a handler.
LEMMA LastWords ==
    ASSUME TypeOK, NEW d \in Dir, NEW q, Answering(d, q)
    PROVE  q \in Seq(Item) /\ NoFin(q) /\ ToSet(q) \subseteq ToSet(stream[d]) \cup {Refusal}
  <1>1. stream[d] \in Seq(Item)
    BY Types
  <1>2. CASE q \in {<<>>, <<Refusal>>}
    <2>1. /\ <<>> \in Seq(Item) /\ <<Refusal>> \in Seq(Item)
          /\ NoFin(<<>>) /\ NoFin(<<Refusal>>)
      BY NoFinFew, MarkAssumption DEF Item
    <2> QED
      BY <1>2, <2>1, FewSet
  <1>3. ASSUME NEW n \in Chunks(stream[d]), q = SubSeq(stream[d], 1, n)
        PROVE  q \in Seq(Item) /\ NoFin(q) /\ ToSet(q) \subseteq ToSet(stream[d])
    <2>1. n \in 0..Len(stream[d])
      BY <1>1, Chunk
    <2>2. NoFin(q) /\ q \in Seq(Item)
      BY <1>1, <1>3, Chunk, NoFinChunk
    <2>3. ToSet(q) \subseteq ToSet(stream[d])
      BY <1>1, <1>3, <2>1, SplitSet
    <2> QED
      BY <2>2, <2>3
  <1> QED
    BY <1>2, <1>3 DEF Answering

LEMMA OutEndsNext ==
    ASSUME IInv, [Next]_vars, NEW d \in Dir, OutEnds(d)
    PROVE  OutEnds(d)'
  <1> DEFINE o == out[d]
             s == stream[d]
  <1>1. TypeOK /\ o \in Seq(Item) /\ s \in Seq(Item)
    BY Types DEF IInv
  <1>2. Closed(Writer(d)) => Closed(Writer(d))'
    BY <1>1, ClosedStays
  <1>3. CASE out'[d] = o
    BY <1>2, <1>3 DEF OutEnds
  <1>4. ASSUME NEW n \in Nat, Passing(d, n) PROVE OutEnds(d)'
    <2>1. NoFin(o) /\ n \in Chunks(s)
      BY <1>4 DEF Passing, OutEnds, Closed, NoFin
    <2>2. out'[d] = o \/ out'[d] = o \o SubSeq(s, 1, n)
      BY <1>4 DEF Passing
    <2>3. CASE out'[d] = o \o SubSeq(s, 1, n)
      <3> DEFINE q == SubSeq(s, 1, n)
      <3>1. NoFin(q) /\ q \in Seq(Item)
        BY <1>1, <2>1, Chunk, NoFinChunk
      <3> HIDE DEF q
      <3>2. NoFin(o \o q)
        BY <1>1, <2>1, <3>1, NoFinJoin
      <3> QED
        BY <2>3, <3>2 DEF OutEnds, EndsLast, NoFin, ToSet, q
    <2> QED
      BY <1>3, <2>2, <2>3
  <1>5. CASE WriterCloses(d)
    <2>1. ~Closed(Writer(d)) /\ Closed(Writer(d))' /\ NoFin(o)
      BY <1>5 DEF WriterCloses, OutEnds, NoFin, Closed
    <2>2. ASSUME NEW q, Answering(d, q), NEW u, out'[d] \in AfterClose(o \o q, u)
          PROVE  OutEnds(d)'
      <3>1. q \in Seq(Item) /\ NoFin(q)
        BY <1>1, <2>2, LastWords
      <3>2. NoFin(o \o q) /\ o \o q \in Seq(Item)
        BY <1>1, <2>1, <3>1, NoFinJoin
      <3>3. EndsLast(o \o q)
        BY <3>2 DEF NoFin, EndsLast, ToSet
      <3> DEFINE p == o \o q
      <3> HIDE DEF p
      <3>4. EndsLast(out'[d])
        BY <2>2, <3>2, <3>3, ClosedSet DEF p
      <3> QED
        BY <2>1, <3>4 DEF OutEnds
    <2> QED
      BY <1>3, <1>5, <2>2 DEF WriterCloses
  <1>6. CASE Receive(d)
    <2>1. out'[d] = Tail(o) /\ o # <<>>
      BY <1>1, <1>6 DEF Receive, HasData, TypeOK
    <2>2. ToSet(Tail(o)) \subseteq ToSet(o) /\ (EndsLast(o) => EndsLast(Tail(o)))
      BY <1>1, <2>1, TailSet
    <2> QED
      BY <1>2, <2>1, <2>2 DEF OutEnds
  <1>7. ASSUME Still(d) \/ Opening(d) \/ ReaderCloses(d) \/ \E n \in Nat : Taking(d, n)
        PROVE  out'[d] = o
    BY <1>7 DEF Still, Opening, ReaderCloses, Taking
  <1>8. ASSUME ReadHeader \/ WSRead(d) \/ SessionDies \/ Send(d) \/ Shut(d) \/ Leave(d)
        PROVE  out'[d] = o
    BY <1>8 DEF ReadHeader, WSRead, SessionDies, Send, Shut, Leave
  <1> QED
    BY <1>3, <1>4, <1>5, <1>6, <1>7, <1>8, Flows DEF Flow

-----------------------------------------------------------------------------
(* Nothing appears from nowhere, and what may be lost *)

\* A writer closes its socket with something unread.
Cut(d) == /\ ~Closed(Writer(d)) /\ Closed(Writer(d))'
          /\ in[Other(d)] # <<>> /\ (d = "up" \/ kind # "http")

\* All but the sending of a new piece.
MovesOn(d) ==
    /\ sent'[d] = sent[d]
    /\ ToSet(in'[d]) \subseteq ToSet(in[d]) \cup {Fin}
    /\ OnlyOnce(in[d], sent[d]) => OnlyOnce(in'[d], sent[d])
    /\ \E C \in SUBSET ToSet(in[d]) :
          /\ Transit(d)' \subseteq Transit(d) \cup C \cup {Hdr, Refusal, Fin}
          /\ OnlyOnce(in[d], sent[d]) /\ sent[d] \in C => sent[d] \notin ToSet(in'[d])
    /\ Passed(d)' \subseteq Passed(d) \cup Transit(d) \cup {Fin, Refusal}
KeepsAll(d) ==
    /\ \/ dead' \/ ToSet(in[d]) \subseteq ToSet(in'[d]) \cup Transit(d)'
       \/ Leave(d) /\ HasData(out[Other(d)])
    /\ \/ dead' \/ Transit(d) \subseteq Transit(d)' \cup Passed(d)' \cup {Hdr}
       \/ peer[Dest(d)] = "gone" \/ Cut(d)
    /\ Passed(d) \subseteq Passed(d)' \/ Cut(d)

\* Nothing is taken from the socket.
LEMMA SourceKept ==
    ASSUME NEW d \in Dir, in'[d] = in[d], sent'[d] = sent[d],
           Transit(d)' \subseteq Transit(d) \cup {Hdr, Refusal, Fin},
           Passed(d)' \subseteq Passed(d) \cup Transit(d) \cup {Fin, Refusal}
    PROVE  MovesOn(d)
  <1>1. /\ {} \in SUBSET ToSet(in[d])
        /\ Transit(d)' \subseteq Transit(d) \cup {} \cup {Hdr, Refusal, Fin}
        /\ sent[d] \notin {}
    OBVIOUS
  <1>2. \E C \in SUBSET ToSet(in[d]) :
          /\ Transit(d)' \subseteq Transit(d) \cup C \cup {Hdr, Refusal, Fin}
          /\ OnlyOnce(in[d], sent[d]) /\ sent[d] \in C => sent[d] \notin ToSet(in'[d])
    BY <1>1
  <1> QED
    BY <1>2 DEF MovesOn

LEMMA StillSets ==
    ASSUME NEW d \in Dir, Still(d)
    PROVE  MovesOn(d) /\ KeepsAll(d)
  <1>1. Transit(d)' = Transit(d) /\ Passed(d)' = Passed(d)
    BY DEF Still, Transit, Passed
  <1>2. in'[d] = in[d] /\ sent'[d] = sent[d]
    BY DEF Still
  <1> QED
    BY <1>1, <1>2, SourceKept DEF KeepsAll

LEMMA TransitWritten ==
    ASSUME TypeOK, NEW d \in Dir, NEW q \in Seq(Item), wire'[d] = wire[d] \o <<q>>,
           rest'[d] = rest[d], stream'[d] = stream[d]
    PROVE  Transit(d)' = Transit(d) \cup ToSet(q)
  <1>1. wire[d] \in Seq(Seq(Item))
    BY Types
  <1>2. Contents(wire[d] \o <<q>>) = Contents(wire[d]) \cup ToSet(q)
    BY <1>1, MoreMessages
  <1> QED
    BY <1>2 DEF Transit

LEMMA OpeningSets ==
    ASSUME IInv, HandlerWF, NEW d \in Dir, Opening(d)
    PROVE  MovesOn(d) /\ KeepsAll(d)
  <1>1. TypeOK /\ in[d] \in Seq(Item) /\ d = "up" /\ handler.server = "new"
    BY Types DEF IInv, Opening
  <1>2. /\ Passed(d)' = Passed(d) /\ sent'[d] = sent[d]
        /\ stream'[d] = <<>> /\ rest'[d] = <<>>
    BY DEF Opening, Passed, Empty
  <1>3. Transit(d) = {}
    BY FewSet, FewMessages DEF Opening, Empty, Transit
  <1>4. CASE in'[d] = in[d] /\ wire'[d] = <<<<Hdr>>>>
    <2>1. Transit(d)' = {Hdr}
      BY <1>2, <1>4, FewSet, FewMessages DEF Transit
    <2> QED
      BY <1>2, <1>3, <1>4, <2>1, SourceKept DEF KeepsAll
  <1>5. CASE kind = "ws" /\ in'[d] = Tail(in[d]) /\ wire'[d] = <<<<Hdr>>, <<1>>>>
    <2> DEFINE p == <<Hdr>>
               q == <<1>>
    <2>1. <<>> \in Seq(Seq(Item)) /\ p \in Seq(Item) /\ q \in Seq(Item)
      BY DEF Item
    <2>2. Contents(<<p, q>>) = ToSet(p) \cup ToSet(q)
      <3> HIDE DEF p, q
      <3>1. <<p, q>> = <<p>> \o <<q>>
        BY TwoMessages
      <3>2. <<p>> \in Seq(Seq(Item))
        BY <2>1
      <3>3. Contents(<<p>> \o <<q>>) = Contents(<<p>>) \cup ToSet(q)
        BY <2>1, <3>2, MoreMessages
      <3> QED
        BY <3>1, <3>3, FewMessages
    <2>3. Transit(d)' = {Hdr, 1}
      BY <1>2, <1>5, <2>2, FewSet DEF Transit
    <2>4. Head(in[d]) = 1 /\ in[d] # <<>>
      BY <1>1, <1>5 DEF HandlerWF, IInv, ServerNewWF
    <2>5. /\ ToSet(in[d]) = {1} \cup ToSet(in'[d])
          /\ \A s : OnlyOnce(in[d], s) =>
                 OnlyOnce(in'[d], s) /\ ~(s = 1 /\ s \in ToSet(in'[d]))
      BY <1>1, <1>5, <2>4, TailSet
    <2>6. \E C \in SUBSET ToSet(in[d]) :
          /\ Transit(d)' \subseteq Transit(d) \cup C \cup {Hdr, Refusal, Fin}
          /\ OnlyOnce(in[d], sent[d]) /\ sent[d] \in C => sent[d] \notin ToSet(in'[d])
      <3>1. {1} \in SUBSET ToSet(in[d])
        BY <2>5
      <3> QED
        BY <2>3, <2>5, <3>1
    <2>7. ToSet(in'[d]) \subseteq ToSet(in[d])
      BY <2>5
    <2>8. MovesOn(d)
      BY <1>2, <2>5, <2>6, <2>7 DEF MovesOn
    <2> QED
      BY <1>2, <1>3, <2>3, <2>5, <2>8 DEF KeepsAll
  <1> QED
    BY <1>4, <1>5 DEF Opening

LEMMA TakingSets ==
    ASSUME TypeOK, NEW d \in Dir, NEW n \in Nat, Taking(d, n), dead => dead'
    PROVE  MovesOn(d) /\ KeepsAll(d)
  <1> DEFINE i == in[d]
             q == SubSeq(i, 1, n)
             r == SubSeq(i, n + 1, Len(i))
  <1>1. i \in Seq(Item) /\ n \in Chunks(i)
    BY Types DEF Taking
  <1>2. n \in 0..Len(i) /\ q \in Seq(Item)
    BY <1>1, Chunk
  <1>3. /\ ToSet(i) = ToSet(q) \cup ToSet(r)
        /\ \A s : OnlyOnce(i, s) => OnlyOnce(r, s) /\ ~(s \in ToSet(q) /\ s \in ToSet(r))
    BY <1>1, <1>2, SplitSet
  <1>4. /\ in'[d] = r /\ sent'[d] = sent[d] /\ rest'[d] = rest[d] /\ stream'[d] = stream[d]
        /\ Passed(d)' = Passed(d)
        /\ dead => wire'[d] = wire[d]
        /\ ~dead => wire'[d] = wire[d] \o <<q>>
    BY DEF Taking, Passed
  <1> HIDE DEF i, q, r
  <1>5. dead => Transit(d)' = Transit(d)
    BY <1>4 DEF Transit
  <1>6. ~dead => Transit(d)' = Transit(d) \cup ToSet(q)
    BY <1>2, <1>4, TransitWritten
  <1>7. \E C \in SUBSET ToSet(i) :
          /\ Transit(d)' \subseteq Transit(d) \cup C \cup {Hdr, Refusal, Fin}
          /\ OnlyOnce(i, sent[d]) /\ sent[d] \in C => sent[d] \notin ToSet(in'[d])
    <2>1. /\ ToSet(q) \in SUBSET ToSet(i)
          /\ Transit(d)' \subseteq Transit(d) \cup ToSet(q) \cup {Hdr, Refusal, Fin}
      BY <1>3, <1>5, <1>6
    <2> QED
      BY <1>3, <1>4, <2>1
  <1>8. MovesOn(d)
    BY <1>3, <1>4, <1>7 DEF MovesOn, i
  <1> QED
    BY <1>3, <1>4, <1>5, <1>6, <1>8 DEF KeepsAll, i

LEMMA ReadingKeeps ==
    ASSUME TypeOK, NEW d \in Dir, WSRead(d)
    PROVE  Transit(d)' = Transit(d)
  <1> DEFINE w == wire[d]
  <1>1. PICK m \in Seq(Item) : \E n \in 0..Len(m) :
                 /\ n > 0
                 /\ stream'[d] = stream[d] \o SubSeq(m, 1, n)
                 /\ rest'[d] = SubSeq(m, n + 1, Len(m))
                 /\ \/ rest[d] # <<>> /\ m = rest[d] /\ wire'[d] = w
                    \/ rest[d] = <<>> /\ w # <<>> /\ m = Head(w) /\ wire'[d] = Tail(w)
    BY Reading
  <1>2. PICK n \in 0..Len(m) :
                 /\ n > 0
                 /\ stream'[d] = stream[d] \o SubSeq(m, 1, n)
                 /\ rest'[d] = SubSeq(m, n + 1, Len(m))
                 /\ \/ rest[d] # <<>> /\ m = rest[d] /\ wire'[d] = w
                    \/ rest[d] = <<>> /\ w # <<>> /\ m = Head(w) /\ wire'[d] = Tail(w)
    BY <1>1
  <1> DEFINE s == stream[d]
             p == SubSeq(m, 1, n)
             r == SubSeq(m, n + 1, Len(m))
  <1>3. s \in Seq(Item) /\ w \in Seq(Seq(Item)) /\ p \in Seq(Item) /\ r \in Seq(Item)
    <2>1. s \in Seq(Item) /\ w \in Seq(Seq(Item))
      BY Types
    <2> QED
      BY <2>1, Subsequence
  <1>4. ToSet(m) = ToSet(p) \cup ToSet(r)
    BY SplitSet
  <1> HIDE DEF p, r, s, w
  <1>5. ToSet(s \o p) = ToSet(s) \cup ToSet(p)
    BY <1>3, JoinSet
  <1>6. ToSet(rest[d]) \cup Contents(w) = ToSet(m) \cup Contents(wire'[d])
    <2>1. CASE rest[d] # <<>> /\ m = rest[d] /\ wire'[d] = w
      BY <2>1
    <2>2. CASE rest[d] = <<>> /\ w # <<>> /\ m = Head(w) /\ wire'[d] = Tail(w)
      <3>1. Contents(w) = ToSet(Head(w)) \cup Contents(Tail(w))
        BY <1>3, <2>2, FirstMessage
      <3>2. ToSet(rest[d]) = {}
        BY <2>2, FewSet
      <3> QED
        BY <2>2, <3>1, <3>2
    <2> QED
      BY <1>2, <2>1, <2>2
  <1>7. Transit(d)' = Transit(d)
    <2>1. stream'[d] = s \o p /\ rest'[d] = r
      BY <1>2 DEF s, p, r
    <2> QED
      BY <1>4, <1>5, <1>6, <2>1 DEF Transit, w, s
  <1> QED
    BY <1>7

LEMMA ReadingSets ==
    ASSUME TypeOK, NEW d \in Dir, WSRead(d)
    PROVE  MovesOn(d) /\ KeepsAll(d)
  <1>1. Transit(d)' = Transit(d)
    BY ReadingKeeps
  <1>2. Passed(d)' = Passed(d) /\ in'[d] = in[d] /\ sent'[d] = sent[d]
    BY DEF WSRead, Passed, ends
  <1> QED
    BY <1>1, <1>2, SourceKept DEF KeepsAll

\* Pieces of the stream are written to the destination, or lost with it.
LEMMA PassingSets ==
    ASSUME TypeOK, NEW d \in Dir, NEW n \in Nat, Passing(d, n)
    PROVE  MovesOn(d) /\ KeepsAll(d)
  <1> DEFINE s == stream[d]
             q == SubSeq(s, 1, n)
             r == SubSeq(s, n + 1, Len(s))
             o == out[d]
  <1>1. s \in Seq(Item) /\ o \in Seq(Item) /\ n \in Chunks(s)
    BY Types DEF Passing
  <1>2. n \in 0..Len(s) /\ q \in Seq(Item)
    BY <1>1, Chunk
  <1>3. ToSet(s) = ToSet(q) \cup ToSet(r)
    BY <1>1, <1>2, SplitSet
  <1>4. /\ in'[d] = in[d] /\ sent'[d] = sent[d] /\ rest'[d] = rest[d] /\ wire'[d] = wire[d]
        /\ stream'[d] = r /\ got'[d] = got[d]
        /\ IF peer[Dest(d)] = "gone" THEN out'[d] = o ELSE out'[d] = o \o q
    BY DEF Passing
  <1> HIDE DEF s, q, r, o
  <1>5. ToSet(o \o q) = ToSet(o) \cup ToSet(q)
    BY <1>1, <1>2, JoinSet
  <1>6. Transit(d) = Transit(d)' \cup ToSet(q)
    BY <1>3, <1>4 DEF Transit, s
  <1>7. /\ Passed(d) \subseteq Passed(d)' /\ Passed(d)' \subseteq Passed(d) \cup ToSet(q)
        /\ peer[Dest(d)] # "gone" => Passed(d)' = Passed(d) \cup ToSet(q)
    BY <1>4, <1>5 DEF Passed, o
  <1>8. MovesOn(d)
    BY <1>4, <1>6, <1>7, SourceKept
  <1> QED
    BY <1>4, <1>6, <1>7, <1>8 DEF KeepsAll

LEMMA ReaderClosesSets ==
    ASSUME TypeOK, NEW d \in Dir, ReaderCloses(d)
    PROVE  MovesOn(d) /\ KeepsAll(d)
  <1>1. wire[d] \in Seq(Seq(Item)) /\ <<Refusal>> \in Seq(Item) /\ <<Fin>> \in Seq(Item)
    BY Types DEF Item
  <1>2. /\ Passed(d)' = Passed(d) /\ in'[d] = in[d] /\ sent'[d] = sent[d]
        /\ stream'[d] = stream[d] /\ rest'[d] = rest[d]
    BY DEF ReaderCloses, Passed
  <1>3. /\ Contents(wire[d]) \subseteq Contents(wire'[d])
        /\ Contents(wire'[d]) \subseteq Contents(wire[d]) \cup {Refusal, Fin}
    <2> DEFINE p == <<Refusal>>
               q == <<Fin>>
               v == Append(wire[d], p)
    <2>1. ToSet(p) = {Refusal} /\ ToSet(q) = {Fin}
      BY FewSet
    <2>2. p \in Seq(Item) /\ q \in Seq(Item)
      BY <1>1
    <2>3. \/ wire'[d] = wire[d] \/ wire'[d] = wire[d] \o <<q>>
          \/ wire'[d] = wire[d] \o <<p, q>>
      BY DEF ReaderCloses
    <2> HIDE DEF p, q
    <2>4. Contents(wire[d] \o <<q>>) = Contents(wire[d]) \cup ToSet(q)
      BY <1>1, <2>2, MoreMessages
    <2>5. v \in Seq(Seq(Item)) /\ Contents(v) = Contents(wire[d]) \cup ToSet(p)
      <3>1. v = wire[d] \o <<p>> /\ v \in Seq(Seq(Item))
        BY <1>1, <2>2, OneWritten
      <3> HIDE DEF v
      <3> QED
        BY <1>1, <2>2, <3>1, MoreMessages
    <2>6. wire[d] \o <<p, q>> = v \o <<q>>
      BY <1>1, <2>2, TwoWritten
    <2> HIDE DEF v
    <2>7. Contents(v \o <<q>>) = Contents(v) \cup ToSet(q)
      BY <2>2, <2>5, MoreMessages
    <2> QED
      BY <2>1, <2>3, <2>4, <2>5, <2>6, <2>7
  <1>4. /\ Transit(d)' \subseteq Transit(d) \cup {Hdr, Refusal, Fin}
        /\ Transit(d) \subseteq Transit(d)'
    BY <1>2, <1>3 DEF Transit
  <1> QED
    BY <1>2, <1>4, SourceKept DEF KeepsAll

LEMMA WriterClosesSets ==
    ASSUME TypeOK, NEW d \in Dir, WriterCloses(d)
    PROVE  MovesOn(d) /\ KeepsAll(d)
  <1> DEFINE s == stream[d]
             o == out[d]
             u == (d = "up" \/ kind # "http") /\ in[Other(d)] # <<>>
  <1>1. s \in Seq(Item) /\ o \in Seq(Item)
    BY Types
  <1>2. /\ in'[d] = in[d] /\ sent'[d] = sent[d] /\ rest'[d] = rest[d] /\ wire'[d] = wire[d]
        /\ got'[d] = got[d] /\ (u => Cut(d))
    BY DEF WriterCloses, Cut, Closed
  <1>3. CASE stream'[d] = s /\ out'[d] = o
    <2>1. Transit(d)' = Transit(d) /\ Passed(d)' = Passed(d)
      BY <1>2, <1>3 DEF Transit, Passed
    <2> QED
      BY <1>2, <2>1, SourceKept DEF KeepsAll
  <1>4. ASSUME NEW q, Answering(d, q), NEW v, v => Cut(d),
               out'[d] \in AfterClose(o \o q, v)
        PROVE  MovesOn(d) /\ KeepsAll(d)
    <2>1. q \in Seq(Item) /\ ToSet(q) \subseteq ToSet(s) \cup {Refusal}
      BY <1>4, LastWords
    <2>2. ToSet(s) \subseteq ToSet(stream'[d]) \cup ToSet(q) /\ ToSet(stream'[d]) \subseteq ToSet(s)
      <3>1. CASE stream'[d] = s
        BY <3>1
      <3>2. ASSUME NEW n \in Chunks(s), q = SubSeq(s, 1, n),
                   stream'[d] = SubSeq(s, n + 1, Len(s))
            PROVE  ToSet(s) = ToSet(q) \cup ToSet(stream'[d])
        <4>1. n \in 0..Len(s)
          BY <1>1, Chunk
        <4> QED
          BY <1>1, <3>2, <4>1, SplitSet
      <3> QED
        BY <1>4, <3>1, <3>2 DEF Answering
    <2> HIDE DEF s, o, u
    <2>3. o \o q \in Seq(Item) /\ ToSet(o \o q) = ToSet(o) \cup ToSet(q)
      BY <1>1, <2>1, JoinSet
    <2> DEFINE p == o \o q
    <2> HIDE DEF p
    <2>4. /\ ToSet(out'[d]) \subseteq ToSet(p) \cup {Fin}
          /\ ~v => ToSet(p) \subseteq ToSet(out'[d])
      <3>1. p \in Seq(Item) /\ out'[d] \in AfterClose(p, v)
        BY <1>4, <2>3 DEF p
      <3> QED
        BY <3>1, ClosedSet
    <2>5. /\ Transit(d)' \subseteq Transit(d)
          /\ Transit(d) \subseteq Transit(d)' \cup ToSet(q)
      BY <1>2, <2>2 DEF Transit, s
    <2>6. /\ Passed(d)' \subseteq Passed(d) \cup Transit(d) \cup {Fin, Refusal}
          /\ v \/ Passed(d) \cup ToSet(q) \subseteq Passed(d)'
      BY <1>2, <2>1, <2>3, <2>4 DEF Passed, Transit, o, s, p
    <2>7. MovesOn(d)
      BY <1>2, <2>5, <2>6, SourceKept
    <2> QED
      BY <1>2, <1>4, <2>5, <2>6, <2>7 DEF KeepsAll
  <1> QED
    BY <1>2, <1>3, <1>4 DEF WriterCloses

\* The header is dropped, and nothing else.
LEMMA HeaderSets ==
    ASSUME IInv, ReadHeader
    PROVE  MovesOn("up") /\ KeepsAll("up")
  <1> DEFINE s == stream["up"]
  <1>1. /\ TypeOK /\ s \in Seq(Item) /\ handler.client = "new" /\ s # <<>> /\ Head(s) # Fin
        /\ peer.local = "absent" /\ InOrder("up")
    BY Types, Ends DEF IInv, ClientNewWF, ReadHeader, HasData
  <1>2. /\ in'["up"] = in["up"] /\ sent'["up"] = sent["up"] /\ rest'["up"] = rest["up"]
        /\ wire'["up"] = wire["up"] /\ stream'["up"] = Tail(s) /\ Passed("up")' = Passed("up")
    BY <1>1 DEF ReadHeader, Passed, ends, TypeOK, Dir
  <1>3. ToSet(s) = {Head(s)} \cup ToSet(Tail(s))
    BY <1>1, TailSet
  <1>4. Head(s) = Hdr
    <2>1. Fits(Content("up"), s, 0)
      BY <1>1, Ends DEF InOrder, StreamFits, NextOut
    <2>2. 1 \in DOMAIN s /\ Head(s) = s[1] /\ 0 + 1 - 1 = 0
      BY <1>1
    <2>3. s[1] = Content("up")[0]
      BY <1>1, <2>1, <2>2 DEF Fits
    <2>4. sent["up"] \in Nat
      BY <1>1, Types, Ends
    <2>5. Content("up")[0] = Hdr
      BY <2>4, Ends DEF Content, Refused
    <2> QED
      BY <2>2, <2>3, <2>5
  <1>5. Transit("up") = Transit("up")' \cup {Hdr}
    BY <1>2, <1>3, <1>4 DEF Transit
  <1> QED
    BY <1>2, <1>5, SourceKept, Ends DEF KeepsAll

LEMMA DyingSets ==
    ASSUME NEW d \in Dir, SessionDies
    PROVE  MovesOn(d) /\ KeepsAll(d)
  <1>1. /\ in'[d] = in[d] /\ sent'[d] = sent[d] /\ Passed(d)' = Passed(d) /\ dead'
        /\ rest'[d] = <<>> /\ wire'[d] = <<>> /\ stream'[d] = stream[d]
    BY DEF SessionDies, ends, Passed
  <1>2. Transit(d)' \subseteq Transit(d)
    BY <1>1, FewSet, FewMessages DEF Transit
  <1> QED
    BY <1>1, <1>2, SourceKept DEF KeepsAll

\* A source closes its half, or all: only then something it has sent may be lost.
LEMMA SourceEndsSets ==
    ASSUME TypeOK, NEW d \in Dir, Shut(d) \/ Leave(d)
    PROVE  MovesOn(d) /\ KeepsAll(d)
  <1> DEFINE q == in[d]
  <1>1. q \in Seq(Item) /\ sent[d] # Fin
    BY Types, MarkAssumption
  <1>2. sent'[d] = sent[d] /\ Transit(d)' = Transit(d) /\ Passed(d)' = Passed(d)
    BY DEF Shut, Leave, Transit, Passed
  <1>3. /\ ToSet(in'[d]) \subseteq ToSet(q) \cup {Fin}
        /\ OnlyOnce(q, sent[d]) => OnlyOnce(in'[d], sent[d])
        /\ ToSet(q) \subseteq ToSet(in'[d]) \/ (Leave(d) /\ HasData(out[Other(d)]))
    <2>1. CASE Shut(d)
      <3>1. in'[d] = Append(q, Fin)
        BY <2>1 DEF Shut, TypeOK
      <3> QED
        BY <1>1, <3>1, AppendSet
    <2>2. CASE Leave(d)
      <3>1. PICK r \in AfterClose(q, HasData(out[Other(d)])) : in'[d] = r
        BY <2>2 DEF Leave, TypeOK
      <3> QED
        BY <1>1, <2>2, <3>1, ClosedSet
    <2> QED
      BY <2>1, <2>2
  <1>4. \E C \in SUBSET ToSet(q) :
          /\ Transit(d)' \subseteq Transit(d) \cup C \cup {Hdr, Refusal, Fin}
          /\ OnlyOnce(q, sent[d]) /\ sent[d] \in C => sent[d] \notin ToSet(in'[d])
    <2>1. {} \in SUBSET ToSet(q) /\ sent[d] \notin {}
      OBVIOUS
    <2> QED
      BY <1>2, <2>1
  <1>5. MovesOn(d)
    BY <1>2, <1>3, <1>4 DEF MovesOn
  <1> QED
    BY <1>2, <1>3, <1>5 DEF KeepsAll

LEMMA ReceivingSets ==
    ASSUME TypeOK, NEW d \in Dir, Receive(d)
    PROVE  MovesOn(d) /\ KeepsAll(d)
  <1> DEFINE o == out[d]
             g == got[d]
  <1>1. o \in Seq(Item) /\ g \in Seq(Item) /\ o # <<>>
    BY Types DEF Receive, HasData
  <1>2. /\ in'[d] = in[d] /\ sent'[d] = sent[d] /\ Transit(d)' = Transit(d)
        /\ out'[d] = Tail(o) /\ got'[d] = Append(g, Head(o))
    BY <1>1 DEF Receive, Transit, TypeOK
  <1>3. ToSet(o) = {Head(o)} \cup ToSet(Tail(o))
    BY <1>1, TailSet
  <1>4. ToSet(Append(g, Head(o))) = ToSet(g) \cup {Head(o)}
    BY <1>1, AppendSet
  <1>5. Passed(d)' = Passed(d)
    BY <1>2, <1>3, <1>4 DEF Passed
  <1> QED
    BY <1>2, <1>5, SourceKept DEF KeepsAll

LEMMA FlowSets ==
    ASSUME IInv, HandlerWF, [Next]_vars, NEW d \in Dir, ~Send(d)
    PROVE  MovesOn(d) /\ KeepsAll(d)
  <1>1. TypeOK /\ (dead => dead')
    BY ClosedStays DEF IInv
  <1>2. \A n \in Nat : Taking(d, n) => MovesOn(d) /\ KeepsAll(d)
    BY <1>1, TakingSets
  <1>3. \A n \in Nat : Passing(d, n) => MovesOn(d) /\ KeepsAll(d)
    BY <1>1, PassingSets
  <1>4. Still(d) \/ Opening(d) \/ ReaderCloses(d) \/ WriterCloses(d) =>
            MovesOn(d) /\ KeepsAll(d)
    BY <1>1, StillSets, OpeningSets, ReaderClosesSets, WriterClosesSets
  <1>5. (d = "up" /\ ReadHeader) \/ WSRead(d) \/ SessionDies => MovesOn(d) /\ KeepsAll(d)
    BY <1>1, HeaderSets, ReadingSets, DyingSets
  <1>6. Shut(d) \/ Leave(d) \/ Receive(d) => MovesOn(d) /\ KeepsAll(d)
    BY <1>1, SourceEndsSets, ReceivingSets
  <1> QED
    BY <1>2, <1>3, <1>4, <1>5, <1>6, Flows DEF Flow

\* Each piece has its number, and the last one is in one stage only.
LEMMA CountsNext ==
    ASSUME IInv, HandlerWF, [Next]_vars, NEW d \in Dir, Bounded(d), Once(d)
    PROVE  Bounded(d)' /\ Once(d)'
  <1> DEFINE k == sent[d]
  <1>1. /\ TypeOK /\ k \in Nat /\ in[d] \in Seq(Item)
        /\ {Fin, Refusal, Hdr} \cap Nat = {}
    BY Types, MarkAssumption DEF IInv
  <1>2. CASE ~Send(d)
    <2>1. MovesOn(d)
      BY <1>2, FlowSets
    <2>2. PICK C \in SUBSET ToSet(in[d]) :
             /\ Transit(d)' \subseteq Transit(d) \cup C \cup {Hdr, Refusal, Fin}
             /\ OnlyOnce(in[d], k) /\ k \in C => k \notin ToSet(in'[d])
      BY <2>1 DEF MovesOn
    <2>3. /\ sent'[d] = k /\ ToSet(in'[d]) \subseteq ToSet(in[d]) \cup {Fin}
          /\ Passed(d)' \subseteq Passed(d) \cup Transit(d) \cup {Fin, Refusal}
          /\ OnlyOnce(in'[d], k)
      BY <2>1 DEF MovesOn, Once
    <2>4. Bounded(d)'
      BY <1>1, <2>2, <2>3 DEF Bounded
    <2>5. ASSUME k \in ToSet(in'[d]) PROVE k \notin Passed(d)' \cup Transit(d)'
      <3>1. Waiting(d) /\ k \notin C
        BY <1>1, <2>2, <2>3, <2>5 DEF Waiting, Once
      <3> QED
        BY <1>1, <2>2, <2>3, <3>1 DEF Once
    <2> QED
      BY <2>3, <2>4, <2>5 DEF Once, Waiting
  <1>3. CASE Send(d)
    <2>1. /\ in'[d] = Append(in[d], k + 1) /\ sent'[d] = k + 1 /\ k + 1 \in Nat
          /\ Passed(d)' = Passed(d) /\ Transit(d)' = Transit(d)
      BY <1>1, <1>3, Sending DEF Passed, Transit
    <2>2. k + 1 \notin 1..k /\ 1..k \subseteq 1..(k + 1) /\ k + 1 \in 1..(k + 1)
      BY <1>1
    <2>3. k + 1 \notin Passed(d) \cup Transit(d) \cup ToSet(in[d])
      BY <2>1, <2>2 DEF Bounded
    <2> HIDE DEF k
    <2>4. /\ ToSet(in'[d]) = ToSet(in[d]) \cup {k + 1}
          /\ OnlyOnce(in'[d], k + 1)
      BY <1>1, <2>1, <2>3, AppendSet
    <2>5. Bounded(d)'
      BY <2>1, <2>2, <2>4 DEF Bounded, k
    <2> QED
      BY <2>1, <2>3, <2>4, <2>5 DEF Once
  <1> QED
    BY <1>2, <1>3

\* How the server's handler goes on.
LEMMA ServerSteps ==
    ASSUME TypeOK, [Next]_vars
    PROVE  \/ handler'.server \in {handler.server, "closed"}
           \/ /\ OpenStream /\ handler.server = "new"
              /\ handler'.server = IF kind = "http" THEN "request" ELSE "pipe"
           \/ /\ SendRequest /\ handler.server = "request"
              /\ handler'.server = "response"
  <1>1. CASE OpenStream
    BY <1>1 DEF OpenStream, TypeOK
  <1>2. CASE SendRequest
    BY <1>2 DEF SendRequest, TypeOK
  <1>3. CASE OpenFails \/ ServerPipeEnds \/ SendRequestFails
    BY <1>3 DEF OpenFails, ServerPipeEnds, SendRequestFails, ServerCloses, TypeOK
  <1>4. CASE RelayResponse \/ RelayResponseFails
    BY <1>4 DEF RelayResponse, RelayResponseFails, ServerCloses, TypeOK
  <1>5. CASE ReadHeader \/ ReadHeaderFails \/ Dial \/ DialFails \/ ClientPipeEnds
    BY <1>5 DEF ReadHeader, ReadHeaderFails, Dial, DialFails, ClientPipeEnds, TypeOK
  <1>6. CASE UNCHANGED handler
    BY <1>6
  <1> QED
    BY <1>1, <1>2, <1>3, <1>4, <1>5, <1>6, Moves

LEMMA HandlerWFNext ==
    ASSUME IInv, HandlerWF, [Next]_vars, Bounded("up"), Once("up")
    PROVE  HandlerWF'
  <1> DEFINE q == in["up"]
             k == sent["up"]
  <1>1. /\ TypeOK /\ "up" \in Dir /\ q \in Seq(Item) /\ k \in Nat /\ k # Fin
        /\ kind' = kind /\ Total("up") \in Nat /\ k <= Total("up")
    <2>1. TypeOK /\ "up" \in Dir /\ kind' = kind
      BY Moves, Ends DEF IInv
    <2>2. q \in Seq(Item) /\ k \in Nat /\ k # Fin
      BY <2>1, Types, MarkAssumption
    <2>3. Total("up") \in Nat /\ k <= Total("up")
      BY <2>1, PiecesAssumption DEF Total, TypeOK
    <2> QED
      BY <2>1, <2>2, <2>3
  <1>2. handler'.server \in {"request", "response"} => kind' = "http"
    BY <1>1, ServerSteps DEF HandlerWF
  <1>3. ASSUME handler'.server = "response"
        PROVE  sent'["up"] = Total("up")' /\ ~Waiting("up")'
    <2>1. Total("up")' = Total("up")
      BY <1>1 DEF Total
    <2>2. CASE handler.server = "response"
      <3>1. k = Total("up") /\ ~Waiting("up")
        BY <2>2 DEF HandlerWF
      <3>2. ~Send("up")
        BY <1>1, <3>1, Sending
      <3>3. MovesOn("up")
        BY <1>1, <3>2, FlowSets
      <3> QED
        BY <1>1, <2>1, <3>1, <3>3 DEF MovesOn, Waiting
    <2>3. CASE handler.server # "response"
      <3>1. SendRequest
        BY <1>1, <1>3, <2>3, ServerSteps
      <3>2. PICK n \in Chunks(q) :
               /\ in' = [in EXCEPT !["up"] = SubSeq(@, n + 1, Len(@))]
               /\ handler' = [handler EXCEPT !.server =
                                IF q[n] = Total("up") THEN "response" ELSE @]
        BY <3>1 DEF SendRequest
      <3>3. q[n] = Total("up") /\ n \in 1..Len(q) /\ n \in 0..Len(q)
        <4>1. n \in 1..Len(q) /\ n \in 0..Len(q)
          BY <1>1, <3>2, Chunk
        <4>2. q[n] = Total("up")
          BY <1>1, <1>3, <2>3, <3>2 DEF TypeOK
        <4> QED
          BY <4>1, <4>2
      <3>4. in'["up"] = SubSeq(q, n + 1, Len(q)) /\ sent'["up"] = k
        BY <1>1, <3>1, <3>2 DEF SendRequest, TypeOK, ends
      <3>5. q[n] \in ToSet(q) /\ q[n] \in ToSet(SubSeq(q, 1, n))
        <4>1. /\ DOMAIN q = 1..Len(q) /\ DOMAIN SubSeq(q, 1, n) = 1..n
              /\ SubSeq(q, 1, n)[n] = q[n] /\ n \in 1..n
          BY <1>1, <3>2, <3>3, Chunk
        <4> QED
          BY <3>3, <4>1 DEF ToSet
      <3>6. Total("up") \in 1..k
        BY <1>1, <3>3, <3>5 DEF Bounded
      <3>7. k = Total("up")
        BY <1>1, <3>6
      <3>8. k \notin ToSet(SubSeq(q, n + 1, Len(q)))
        BY <1>1, <3>3, <3>5, <3>7, SplitSet DEF Once
      <3> QED
        BY <2>1, <3>4, <3>7, <3>8 DEF Waiting
    <2> QED
      BY <2>2, <2>3
  <1>4. ASSUME handler'.server = "new"
        PROVE  peer'.local = "absent" /\ (kind' # "tcp" => Head(in'["up"]) = 1)
    <2>1. /\ handler.server = "new" /\ peer.local = "absent"
          /\ kind # "tcp" => Head(q) = 1 /\ q # <<>>
          /\ out["down"] = <<>> /\ into["up"] = "off" /\ handler.client \in {"new", "closed"}
      BY <1>1, <1>4, Onward DEF HandlerWF, IInv, ServerNewWF
    <2>2. peer'.local = "absent"
      <3>1. "down" \in Dir /\ Source("down") = "local" /\ ~Dial
        BY <2>1, Ends DEF Dial
      <3>2. peer'.local = peer.local \/ peer.local \in {"open", "shut"}
        BY <3>1, PeersNext
      <3> QED
        BY <2>1, <3>2
    <2>3. CASE in'["up"] = q
      BY <1>1, <2>1, <2>2, <2>3
    <2>4. ASSUME NEW e, in'["up"] = Append(q, e), kind # "tcp"
          PROVE  Head(in'["up"]) = 1
      BY <1>1, <2>1, <2>4, AppendSet
    <2>5. CASE Leave("up")
      <3>1. PICK r \in AfterClose(q, HasData(out["down"])) : in'["up"] = r
        BY <1>1, <2>5, Ends DEF Leave, TypeOK
      <3>2. ~HasData(out["down"])
        BY <2>1 DEF HasData
      <3> QED
        BY <1>1, <2>1, <2>2, <3>1, <3>2, ClosedSet
    <2>6. \/ in'["up"] = q \/ (\E e : in'["up"] = Append(q, e)) \/ Leave("up")
      <3>1. CASE UNCHANGED in
        BY <3>1
      <3>2. ASSUME OpenStream \/ SendRequest PROVE FALSE
        <4>1. handler'.server # "new"
          BY <1>1, <2>1, <3>2 DEF OpenStream, SendRequest, TypeOK
        <4> QED
          BY <1>4, <4>1
      <3>3. ASSUME NEW e \in Dir, CopyIn(e) \/ Send(e) \/ Shut(e)
            PROVE  in'["up"] = q \/ \E x : in'["up"] = Append(q, x)
        <4>1. CASE e = "up"
          <5>1. in \in [Dir -> Seq(Nat \cup {Fin})]
            BY <1>1 DEF TypeOK
          <5>2. CASE Send(e)
            <6>1. in'["up"] = Append(q, k + 1)
              BY <1>1, <4>1, <5>1, <5>2 DEF Send
            <6> QED
              BY <6>1
          <5>3. CASE Shut(e)
            <6>1. in'["up"] = Append(q, Fin)
              BY <1>1, <4>1, <5>1, <5>3 DEF Shut
            <6> QED
              BY <6>1
          <5>4. ~CopyIn(e)
            BY <2>1, <4>1 DEF CopyIn
          <5> QED
            BY <3>3, <5>2, <5>3, <5>4
        <4>2. CASE e # "up"
          <5>1. in'["up"] = q
            BY <1>1, <3>3, <4>2 DEF CopyIn, Send, Shut, TypeOK
          <5> QED
            BY <5>1
        <4> QED
          BY <4>1, <4>2
      <3>4. ASSUME NEW e \in Dir, Leave(e) PROVE in'["up"] = q \/ Leave("up")
        <4>1. CASE e # "up"
          BY <1>1, <3>4, <4>1 DEF Leave, TypeOK
        <4> QED
          BY <3>4, <4>1
      <3> QED
        BY <3>1, <3>2, <3>3, <3>4, Moves
    <2> QED
      BY <1>1, <2>2, <2>3, <2>4, <2>5, <2>6
  <1> QED
    BY <1>2, <1>3, <1>4 DEF HandlerWF

-----------------------------------------------------------------------------
(* A receiver that has got everything leaves nothing behind *)

\* Beyond the last piece there is only an end.
LEMMA OnlyEnds ==
    ASSUME NEW S, NEW q \in Seq(S), NEW c, NEW a \in Nat, NEW k \in Nat,
           DOMAIN c = 0..k, k < a, Fits(c, q, a)
    PROVE  ToSet(q) \subseteq {Fin}
  <1>1. DOMAIN q = 1..Len(q) /\ Len(q) \in Nat
    OBVIOUS
  <1>2. \A i \in 1..Len(q) : a + i - 1 \notin 0..k
    BY <1>1
  <1> QED
    BY <1>1, <1>2 DEF Fits, ToSet

LEMMA ChainBeyond ==
    ASSUME NEW S, NEW m \in Seq(Seq(S)), NEW c, NEW a \in Nat, NEW b \in Nat,
           Chain(c, m, a, b)
    PROVE  b >= a /\ \A j \in DOMAIN m : \E e \in Nat : e >= a /\ Fits(c, m[j], e)
  <1>1. PICK f \in [1..(Len(m) + 1) -> Nat] :
          /\ f[1] = a /\ f[Len(m) + 1] = b
          /\ \A j \in DOMAIN m : f[j + 1] = f[j] + Len(m[j]) /\ Fits(c, m[j], f[j])
    BY DEF Chain
  <1>2. Len(m) \in Nat /\ DOMAIN m = 1..Len(m) /\ \A j \in DOMAIN m : Len(m[j]) \in Nat
    OBVIOUS
  <1> DEFINE P == {k \in Nat : k \in 1..(Len(m) + 1) => f[k] >= a}
  <1>3. \A k \in Nat : k \in P
    <2>1. 0 \in P
      BY <1>2
    <2>2. ASSUME NEW k \in Nat, k \in P PROVE k + 1 \in P
      <3>1. CASE k \in 1..Len(m)
        <4>1. k \in 1..(Len(m) + 1) /\ k + 1 \in 1..(Len(m) + 1)
          BY <1>2, <3>1
        <4>2. f[k + 1] = f[k] + Len(m[k]) /\ Len(m[k]) \in Nat /\ f[k] \in Nat /\ f[k] >= a
          BY <1>1, <1>2, <2>2, <3>1, <4>1
        <4>3. f[k + 1] >= a
          BY <4>2
        <4> QED
          BY <4>3
      <3>2. CASE k \notin 1..Len(m) /\ k + 1 \in 1..(Len(m) + 1)
        <4>1. k + 1 = 1
          BY <1>2, <3>2
        <4>2. f[k + 1] >= a
          BY <1>1, <4>1
        <4> QED
          BY <4>2
      <3>3. CASE k + 1 \notin 1..(Len(m) + 1)
        BY <3>3
      <3> QED
        BY <3>1, <3>2, <3>3
    <2> HIDE DEF P
    <2> QED
      BY <2>1, <2>2, AllNumbers
  <1>4. \A k \in 1..(Len(m) + 1) : f[k] >= a
    BY <1>2, <1>3
  <1>5. Len(m) + 1 \in 1..(Len(m) + 1) /\ \A j \in 1..Len(m) : j \in 1..(Len(m) + 1)
    BY <1>2
  <1> QED
    BY <1>1, <1>2, <1>4, <1>5

LEMMA NothingLeft ==
    ASSUME IInv, NEW d \in Dir, StreamEnds(d), HandlerWF,
           peer[Dest(d)] # "gone", peer[Dest(d)] # "absent", Len(got[d]) >= sent[d],
           ~dead, ~Closed(Writer(d)), ~Closed(Reader(d))
    PROVE  Transit(d) = {} /\ ToSet(in[d]) \subseteq {Fin}
  <1> DEFINE c == Content(d)
             k == sent[d]
             a == NextOut(d)
             s == stream[d]
             r == rest[d]
             m == wire[d]
             i == in[d]
  <1>1. /\ TypeOK /\ k \in Nat /\ s \in Seq(Item) /\ r \in Seq(Item) /\ i \in Seq(Item)
        /\ m \in Seq(Seq(Item)) /\ Dir = {"up", "down"}
    BY Types, Ends DEF IInv
  <1>2. InOrder(d)
    BY Ends DEF IInv, OwnAnswer, Closed
  <1>3. CASE Refused(d)
    <2>1. d = "down" /\ handler.client \in {"new", "dial"} /\ in["down"] = <<>>
      BY <1>1, <1>3, Ends DEF Refused, IInv, AbsentWF, Closed, TypeOK
    <2>2. Empty("down")
      BY <2>1 DEF IInv, ClientNewWF
    <2> QED
      BY <2>1, <2>2, FewSet, FewMessages DEF Empty, Transit
  <1>4. CASE ~Refused(d)
    <2>1. /\ ~(d = "up" /\ handler.client = "new")
          /\ ~(d = "up" /\ handler.server = "new")
      BY Ends DEF IInv, ClientNewWF, HandlerWF
    <2>2. DOMAIN c = 0..k
      BY <1>4 DEF Content
    <2>3. a \in Nat /\ k < a
      <3>1. a = Len(got[d]) + Len(out[d]) + 1
        BY <2>1 DEF NextOut
      <3>2. Len(got[d]) \in Nat /\ Len(out[d]) \in Nat
        BY <1>1, Numbers
      <3> HIDE DEF a, k
      <3>3. \A x, y, z \in Nat : x >= z => x + y + 1 \in Nat /\ z < x + y + 1
        OBVIOUS
      <3> QED
        BY <1>1, <3>1, <3>2, <3>3 DEF k
    <2>4. StreamFits(d)
      BY <1>2 DEF InOrder, Closed
    <2>5. PICK w \in Nat : /\ Chain(c, m, a + Len(s) + Len(r), w)
                           /\ SourceFits(d, w)
      BY <2>4 DEF StreamFits, Closed
    <2>6. Fits(c, s, a) /\ Fits(c, r, a + Len(s)) /\ Fits(c, i, w)
      BY <2>1, <2>4, <2>5 DEF StreamFits, SourceFits, FirstIn
    <2>7. NoFin(s) /\ NoFin(r) /\ Fin \notin Contents(m)
      BY <1>1, NoEndYet
    <2> HIDE DEF c, k, a, s, r, m, i
    <2>8. a + Len(s) \in Nat /\ a + Len(s) + Len(r) \in Nat
          /\ k < a + Len(s) /\ k < a + Len(s) + Len(r)
      <3>1. Len(s) \in Nat /\ Len(r) \in Nat
        BY <1>1
      <3>2. \A x, y, z, v \in Nat : v < x => /\ x + y \in Nat /\ x + y + z \in Nat
                                             /\ v < x + y /\ v < x + y + z
        OBVIOUS
      <3> QED
        BY <1>1, <2>3, <3>1, <3>2
    <2>9. ToSet(s) \subseteq {Fin} /\ ToSet(r) \subseteq {Fin}
      BY <1>1, <2>2, <2>3, <2>6, <2>8, OnlyEnds
    <2>10. /\ w >= a + Len(s) + Len(r)
           /\ \A j \in DOMAIN m : \E e \in Nat : e >= a + Len(s) + Len(r) /\ Fits(c, m[j], e)
      BY <1>1, <2>5, <2>8, ChainBeyond
    <2>11. \A x, y, z \in Nat : z < x /\ y >= x => z < y
      OBVIOUS
    <2>12. ToSet(i) \subseteq {Fin}
      <3>1. k < w
        BY <1>1, <2>8, <2>10, <2>11
      <3> QED
        BY <1>1, <2>2, <2>6, <3>1, OnlyEnds
    <2>13. Contents(m) \subseteq {Fin}
      <3>1. ASSUME NEW j \in DOMAIN m PROVE ToSet(m[j]) \subseteq {Fin}
        <4>1. PICK e \in Nat : e >= a + Len(s) + Len(r) /\ Fits(c, m[j], e)
          BY <2>10, <3>1
        <4>2. k < e
          BY <1>1, <2>8, <2>11, <4>1
        <4>3. m[j] \in Seq(Item)
          BY <1>1, <3>1
        <4> QED
          BY <1>1, <2>2, <4>1, <4>2, <4>3, OnlyEnds
      <3> QED
        BY <3>1 DEF Contents
    <2>14. Transit(d) \subseteq {Fin} /\ Fin \notin Transit(d)
      BY <2>7, <2>9, <2>13 DEF Transit, NoFin, s, r, m
    <2> QED
      BY <2>12, <2>14 DEF i
  <1> QED
    BY <1>3, <1>4

\* Nobody has got more than was sent, unless the answer is a refusal.
LEMMA GotBounded ==
    ASSUME IInv, NEW d \in Dir, ~Closed(Writer(d)), ~Refused(d)
    PROVE  Len(got[d]) <= sent[d]
  <1> DEFINE g == got[d]
             k == sent[d]
  <1>1. TypeOK /\ g \in Seq(Nat \cup {Refusal}) /\ k \in Nat /\ Fin \notin Nat \cup {Refusal}
    BY Types, MarkAssumption DEF IInv
  <1>2. Fits(Content(d), g, 1) /\ DOMAIN Content(d) = 0..k
    BY Ends DEF IInv, OwnAnswer, Closed, InOrder, Content
  <1> HIDE DEF g, k
  <1>3. Len(g) \in Nat /\ DOMAIN g = 1..Len(g)
    BY <1>1
  <1>4. ASSUME NEW i \in 1..Len(g) PROVE i <= k
    <2>1. g[i] # Fin
      BY <1>1, <1>4
    <2>2. 1 + i - 1 \in 0..k
      BY <1>2, <1>3, <2>1 DEF Fits
    <2> QED
      BY <1>1, <1>3, <2>2
  <1>5. Len(g) <= k
    BY <1>1, <1>3, <1>4
  <1> QED
    BY <1>5 DEF g, k

LEMMA NothingMissedNext ==
    ASSUME IInv, [Next]_vars, NEW d \in Dir, HandlerWF, StreamEnds(d), NothingMissed(d)
    PROVE  NothingMissed(d)'
  <1> SUFFICES ASSUME peer'[Dest(d)] = "gone", ~Missed(d)', ~dead',
                      ~Closed(Writer(d))', ~Closed(Reader(d))'
               PROVE  Transit(d)' = {} /\ ToSet(in'[d]) \subseteq {Fin}
    BY DEF NothingMissed
  <1>1. /\ TypeOK /\ ~dead /\ ~Closed(Writer(d)) /\ ~Closed(Reader(d))
        /\ Dir = {"up", "down"} /\ sent[d] \in Nat /\ Len(got[d]) \in Nat
    BY ClosedStays, Types, Numbers, Ends DEF IInv
  <1>2. CASE peer[Dest(d)] # "gone"
    <2> DEFINE e == Other(d)
    <2>1. e \in Dir /\ Source(e) = Dest(d) /\ Other(e) = d
      BY Ends
    <2>2. Leave(e) /\ peer[Source(e)] \in {"open", "shut"}
      BY <1>2, <2>1, PeersNext
    <2>3. /\ UNCHANGED <<wire, rest, stream, sent, got>> /\ in'[d] = in[d]
      BY <1>1, <2>1, <2>2 DEF Leave, TypeOK, Other
    <2>4. ~(Len(got[d]) < sent[d])
      BY <2>3 DEF Missed
    <2>5. Len(got[d]) >= sent[d]
      BY <1>1, <2>4
    <2>6. Transit(d) = {} /\ ToSet(in[d]) \subseteq {Fin}
      BY <1>1, <1>2, <2>1, <2>2, <2>5, NothingLeft
    <2>7. Transit(d)' = Transit(d)
      BY <2>3 DEF Transit
    <2> QED
      BY <2>3, <2>6, <2>7
  <1>3. CASE peer[Dest(d)] = "gone"
    <2>1. got'[d] = got[d]
      <3>1. ~Receive(d)
        BY <1>3 DEF Receive
      <3>2. ASSUME NEW e \in Dir, Receive(e) PROVE got'[d] = got[d]
        BY <1>1, <3>1, <3>2 DEF Receive, TypeOK
      <3> QED
        BY <3>2, Moves
    <2>2. ~Send(d)
      <3>1. SUFFICES ASSUME Send(d) PROVE FALSE
        OBVIOUS
      <3>2. sent'[d] = sent[d] + 1 /\ ~Refused(d)
        BY <1>1, <3>1, Sending, Ends DEF Refused
      <3>3. Len(got[d]) <= sent[d]
        BY <1>1, <3>2, GotBounded
      <3>4. ~(Len(got[d]) < sent[d] + 1)
        BY <2>1, <3>2 DEF Missed
      <3>5. \A x, y \in Nat : x <= y => x < y + 1
        OBVIOUS
      <3> QED
        BY <1>1, <3>3, <3>4, <3>5
    <2>3. MovesOn(d)
      BY <2>2, FlowSets
    <2>4. sent'[d] = sent[d] /\ ToSet(in'[d]) \subseteq ToSet(in[d]) \cup {Fin}
      BY <2>3 DEF MovesOn
    <2>5. ~Missed(d)
      BY <1>3, <2>1, <2>4 DEF Missed
    <2>6. Transit(d) = {} /\ ToSet(in[d]) \subseteq {Fin}
      BY <1>1, <1>3, <2>5 DEF NothingMissed
    <2>7. ToSet(in'[d]) \subseteq {Fin}
      BY <2>4, <2>6
    <2>8. ToSet(stream[d]) = {}
      BY <2>6 DEF Transit
    <2>9. ASSUME NEW q \in Seq(Item), ToSet(q) \subseteq {Fin}, NEW n \in Chunks(q)
          PROVE  FALSE
      <3>1. 1 \in DOMAIN q /\ q[1] # Fin
        <4>1. n \in 1..Len(q) /\ Len(q) \in Nat /\ q[1] # Fin
          BY Chunk, <2>9 DEF Chunks
        <4> QED
          BY <4>1
      <3> QED
        BY <2>9, <3>1 DEF ToSet
    <2>10. in[d] \in Seq(Item) /\ stream[d] \in Seq(Item)
      BY <1>1, Types
    <2>11. CASE Still(d) \/ Send(d) \/ Shut(d) \/ Leave(d) \/ Receive(d)
      <3>1. Transit(d)' = Transit(d)
        BY <2>11 DEF Still, Send, Shut, Leave, Receive, Transit
      <3> QED
        BY <2>6, <2>7, <3>1
    <2>12. ~ReaderCloses(d) /\ ~WriterCloses(d) /\ ~SessionDies
      BY <1>1 DEF ReaderCloses, WriterCloses, SessionDies, Closed
    <2>13. ~Opening(d)
      BY <1>3, Ends DEF Opening, HandlerWF
    <2>14. \A n \in Nat : ~Taking(d, n)
      BY <2>6, <2>9, <2>10 DEF Taking
    <2>15. \A n \in Nat : ~Passing(d, n)
      BY <2>8, <2>9, <2>10 DEF Passing
    <2>16. ~(d = "up" /\ ReadHeader)
      BY <2>8, <2>10, EmptySet DEF ReadHeader, HasData
    <2>17. CASE WSRead(d)
      <3>1. Transit(d)' = Transit(d)
        BY <1>1, <2>17, ReadingKeeps
      <3> QED
        BY <2>6, <2>7, <3>1
    <2> QED
      BY <2>11, <2>12, <2>13, <2>14, <2>15, <2>16, <2>17, Flows DEF Flow
  <1> QED
    BY <1>2, <1>3

-----------------------------------------------------------------------------
(* What has come to its end stays so *)

LEMMA PeerStays ==
    ASSUME IInv, [Next]_vars, NEW d \in Dir
    PROVE  /\ peer[Source(d)] \in {"shut", "gone"} => peer'[Source(d)] \in {"shut", "gone"}
           /\ peer[Source(d)] = "gone" => peer'[Source(d)] = "gone"
           /\ peer[Source(d)] = "absent" /\ Closed("client") =>
                  peer'[Source(d)] = "absent" /\ Closed("client")'
           /\ peer[Dest(d)] \in {"shut", "gone"} => peer'[Dest(d)] \in {"shut", "gone"}
           /\ peer[Dest(d)] = "gone" => peer'[Dest(d)] = "gone"
           /\ peer[Dest(d)] = "absent" /\ Closed("client") =>
                  peer'[Dest(d)] = "absent" /\ Closed("client")'
  <1>1. TypeOK /\ Other(d) \in Dir /\ Source(Other(d)) = Dest(d)
    BY Ends DEF IInv
  <1>2. Closed("client") => Closed("client")'
    BY <1>1, ClosedStays
  <1>3. ASSUME NEW e \in Dir
        PROVE  /\ peer[Source(e)] \in {"shut", "gone"} => peer'[Source(e)] \in {"shut", "gone"}
               /\ peer[Source(e)] = "gone" => peer'[Source(e)] = "gone"
               /\ peer[Source(e)] = "absent" /\ Closed("client") => peer'[Source(e)] = "absent"
    BY PeersNext
  <1> QED
    BY <1>1, <1>2, <1>3

LEMMA MissedStays ==
    ASSUME IInv, [Next]_vars, NEW d \in Dir, Missed(d), HandlerWF
    PROVE  Missed(d)'
  <1>1. /\ TypeOK /\ Dir = {"up", "down"} /\ sent[d] \in Nat /\ Len(got[d]) \in Nat
    BY Types, Numbers, Ends DEF IInv
  <1>2. peer[Dest(d)] = "gone" /\ Len(got[d]) < sent[d]
    BY DEF Missed
  <1>3. peer'[Dest(d)] = "gone"
    BY <1>2, PeerStays
  <1>4. got'[d] = got[d]
    <2>1. ~Receive(d)
      BY <1>2 DEF Receive
    <2>2. ASSUME NEW e \in Dir, Receive(e) PROVE got'[d] = got[d]
      BY <1>1, <2>1, <2>2 DEF Receive, TypeOK
    <2> QED
      BY <2>2, Moves
  <1>5. Len(got[d]) < sent'[d]
    <2>1. CASE Send(d)
      <3>1. sent'[d] = sent[d] + 1
        BY <1>1, <2>1, Sending
      <3>2. \A x, y \in Nat : x < y => x < y + 1
        OBVIOUS
      <3> QED
        BY <1>1, <1>2, <3>1, <3>2
    <2>2. CASE ~Send(d)
      BY <1>2, <2>2, FlowSets DEF MovesOn
    <2> QED
      BY <2>1, <2>2
  <1> QED
    BY <1>3, <1>4, <1>5 DEF Missed

\* What a closed reader has left unread is there until its sender leaves.
LEMMA WaitingStays ==
    ASSUME IInv, [Next]_vars, NEW d \in Dir, Closed(Reader(d)), Waiting(d), ~Leave(d)
    PROVE  Waiting(d)'
  <1>1. TypeOK /\ in[d] \in Seq(Item)
    BY Types DEF IInv
  <1>2. CASE in'[d] = in[d] /\ sent'[d] = sent[d]
    BY <1>2 DEF Waiting
  <1>3. CASE Send(d)
    <2>1. in'[d] = Append(in[d], sent[d] + 1) /\ sent'[d] = sent[d] + 1
      BY <1>1, <1>3, Sending
    <2> QED
      BY <1>1, <2>1, AppendSet DEF Waiting
  <1>4. CASE Shut(d)
    <2>1. in'[d] = Append(in[d], Fin) /\ sent'[d] = sent[d]
      BY <1>1, <1>4 DEF Shut, TypeOK
    <2> QED
      BY <1>1, <2>1, AppendSet DEF Waiting
  <1>5. ASSUME Still(d) \/ ReaderCloses(d) \/ WriterCloses(d) \/ \E n \in Nat : Passing(d, n)
        PROVE  in'[d] = in[d] /\ sent'[d] = sent[d]
    BY <1>5 DEF Still, ReaderCloses, WriterCloses, Passing
  <1>6. ASSUME ReadHeader \/ WSRead(d) \/ SessionDies \/ Receive(d)
        PROVE  in'[d] = in[d] /\ sent'[d] = sent[d]
    BY <1>6 DEF ReadHeader, WSRead, SessionDies, Receive, ends
  <1>7. ~Opening(d) /\ \A n \in Nat : ~Taking(d, n)
    BY Ends DEF Opening, Taking, Closed
  <1> QED
    BY <1>2, <1>3, <1>4, <1>5, <1>6, <1>7, Flows DEF Flow

LEMMA ExcusedStays ==
    ASSUME IInv, HandlerWF, [Next]_vars, NEW d \in Dir, Excused(d)
    PROVE  Excused(d)'
  <1> DEFINE e == Other(d)
  <1>1. /\ TypeOK /\ e \in Dir /\ Source(e) = Dest(d)
    BY Ends DEF IInv
  <1>2. CASE dead
    BY <1>1, <1>2, ClosedStays DEF Excused
  <1>3. CASE peer[Dest(d)] \in {"shut", "gone"}
    BY <1>3, PeerStays DEF Excused
  <1>4. CASE peer[Dest(d)] = "absent" /\ Closed("client")
    BY <1>4, PeerStays DEF Excused
  <1>5. CASE Missed(e)
    BY <1>1, <1>5, MissedStays DEF Excused, Unheard
  <1>6. CASE Closed(Reader(e)) /\ Waiting(e)
    <2>1. CASE Leave(e)
      <3>1. peer'[Dest(d)] = "gone"
        BY <1>1, <2>1, Ends DEF Leave, TypeOK
      <3> QED
        BY <3>1 DEF Excused
    <2>2. CASE ~Leave(e)
      BY <1>1, <1>6, <2>2, WaitingStays, ClosedStays DEF Excused, Unheard
    <2> QED
      BY <2>1, <2>2
  <1> QED
    BY <1>2, <1>3, <1>4, <1>5, <1>6 DEF Excused, Unheard

LEMMA QuietStays ==
    ASSUME IInv, HandlerWF, [Next]_vars, NEW d \in Dir, Quiet(d)
    PROVE  Quiet(d)' /\ ~Send(d)
  <1>1. TypeOK /\ sent[d] \in Nat /\ Total(d) \in Nat /\ kind' = kind
    <2>1. TypeOK /\ kind' = kind
      BY Moves DEF IInv
    <2>2. sent[d] \in Nat
      BY <2>1, Types
    <2>3. Total(d) \in Nat
      BY <2>1, PiecesAssumption DEF Total, TypeOK
    <2> QED
      BY <2>1, <2>2, <2>3
  <1>2. ~Send(d)
    <2>1. SUFFICES ASSUME Send(d) PROVE FALSE
      OBVIOUS
    <2>2. peer[Source(d)] = "open" /\ sent[d] < Total(d)
      BY <1>1, <2>1, Sending
    <2> QED
      BY <1>1, <2>2 DEF Quiet
  <1>3. sent'[d] = sent[d]
    BY <1>2, FlowSets DEF MovesOn
  <1>4. Total(d)' = Total(d)
    BY <1>1 DEF Total
  <1> QED
    BY <1>2, <1>3, <1>4, PeerStays DEF Quiet

-----------------------------------------------------------------------------
(* Why copies end *)

LEMMA CopiesWFNext ==
    ASSUME IInv, HandlerWF, [Next]_vars, NEW d \in Dir,
           SourceWF(d), StreamEnds(d), NothingMissed(d), CopiesWF(d)
    PROVE  CopiesWF(d)'
  <1>1. TypeOK /\ Dir = {"up", "down"} /\ in[d] \in Seq(Item) /\ stream[d] \in Seq(Item)
    BY Types, Ends DEF IInv
  <1>2. /\ Closed(Reader(d)) => Closed(Reader(d))'
        /\ Closed(Writer(d)) => Closed(Writer(d))'
        /\ dead => dead'
    BY <1>1, ClosedStays
  <1>3. peer[Source(d)] \in {"shut", "gone"} => peer'[Source(d)] \in {"shut", "gone"}
    BY PeerStays
  <1>4. Missed(d) => Missed(d)'
    BY MissedStays
  <1>5. ASSUME into'[d] = "done"
        PROVE  dead \/ Closed(Reader(d)) \/ peer[Source(d)] \in {"shut", "gone"}
    <2>1. CASE into[d] = "done"
      BY <2>1 DEF CopiesWF
    <2>2. CASE CopyInEnds(d)
      <3>1. CASE AtEnd(in[d])
        BY <1>1, <3>1, TailSet DEF AtEnd, SourceWF
      <3> QED
        BY <2>2, <3>1 DEF CopyInEnds, Closed
    <2>3. into[d] = "done" \/ CopyInEnds(d)
      <3>1. CASE UNCHANGED into
        BY <1>5, <3>1
      <3>2. ASSUME OpenStream \/ Dial PROVE into'[d] = into[d] \/ into'[d] = "on"
        BY <1>1, <3>2 DEF OpenStream, Dial, TypeOK
      <3>3. ASSUME NEW e \in Dir, CopyInEnds(e), e # d PROVE into'[d] = into[d]
        BY <1>1, <3>3 DEF CopyInEnds, TypeOK
      <3> QED
        BY <1>5, <3>1, <3>2, <3>3, Moves
    <2> QED
      BY <2>1, <2>2, <2>3
  <1>6. ASSUME outof'[d] = "done"
        PROVE  dead \/ Closed(Reader(d)) \/ Closed(Writer(d)) \/ Missed(d)
    <2>1. CASE outof[d] = "done"
      BY <2>1 DEF CopiesWF
    <2>2. CASE CopyOutEnds(d)
      <3>1. CASE StreamEnded(d)
        <4>1. stream[d] # <<>> /\ Head(stream[d]) = Fin => Fin \in ToSet(stream[d])
          BY <1>1, TailSet
        <4> QED
          BY <3>1, <4>1 DEF StreamEnded, StreamEnds, Transit
      <3>2. CASE HasData(stream[d]) /\ peer[Dest(d)] = "gone"
        <4>1. Transit(d) # {}
          <5>1. stream[d] # <<>>
            BY <3>2 DEF HasData
          <5>2. ToSet(stream[d]) # {}
            BY <1>1, <5>1, EmptySet
          <5> QED
            BY <5>2 DEF Transit
        <4> QED
          BY <3>2, <4>1 DEF NothingMissed
      <3> QED
        BY <2>2, <3>1, <3>2 DEF CopyOutEnds, Closed
    <2>3. outof[d] = "done" \/ CopyOutEnds(d)
      <3>1. CASE UNCHANGED outof
        BY <1>6, <3>1
      <3>2. ASSUME OpenStream \/ Dial PROVE outof'[d] = outof[d] \/ outof'[d] = "on"
        BY <1>1, <3>2 DEF OpenStream, Dial, TypeOK
      <3>3. ASSUME NEW e \in Dir, CopyOutEnds(e), e # d PROVE outof'[d] = outof[d]
        BY <1>1, <3>3 DEF CopyOutEnds, TypeOK
      <3> QED
        BY <1>6, <3>1, <3>2, <3>3, Moves
    <2> QED
      BY <2>1, <2>2, <2>3
  <1> QED
    BY <1>2, <1>3, <1>4, <1>5, <1>6 DEF CopiesWF

-----------------------------------------------------------------------------
(* How handlers close *)

LEMMA ServerClosing ==
    ASSUME TypeOK, [Next]_vars, ~Closed("server"), Closed("server")'
    PROVE  /\ OpenFails \/ ServerPipeEnds \/ SendRequestFails \/ RelayResponse
              \/ RelayResponseFails
           /\ UNCHANGED <<kind, in, sent, got, peer, dead, into, outof>>
  <1>1. ASSUME OpenStream \/ SendRequest \/ ReadHeader \/ ReadHeaderFails \/ Dial \/ DialFails
               \/ ClientPipeEnds \/ UNCHANGED handler
        PROVE  handler'.server # "closed"
    BY <1>1 DEF OpenStream, SendRequest, ReadHeader, ReadHeaderFails, Dial, DialFails,
                ClientPipeEnds, TypeOK, Closed
  <1>2. OpenFails \/ ServerPipeEnds \/ SendRequestFails \/ RelayResponse \/ RelayResponseFails
    BY <1>1, Moves DEF Closed
  <1> QED
    BY <1>2 DEF OpenFails, ServerPipeEnds, SendRequestFails, RelayResponse,
                RelayResponseFails, copies, ends

LEMMA ClientClosing ==
    ASSUME TypeOK, [Next]_vars, ~Closed("client"), Closed("client")'
    PROVE  /\ ReadHeaderFails \/ DialFails \/ ClientPipeEnds
           /\ UNCHANGED <<kind, in, sent, got, peer, dead, into, outof>>
  <1>1. ASSUME OpenFails \/ ServerPipeEnds \/ SendRequestFails \/ RelayResponse
               \/ RelayResponseFails
        PROVE  handler'.client = handler.client
    BY <1>1 DEF OpenFails, ServerPipeEnds, SendRequestFails, RelayResponse,
                RelayResponseFails, ServerCloses, TypeOK
  <1>2. ASSUME OpenStream \/ SendRequest \/ ReadHeader \/ Dial \/ UNCHANGED handler
        PROVE  handler'.client # "closed"
    BY <1>2 DEF OpenStream, SendRequest, ReadHeader, Dial, TypeOK, Closed
  <1>3. ReadHeaderFails \/ DialFails \/ ClientPipeEnds
    BY <1>1, <1>2, Moves DEF Closed
  <1> QED
    BY <1>3 DEF ReadHeaderFails, DialFails, ClientPipeEnds, copies, ends

\* Whoever closes a socket with something unread has not heard its sender.
LEMMA CutExcused ==
    ASSUME IInv, HandlerWF, [Next]_vars, NEW d \in Dir, SourceWF(Other(d)), Cut(d)
    PROVE  Excused(d)'
  <1> DEFINE e == Other(d)
             q == in[e]
  <1>1. /\ TypeOK /\ e \in Dir /\ Source(e) = Dest(d) /\ Reader(e) = Writer(d)
        /\ Writer(d) \in {"server", "client"}
    BY Ends DEF IInv
  <1>2. q \in Seq(Item) /\ q # <<>>
    BY <1>1, Types DEF Cut
  <1>3. UNCHANGED <<in, sent>> /\ Closed(Reader(e))'
    BY <1>1, ServerClosing, ClientClosing DEF Cut
  <1>4. CASE peer[Source(e)] \in {"shut", "gone"}
    BY <1>1, <1>4, PeerStays DEF Excused
  <1>5. CASE peer[Source(e)] \in {"absent", "open"}
    <2>1. q[Len(q)] = sent[e]
      BY <1>2, <1>5 DEF SourceWF
    <2>2. Len(q) \in DOMAIN q
      BY <1>2
    <2>3. Waiting(e)
      BY <2>1, <2>2 DEF Waiting, ToSet
    <2> QED
      BY <1>3, <2>3 DEF Excused, Unheard, Waiting
  <1>6. peer[Source(e)] \in {"shut", "gone", "absent", "open"}
    BY <1>1, Ends DEF TypeOK
  <1> QED
    BY <1>4, <1>5, <1>6

\* A source that leaves, and loses what it has sent, has missed something,
\* unless nobody waits for its data any more.
LEMMA LeaveLoses ==
    ASSUME IInv, HandlerWF, [Next]_vars, NEW d \in Dir, Leave(d), HasData(out[Other(d)])
    PROVE  Excused(d) \/ Excused(d)' \/ Closed(Reader(d))
  <1> DEFINE e == Other(d)
             k == sent[e]
             g == got[e]
             o == out[e]
  <1> SUFFICES ASSUME ~Excused(d), ~Closed(Reader(d)) PROVE Excused(d)'
    OBVIOUS
  <1>1. /\ TypeOK /\ e \in Dir /\ Dest(e) = Source(d) /\ Writer(e) = Reader(d) /\ Other(e) = d
        /\ o \in Seq(Item) /\ k \in Nat /\ Len(g) \in Nat /\ Dir = {"up", "down"}
    BY Ends, Types, Numbers DEF IInv
  <1>2. peer[Dest(e)] # "gone" /\ peer'[Dest(e)] = "gone" /\ UNCHANGED <<sent, got>>
    BY <1>1, Ends DEF Leave, TypeOK
  <1>3. InOrder(e)
    BY <1>1, Ends DEF IInv, OwnAnswer, Closed
  <1>4. Len(g) + 1 \in DOMAIN Content(e)
    <2>1. Fits(Content(e), o, Len(g) + 1)
      BY <1>2, <1>3 DEF InOrder
    <2>2. 1 \in DOMAIN o /\ o[1] # Fin
      BY <1>1 DEF HasData
    <2> HIDE DEF o, g
    <2>3. Len(g) + 1 + 1 - 1 \in DOMAIN Content(e)
      BY <2>1, <2>2 DEF Fits
    <2>4. \A x \in Nat : x + 1 + 1 - 1 = x + 1
      OBVIOUS
    <2> QED
      BY <1>1, <2>3, <2>4
  <1>5. ~Refused(e)
    <2>1. SUFFICES ASSUME Refused(e) PROVE FALSE
      OBVIOUS
    <2>2. e = "down" /\ d = "up" /\ peer.local = "absent"
      BY <1>1, <2>1, Ends DEF Refused
    <2>3. handler.client \in {"new", "dial"}
      BY <1>1, <2>2, Ends DEF Excused, Closed, IInv, AbsentWF, TypeOK
    <2>4. handler.server # "closed"
      BY <2>2, Ends DEF Closed
    <2>5. o = <<>>
      BY <2>2, <2>3, <2>4 DEF IInv, ClientNewWF, OwnAnswer
    <2> QED
      BY <2>5 DEF HasData
  <1>6. Len(g) + 1 \in 0..k
    BY <1>4, <1>5 DEF Content
  <1>7. Len(g) < k
    <2> HIDE DEF g, k
    <2> QED
      BY <1>1, <1>6
  <1>8. Missed(e)'
    BY <1>2, <1>7 DEF Missed
  <1> QED
    BY <1>8 DEF Excused, Unheard

\* A reader at the end of its socket has read all that will ever come.
LEMMA AtEndQuiet ==
    ASSUME TypeOK, NEW d \in Dir, SourceWF(d), AtEnd(in[d])
    PROVE  ~Waiting(d) /\ Quiet(d) /\ peer[Source(d)] \in {"shut", "gone"}
  <1>1. in[d] \in Seq(Item) /\ sent[d] # Fin /\ in[d] # <<>> /\ Head(in[d]) = Fin
    BY Types, MarkAssumption DEF AtEnd
  <1>2. in[d] = <<Fin>>
    BY <1>1, TailSet DEF SourceWF
  <1>3. ToSet(in[d]) = {Fin}
    BY <1>2, FewSet
  <1> QED
    BY <1>1, <1>3 DEF SourceWF, Waiting, Quiet

\* At the end of a stream everything has been passed on.
LEMMA EndedPassed ==
    ASSUME TypeOK, NEW d \in Dir, StreamEnds(d), Carried(d), ~Excused(d), StreamEnded(d)
    PROVE  ~Waiting(d) /\ Quiet(d) /\ (sent[d] > 0 => sent[d] \in Passed(d))
  <1> DEFINE s == stream[d]
  <1>1. s \in Seq(Item) /\ sent[d] # Fin
    BY Types, MarkAssumption
  <1>2. s # <<>> /\ Head(s) = Fin
    BY DEF StreamEnded, Excused
  <1>3. s = <<Fin>> /\ Fin \in ToSet(s)
    BY <1>1, <1>2, TailSet DEF StreamEnds
  <1>4. rest[d] = <<>> /\ wire[d] = <<>> /\ Closed(Reader(d))
    BY <1>3 DEF StreamEnds, Transit
  <1>5. Transit(d) = {Fin}
    BY <1>3, <1>4, FewSet, FewMessages DEF Transit
  <1> QED
    BY <1>1, <1>4, <1>5 DEF Carried, Waiting

LEMMA QuietUnheard ==
    ASSUME IInv, HandlerWF, [Next]_vars, NEW d \in Dir, Quiet(d), ~Waiting(d)
    PROVE  ~Waiting(d)' /\ Quiet(d)' /\ sent'[d] = sent[d]
  <1>1. TypeOK /\ ~Send(d) /\ Quiet(d)' /\ sent[d] # Fin
    BY QuietStays, Types, MarkAssumption DEF IInv
  <1>2. MovesOn(d)
    BY <1>1, FlowSets
  <1> QED
    BY <1>1, <1>2 DEF MovesOn, Waiting

-----------------------------------------------------------------------------
(* Who is done has passed on everything *)

\* Unless the receiver has ended something itself, a reader comes to its end
\* only when there is nothing more to read.
LEMMA ReaderDone ==
    ASSUME IInv, HeardInv, [Next]_vars, NEW d \in Dir, ~Excused(d), ~dead',
           Closed(Reader(d))' \/ into'[d] = "done"
    PROVE  ~Waiting(d)' /\ Quiet(d)'
  <1>1. /\ TypeOK /\ Dir = {"up", "down"} /\ ~dead /\ HandlerWF
        /\ in[d] \in Seq(Item) /\ sent[d] # Fin /\ Other(d) \in Dir
    BY Types, Ends, ClosedStays, MarkAssumption DEF IInv, HeardInv
  <1>2. SourceWF(d) /\ Carried(d) /\ CopiesWF(Other(d))
    BY <1>1 DEF HeardInv
  <1>3. CASE Closed(Reader(d)) \/ into[d] = "done"
    BY <1>1, <1>2, <1>3, QuietUnheard DEF Carried
  <1>4. CASE ~Closed(Reader(d)) /\ AtEnd(in[d])
    BY <1>1, <1>2, <1>4, AtEndQuiet, QuietUnheard
  <1>5. CASE Closed(Writer(d))
    BY <1>1, <1>2, <1>5, QuietUnheard DEF Carried
  <1>6. CASE ~Closed(Reader(d)) /\ Closed(Reader(d))' /\ d = "up"
    <2>1. ~Closed("server") /\ Closed("server")'
      BY <1>6, Ends
    <2>2. CASE OpenFails \/ (SendRequestFails /\ ~AtEnd(in["up"]))
      BY <1>1, <2>2 DEF OpenFails, SendRequestFails
    <2>3. CASE SendRequestFails /\ AtEnd(in["up"])
      BY <1>4, <1>6, <2>3
    <2>4. CASE ServerPipeEnds
      <3>1. CASE into["up"] = "done"
        BY <1>3, <1>6, <3>1
      <3>2. CASE outof["down"] = "done"
        <4>1. Closed("client")
          BY <1>1, <1>2, <1>6, <2>1, <3>2, Ends DEF CopiesWF, Excused, Unheard
        <4> QED
          BY <1>5, <1>6, <4>1, Ends
      <3> QED
        BY <2>4, <3>1, <3>2 DEF ServerPipeEnds
    <2>5. CASE RelayResponse \/ RelayResponseFails
      <3>1. sent["up"] = Total("up") /\ ~Waiting("up")
        BY <1>1, <2>5 DEF RelayResponse, RelayResponseFails, HandlerWF
      <3>2. Quiet("up")
        BY <3>1 DEF Quiet
      <3> QED
        BY <1>1, <1>6, <3>1, <3>2, QuietUnheard
    <2> QED
      BY <1>1, <2>1, <2>2, <2>3, <2>4, <2>5, ServerClosing
  <1>7. CASE ~Closed(Reader(d)) /\ Closed(Reader(d))' /\ d = "down"
    <2>1. ~Closed("client") /\ Closed("client")'
      BY <1>7, Ends
    <2>2. CASE ReadHeaderFails \/ DialFails
      <3>1. handler.client \in {"new", "dial"} /\ UNCHANGED <<in, peer, sent>>
        BY <2>2 DEF ReadHeaderFails, DialFails, ends
      <3>2. peer.local = "absent" /\ in["down"] = <<>>
        BY <3>1 DEF IInv, ClientNewWF, AbsentWF
      <3> QED
        BY <1>7, <2>1, <3>1, <3>2, Ends, FewSet DEF Waiting, Quiet
    <2>3. CASE ClientPipeEnds
      <3>1. CASE into["down"] = "done"
        BY <1>3, <1>7, <3>1
      <3>2. CASE outof["up"] = "done"
        <4>1. Closed("server")
          BY <1>1, <1>2, <1>7, <2>1, <3>2, Ends DEF CopiesWF, Excused, Unheard
        <4> QED
          BY <1>5, <1>7, <4>1, Ends
      <3> QED
        BY <2>3, <3>1, <3>2 DEF ClientPipeEnds
    <2> QED
      BY <1>1, <2>1, <2>2, <2>3, ClientClosing
  <1>8. CASE into'[d] = "done" /\ into[d] # "done" /\ ~Closed(Reader(d))
    <2>1. CopyInEnds(d)
      <3>1. ~UNCHANGED into
        BY <1>8
      <3>2. ASSUME OpenStream \/ Dial PROVE into'[d] = into[d] \/ into'[d] = "on"
        BY <1>1, <3>2 DEF OpenStream, Dial, TypeOK
      <3>3. ASSUME NEW e \in Dir, CopyInEnds(e), e # d PROVE into'[d] = into[d]
        BY <1>1, <3>3 DEF CopyInEnds, TypeOK
      <3> QED
        BY <1>8, <3>1, <3>2, <3>3, Moves
    <2>2. AtEnd(in[d])
      BY <1>1, <1>8, <2>1 DEF CopyInEnds, Closed
    <2> QED
      BY <1>4, <1>8, <2>2
  <1> QED
    BY <1>1, <1>3, <1>6, <1>7, <1>8

\* The same of a writer: it has passed on everything.
Done(d) == ~Waiting(d) /\ Quiet(d) /\ (sent[d] > 0 => sent[d] \in Passed(d))

LEMMA DoneStays ==
    ASSUME IInv, HeardInv, [Next]_vars, NEW d \in Dir, ~Excused(d)', Done(d)
    PROVE  Done(d)'
  <1>1. HandlerWF /\ SourceWF(Other(d))
    BY Ends DEF HeardInv
  <1>2. ~Waiting(d)' /\ Quiet(d)' /\ sent'[d] = sent[d] /\ ~Send(d)
    BY <1>1, QuietUnheard, QuietStays DEF Done
  <1>3. KeepsAll(d) /\ ~Cut(d)
    BY <1>1, <1>2, FlowSets, CutExcused
  <1> QED
    BY <1>2, <1>3 DEF Done, KeepsAll

\* The response whose last piece is read.
LEMMA ResponseDone ==
    ASSUME IInv, HeardInv, [Next]_vars, ~Excused("down"), ~Excused("down")',
           RelayResponse, ~Closed("server"), Closed("server")'
    PROVE  Done("down")'
  <1> DEFINE s == stream["down"]
             k == sent["down"]
             o == out["down"]
  <1>1. /\ TypeOK /\ "down" \in Dir /\ HandlerWF /\ s \in Seq(Item) /\ o \in Seq(Item)
        /\ k \in Nat /\ k <= Total("down") /\ Total("down") \in Nat
        /\ kind = "http" /\ UNCHANGED <<kind, in, sent, got, peer, dead>>
    <2>1. TypeOK /\ "down" \in Dir /\ HandlerWF
      BY Ends DEF IInv, HeardInv
    <2>2. s \in Seq(Item) /\ o \in Seq(Item) /\ k \in Nat
      BY <2>1, Types
    <2>3. k <= Total("down") /\ Total("down") \in Nat
      BY <2>1, PiecesAssumption DEF Total, TypeOK
    <2>4. kind = "http" /\ UNCHANGED <<kind, in, sent, got, peer, dead>>
      BY <2>1 DEF RelayResponse, HandlerWF, ends
    <2> QED
      BY <2>1, <2>2, <2>3, <2>4
  <1>2. PICK n \in Chunks(s) :
            IF s[n] \in {Total("down"), Refusal}
            THEN ServerCloses(SubSeq(s, 1, n))
            ELSE UNCHANGED <<handler, wire>>
    BY DEF RelayResponse
  <1>3. s[n] \in {Total("down"), Refusal} /\ ServerCloses(SubSeq(s, 1, n))
    BY <1>2 DEF Closed
  <1> DEFINE q == SubSeq(s, 1, n)
  <1>4. /\ n \in 1..Len(s) /\ n \in 0..Len(s) /\ q \in Seq(Item) /\ s[n] # Fin
        /\ s[n] \in ToSet(s) /\ s[n] \in ToSet(q)
    <2>1. /\ n \in 1..Len(s) /\ n \in 0..Len(s) /\ q \in Seq(Item) /\ Len(q) = n
          /\ \A i \in 1..n : s[i] # Fin /\ q[i] = s[i]
      BY <1>1, <1>2, Chunk
    <2>2. DOMAIN s = 1..Len(s) /\ DOMAIN q = 1..n /\ n \in 1..n
      BY <1>1, <2>1
    <2> QED
      BY <2>1, <2>2 DEF ToSet
  <1>5. CASE s[n] = Total("down")
    <2>1. Total("down") \in 1..k
      BY <1>1, <1>4, <1>5 DEF HeardInv, Bounded, Transit
    <2>2. k = Total("down")
      BY <1>1, <2>1
    <2>3. ~Waiting("down")
      BY <1>1, <1>4, <1>5, <2>2 DEF HeardInv, Once, Transit
    <2>4. ~Waiting("down")' /\ Quiet("down")'
      BY <1>1, <2>2, <2>3 DEF Waiting, Quiet, Total
    <2>5. out'["down"] \in AfterClose(o \o q, FALSE)
      BY <1>1, <1>3 DEF ServerCloses, TypeOK
    <2> HIDE DEF o, q
    <2> DEFINE p == o \o q
    <2>6. p \in Seq(Item) /\ ToSet(p) = ToSet(o) \cup ToSet(q)
      BY <1>1, <1>4, JoinSet
    <2>7. ToSet(p) \subseteq ToSet(out'["down"])
      <3> HIDE DEF p
      <3>1. out'["down"] \in AfterClose(p, FALSE)
        BY <2>5 DEF p
      <3> QED
        BY <2>6, <3>1, ClosedSet
    <2> HIDE DEF p
    <2>8. k \in Passed("down")'
      BY <1>4, <1>5, <2>2, <2>6, <2>7 DEF Passed
    <2> QED
      BY <1>1, <2>4, <2>8 DEF Done
  <1>6. CASE s[n] = Refusal
    <2>1. InOrder("down") /\ peer[Dest("down")] # "gone" /\ handler[Writer("down")] # "closed"
      BY <1>1, Ends DEF IInv, OwnAnswer, Closed, Excused
    <2>2. Fits(Content("down"), s, NextOut("down"))
      BY <2>1 DEF InOrder, StreamFits
    <2> DEFINE c == Content("down")
               a == NextOut("down")
    <2>3. a + n - 1 \in DOMAIN c /\ Refusal = c[a + n - 1]
      BY <1>1, <1>4, <1>6, <2>2 DEF Fits
    <2>4. Refused("down")
      <3>1. SUFFICES ASSUME ~Refused("down") PROVE FALSE
        OBVIOUS
      <3>2. c = [i \in 0..k |-> IF i = 0 THEN Hdr ELSE i]
        BY <3>1 DEF Content
      <3> HIDE DEF c, a
      <3>3. \A i \in DOMAIN c : c[i] = Hdr \/ c[i] \in Nat
        BY <1>1, <3>2
      <3> QED
        BY <2>3, <3>3, MarkAssumption
    <2>5. peer.local = "absent" /\ in["down"] = <<>> /\ k = 0
      BY <2>4 DEF Refused, IInv, AbsentWF
    <2>6. Closed("client")
      <3>1. s # <<>>
        BY <1>1, <1>4
      <3> QED
        BY <1>1, <2>5, <3>1 DEF IInv, AbsentWF, ClientNewWF, Empty, Closed, TypeOK
    <2>7. Closed("client")'
      BY <1>1, <2>6, ClosedStays
    <2> QED
      <3>1. ~Waiting("down")'
        BY <1>1, <2>5, FewSet DEF Waiting
      <3>2. Quiet("down")'
        BY <1>1, <2>5, <2>7, Ends DEF Quiet
      <3>3. ~(sent'["down"] > 0)
        <4>1. sent'["down"] = 0 /\ ~(0 > 0)
          BY <1>1, <2>5
        <4> QED
          BY <4>1
      <3> QED
        BY <3>1, <3>2, <3>3 DEF Done
  <1> QED
    BY <1>3, <1>5, <1>6

LEMMA WriterDone ==
    ASSUME IInv, HeardInv, [Next]_vars, NEW d \in Dir, ~Excused(d), ~Excused(d)',
           Closed(Writer(d))' \/ outof'[d] = "done"
    PROVE  Done(d)'
  <1>1. /\ TypeOK /\ Dir = {"up", "down"} /\ ~dead /\ HandlerWF /\ Other(d) \in Dir
    BY Ends DEF IInv, HeardInv, Excused
  <1>2. StreamEnds(d) /\ Carried(d) /\ CopiesWF(Other(d)) /\ SourceWF(Other(d))
    BY <1>1 DEF HeardInv
  <1>3. CASE Closed(Writer(d)) \/ outof[d] = "done"
    <2>1. Done(d)
      BY <1>2, <1>3 DEF Carried, Done
    <2> QED
      BY <2>1, DoneStays
  <1>4. CASE StreamEnded(d)
    <2>1. Done(d)
      BY <1>1, <1>2, <1>4, EndedPassed DEF Done
    <2> QED
      BY <2>1, DoneStays
  <1>5. CASE ~Closed(Writer(d)) /\ Closed(Writer(d))' /\ d = "up"
    <2>1. ~Closed("client") /\ Closed("client")'
      BY <1>5, Ends
    <2>2. CASE ReadHeaderFails \/ DialFails
      <3>1. handler.client \in {"new", "dial"} /\ UNCHANGED peer
        BY <2>2 DEF ReadHeaderFails, DialFails, ends
      <3>2. peer.local = "absent"
        BY <3>1 DEF IInv, ClientNewWF
      <3> QED
        BY <1>5, <2>1, <3>1, <3>2, Ends DEF Excused
    <2>3. CASE ClientPipeEnds
      <3>1. CASE outof["up"] = "done"
        BY <1>3, <1>5, <3>1
      <3>2. CASE into["down"] = "done"
        BY <1>1, <1>2, <1>5, <2>1, <3>2, Ends DEF CopiesWF, Excused
      <3> QED
        BY <2>3, <3>1, <3>2 DEF ClientPipeEnds
    <2> QED
      BY <1>1, <2>1, <2>2, <2>3, ClientClosing
  <1>6. CASE ~Closed(Writer(d)) /\ Closed(Writer(d))' /\ d = "down"
    <2>1. ~Closed("server") /\ Closed("server")'
      BY <1>6, Ends
    <2>2. CASE OpenFails
      BY <1>1, <2>2 DEF OpenFails
    <2>3. CASE SendRequestFails
      <3>1. AtEnd(in["up"])
        BY <1>1, <2>3 DEF SendRequestFails
      <3>2. peer.public \in {"shut", "gone"}
        BY <1>1, <1>2, <1>6, <3>1, AtEndQuiet, Ends
      <3> QED
        BY <1>6, <3>2, Ends DEF Excused
    <2>4. CASE ServerPipeEnds
      <3>1. CASE outof["down"] = "done"
        BY <1>3, <1>6, <3>1
      <3>2. CASE into["up"] = "done"
        BY <1>1, <1>2, <1>6, <2>1, <3>2, Ends DEF CopiesWF, Excused
      <3> QED
        BY <2>4, <3>1, <3>2 DEF ServerPipeEnds
    <2>5. CASE RelayResponse
      BY <1>6, <2>1, <2>5, ResponseDone
    <2>6. CASE RelayResponseFails
      <3>1. peer.public # "gone"
        BY <1>6, Ends DEF Excused
      <3> QED
        BY <1>4, <1>6, <2>6, <3>1 DEF RelayResponseFails
    <2> QED
      BY <1>1, <2>1, <2>2, <2>3, <2>4, <2>5, <2>6, ServerClosing
  <1>7. CASE outof'[d] = "done" /\ outof[d] # "done" /\ ~Closed(Writer(d))
    <2>1. CopyOutEnds(d)
      <3>1. ~UNCHANGED outof
        BY <1>7
      <3>2. ASSUME OpenStream \/ Dial PROVE outof'[d] = outof[d] \/ outof'[d] = "on"
        BY <1>1, <3>2 DEF OpenStream, Dial, TypeOK
      <3>3. ASSUME NEW e \in Dir, CopyOutEnds(e), e # d PROVE outof'[d] = outof[d]
        BY <1>1, <3>3 DEF CopyOutEnds, TypeOK
      <3> QED
        BY <1>7, <3>1, <3>2, <3>3, Moves
    <2>2. StreamEnded(d)
      BY <1>7, <2>1 DEF CopyOutEnds, Closed, Excused
    <2> QED
      BY <1>4, <2>2
  <1> QED
    BY <1>1, <1>3, <1>5, <1>6, <1>7

\* Nothing is lost on the way.
LEMMA LastKept ==
    ASSUME IInv, HeardInv, [Next]_vars, NEW d \in Dir, ~Excused(d), ~Excused(d)',
           sent'[d] > 0
    PROVE  sent'[d] \in Passed(d)' \cup Transit(d)' \cup ToSet(in'[d])
  <1>1. TypeOK /\ HandlerWF /\ SourceWF(Other(d)) /\ Carried(d) /\ sent[d] # Hdr /\ ~dead'
    BY Types, Ends, MarkAssumption DEF IInv, HeardInv, Excused
  <1>2. CASE Send(d)
    <2>1. in'[d] = Append(in[d], sent[d] + 1) /\ sent'[d] = sent[d] + 1 /\ in[d] \in Seq(Item)
      BY <1>1, <1>2, Sending, Types
    <2> QED
      BY <2>1, AppendSet
  <1>3. CASE ~Send(d)
    <2>1. MovesOn(d) /\ KeepsAll(d)
      BY <1>1, <1>3, FlowSets
    <2>2. sent'[d] = sent[d]
      BY <2>1 DEF MovesOn
    <2>3. sent[d] \in Passed(d) \cup Transit(d) \cup ToSet(in[d])
      BY <1>1, <2>2 DEF Carried
    <2>4. ~Cut(d) /\ peer[Dest(d)] # "gone"
      BY <1>1, CutExcused DEF Excused
    <2>5. CASE Leave(d) /\ HasData(out[Other(d)]) /\ sent[d] \in ToSet(in[d])
      <3>1. Closed(Reader(d))
        BY <1>1, <2>5, LeaveLoses
      <3> QED
        BY <1>1, <2>5, <3>1 DEF Carried, Waiting
    <2>6. CASE ~(Leave(d) /\ HasData(out[Other(d)]) /\ sent[d] \in ToSet(in[d]))
      BY <1>1, <2>1, <2>2, <2>3, <2>4, <2>6 DEF KeepsAll
    <2> QED
      BY <2>5, <2>6
  <1> QED
    BY <1>2, <1>3

LEMMA CarriedNext ==
    ASSUME IInv, HeardInv, [Next]_vars, NEW d \in Dir
    PROVE  Carried(d)'
  <1> SUFFICES ASSUME ~Excused(d)'
               PROVE  /\ sent'[d] > 0 => sent'[d] \in Passed(d)' \cup Transit(d)' \cup ToSet(in'[d])
                      /\ Closed(Reader(d))' \/ into'[d] = "done" => ~Waiting(d)' /\ Quiet(d)'
                      /\ Closed(Writer(d))' \/ outof'[d] = "done" => Done(d)'
    BY DEF Carried, Done
  <1>1. ~Excused(d) /\ ~dead'
    BY ExcusedStays DEF HeardInv, Excused
  <1> QED
    BY <1>1, LastKept, ReaderDone, WriterDone

LEMMA HeardNext ==
    ASSUME IInv, HeardInv, [Next]_vars
    PROVE  HeardInv'
  <1>1. "up" \in Dir
    BY Ends
  <1>2. HandlerWF'
    BY <1>1, HandlerWFNext DEF HeardInv
  <1>3. ASSUME NEW d \in Dir
        PROVE  /\ Bounded(d)' /\ Once(d)' /\ SourceWF(d)' /\ StreamEnds(d)' /\ OutEnds(d)'
               /\ NothingMissed(d)' /\ CopiesWF(d)' /\ Carried(d)'
    <2>1. /\ HandlerWF /\ Bounded(d) /\ Once(d) /\ SourceWF(d) /\ StreamEnds(d) /\ OutEnds(d)
          /\ NothingMissed(d) /\ CopiesWF(d)
      BY DEF HeardInv
    <2>2. Bounded(d)' /\ Once(d)' /\ SourceWF(d)' /\ StreamEnds(d)' /\ OutEnds(d)'
      BY <2>1, CountsNext, SourceNext, StreamEndsNext, OutEndsNext
    <2>3. NothingMissed(d)' /\ CopiesWF(d)' /\ Carried(d)'
      BY <2>1, NothingMissedNext, CopiesWFNext, CarriedNext
    <2> QED
      BY <2>2, <2>3
  <1> QED
    BY <1>2, <1>3 DEF HeardInv

-----------------------------------------------------------------------------
(* The theorem *)

LEMMA InitHeard ==
    ASSUME Init
    PROVE  HeardInv
  <1>1. Dir = {"up", "down"}
    BY Ends
  <1>2. ASSUME NEW d \in Dir
        PROVE  /\ in[d] \in {<<>>, <<1>>} /\ (d = "down" => in[d] = <<>>)
               /\ (kind # "tcp" => in["up"] = <<1>>)
               /\ wire[d] = <<>> /\ rest[d] = <<>> /\ stream[d] = <<>> /\ out[d] = <<>>
               /\ got[d] = <<>> /\ into[d] = "off" /\ outof[d] = "off"
               /\ sent[d] = Len(in[d])
    BY <1>1 DEF Init
  <1>3. /\ handler.server = "new" /\ handler.client = "new" /\ peer.public = "open"
        /\ peer.local = "absent"
    BY DEF Init
  <1>4. HandlerWF
    BY <1>1, <1>2, <1>3 DEF HandlerWF
  <1>5. ASSUME NEW d \in Dir
        PROVE  /\ Transit(d) = {} /\ Passed(d) = {} /\ ~Closed(Reader(d)) /\ ~Closed(Writer(d))
               /\ peer[Source(d)] \in {"open", "absent"} /\ peer[Dest(d)] \in {"open", "absent"}
               /\ into[d] # "done" /\ outof[d] # "done"
    BY <1>1, <1>2, <1>3, FewSet, FewMessages, Ends DEF Transit, Passed, Closed
  <1>6. ASSUME NEW d \in Dir
        PROVE  NothingMissed(d) /\ CopiesWF(d) /\ StreamEnds(d) /\ OutEnds(d)
    <2>1. NothingMissed(d) /\ CopiesWF(d)
      BY <1>5 DEF NothingMissed, CopiesWF
    <2>2. StreamEnds(d) /\ OutEnds(d)
      BY <1>2, <1>5, FewSet, FewMessages DEF StreamEnds, OutEnds, NoFin
    <2> QED
      BY <2>1, <2>2
  <1>7. ASSUME NEW d \in Dir
        PROVE  Bounded(d) /\ Once(d) /\ SourceWF(d) /\ Carried(d)
    <2>1. CASE in[d] = <<>>
      <3>1. sent[d] = 0 /\ ToSet(in[d]) = {} /\ EndsLast(in[d]) /\ OnlyOnce(in[d], sent[d])
        BY <1>2, <2>1, FewSet
      <3>2. ~(0 > 0)
        OBVIOUS
      <3> QED
        BY <1>5, <2>1, <3>1, <3>2 DEF Bounded, Once, SourceWF, Carried, Waiting
    <2>2. CASE in[d] = <<1>>
      <3>1. Len(in[d]) = 1 /\ in[d][1] = 1 /\ DOMAIN in[d] = {1}
        BY <2>2
      <3>2. sent[d] = 1
        BY <1>2, <3>1
      <3>3. ToSet(in[d]) = {1}
        BY <3>1 DEF ToSet
      <3>4. EndsLast(in[d])
        BY <3>1 DEF EndsLast
      <3>5. OnlyOnce(in[d], sent[d])
        BY <3>1 DEF OnlyOnce
      <3>6. /\ sent[d] = 1 /\ ToSet(in[d]) = {1} /\ EndsLast(in[d]) /\ OnlyOnce(in[d], sent[d])
            /\ Len(in[d]) = 1 /\ in[d][1] = 1
        BY <3>1, <3>2, <3>3, <3>4, <3>5
      <3>7. 1 \in 1..1 /\ 1 # Fin
        BY MarkAssumption
      <3> QED
        BY <1>5, <2>2, <3>6, <3>7 DEF Bounded, Once, SourceWF, Carried, Waiting
    <2> QED
      BY <1>2, <2>1, <2>2
  <1> QED
    BY <1>4, <1>6, <1>7 DEF HeardInv

\* Who has got the last piece has got them all.
LEMMA AllOfIt ==
    ASSUME NEW g \in Seq(Nat \cup {Refusal}), NEW k \in Nat, k \in ToSet(g),
           Fits([i \in 0..k |-> IF i = 0 THEN Hdr ELSE i], g, 1)
    PROVE  g = [i \in 1..k |-> i]
  <1> DEFINE c == [i \in 0..k |-> IF i = 0 THEN Hdr ELSE i]
  <1>1. /\ Len(g) \in Nat /\ DOMAIN g = 1..Len(g) /\ g = [i \in 1..Len(g) |-> g[i]]
        /\ \A i \in 1..Len(g) : g[i] # Fin
    BY MarkAssumption
  <1>2. ASSUME NEW i \in 1..Len(g) PROVE g[i] = i /\ i <= k
    <2>1. 1 + i - 1 = i /\ i # 0 /\ i \in Nat
      BY <1>1
    <2>2. i \in DOMAIN c /\ g[i] = c[i]
      BY <1>1, <2>1 DEF Fits
    <2>3. i \in 0..k
      BY <2>2
    <2> QED
      BY <2>1, <2>2, <2>3
  <1>3. PICK j \in 1..Len(g) : g[j] = k
    BY <1>1 DEF ToSet
  <1>4. j = k
    BY <1>2, <1>3
  <1>5. Len(g) = k
    <2>1. CASE Len(g) = 0
      BY <1>1, <1>3, <2>1
    <2>2. CASE Len(g) # 0
      <3>1. Len(g) \in 1..Len(g)
        BY <1>1, <2>2
      <3>2. Len(g) <= k
        BY <1>2, <3>1
      <3> QED
        BY <1>1, <1>3, <1>4, <3>2
    <2> QED
      BY <2>1, <2>2
  <1> QED
    BY <1>1, <1>2, <1>5

\* A peer whose data have all arrived was heard.
LEMMA HeardOut ==
    ASSUME IInv, NEW d \in Dir, Bounded(d), Once(d), Complete(d)
    PROVE  ~Unheard(d)
  <1> DEFINE k == sent[d]
             g == got[d]
  <1>1. k \in Nat /\ g = [i \in 1..k |-> i]
    BY Types DEF IInv, Complete
  <1>2. Len(g) = k
    BY <1>1
  <1>3. ~Missed(d)
    <2>1. ~(Len(g) < k)
      BY <1>1, <1>2
    <2> QED
      BY <2>1 DEF Missed
  <1>4. ~Waiting(d)
    <2>1. SUFFICES ASSUME Waiting(d) PROVE FALSE
      OBVIOUS
    <2>2. k \in 1..k
      BY <1>1, <2>1 DEF Waiting, Bounded
    <2> HIDE DEF g
    <2>3. k \in DOMAIN g /\ g[k] = k
      BY <1>1, <2>2
    <2>4. k \in Passed(d)
      BY <2>3 DEF Passed, ToSet, g
    <2> QED
      BY <2>1, <2>4 DEF Once
  <1> QED
    BY <1>3, <1>4 DEF Unheard

LEMMA FirstIsHeard ==
    ASSUME IInv, HeardInv
    PROVE  FirstCloserHeard
  <1> SUFFICES ASSUME NEW d \in Dir,
                      over[d], ~dead, peer[Source(d)] \in {"shut", "gone"},
                      peer[Dest(d)] = "open", Complete(Other(d)), sent[d] # 0
               PROVE  Complete(d)
    BY DEF FirstCloserHeard
  <1>1. /\ TypeOK /\ Other(d) \in Dir /\ out[d] \in Seq(Item) /\ sent[d] \in Nat
        /\ got[d] \in Seq(Nat \cup {Refusal}) /\ sent[d] \notin {Fin, Refusal}
    BY Ends, Types, MarkAssumption DEF IInv
  <1>2. out[d] = <<Fin>> /\ Closed(Writer(d))
    <2>1. out[d] # <<>> /\ Head(out[d]) = Fin
      BY DEF IInv, OverWF, AtEnd
    <2>2. EndsLast(out[d]) /\ (Fin \in ToSet(out[d]) => Closed(Writer(d)))
      BY DEF HeardInv, OutEnds
    <2> QED
      BY <1>1, <2>1, <2>2, TailSet
  <1>3. ~Excused(d)
    <2>1. ~Unheard(Other(d))
      BY <1>1, HeardOut DEF HeardInv
    <2> QED
      BY <2>1 DEF Excused
  <1>4. sent[d] \in Passed(d)
    <2>1. sent[d] > 0
      BY <1>1
    <2> QED
      BY <1>2, <1>3, <2>1 DEF HeardInv, Carried
  <1>5. sent[d] \in ToSet(got[d])
    <2>1. ToSet(out[d]) = {Fin}
      BY <1>2, FewSet
    <2> QED
      BY <1>1, <1>4, <2>1 DEF Passed
  <1>6. InOrder(d)
    <2>1. ToSet(<<>>) = {} /\ ToSet(<<Refusal>>) = {Refusal}
      BY FewSet
    <2>2. OwnAnswer => ToSet(got["down"]) \subseteq {Refusal}
      BY <2>1 DEF OwnAnswer
    <2> QED
      BY <1>1, <1>5, <2>2, Ends DEF IInv
  <1>7. Content(d) = [i \in 0..sent[d] |-> IF i = 0 THEN Hdr ELSE i]
    BY Ends DEF Content, Refused
  <1>8. Fits([i \in 0..sent[d] |-> IF i = 0 THEN Hdr ELSE i], got[d], 1)
    BY <1>6, <1>7 DEF InOrder
  <1>9. got[d] = [i \in 1..sent[d] |-> i]
    BY <1>1, <1>5, <1>8, AllOfIt
  <1> QED
    BY <1>9 DEF Complete

\* The peer that closes the connection first is heard to the end: everything
\* it has sent reaches the other one, unless the session is lost, the other
\* one closes too, or something the other one has sent is lost
\* (util.go:17-40, proxy.go:25-80, http_proxy.go:180-230).
THEOREM FirstCloserIsHeard == Spec => []FirstCloserHeard
  <1>1. Init => HeardInv
    BY InitHeard
  <1>2. IInv /\ HeardInv /\ [Next]_vars => HeardInv'
    BY HeardNext
  <1>3. IInv /\ HeardInv => FirstCloserHeard
    BY FirstIsHeard
  <1> QED
    BY <1>1, <1>2, <1>3, Invariant, PTL DEF Spec

=============================================================================
