--------------------------- MODULE SessionProofs ---------------------------
(***************************************************************************)
(* Proofs about Session and its record SessionWatch, for any number of     *)
(* tunnels, directories, sessions and operations from the dashboard.       *)
(*                                                                         *)
(* First the facts about queues and lists, then the invariant of Session   *)
(* and its theorems; then the invariants of the record: what sessions and  *)
(* records look like (WatchInv), what is registered or asked for as long   *)
(* as the dashboard does nothing (RestoreInv), and how the two ends'       *)
(* directories come to agree, tunnel by tunnel (AgreeInv).                 *)
(***************************************************************************)
EXTENDS SessionWatch, SequenceLemmas

-----------------------------------------------------------------------------
(* Queues of messages and lists of tunnels as sets *)

LEMMA TailOps ==
    ASSUME NEW S, NEW q \in Seq(S), q # <<>>
    PROVE  /\ ToSet(q) = {Head(q)} \cup ToSet(Tail(q))
           /\ \A n : /\ OneOp(q, n) => OneOp(Tail(q), n)
                     /\ OneOp(q, n) /\ IsOp(Head(q), n) => Ops(Tail(q), n) = {}
                     /\ Ops(Tail(q), n) \subseteq Ops(q, n)
                     /\ ~IsOp(Head(q), n) => Ops(Tail(q), n) = Ops(q, n)
  <1>1. /\ DOMAIN Tail(q) = 1..(Len(q) - 1) /\ DOMAIN q = 1..Len(q) /\ Len(q) \in Nat \ {0}
        /\ \A i \in 1..(Len(q) - 1) : Tail(q)[i] = q[i + 1] /\ i + 1 \in 1..Len(q)
        /\ Head(q) = q[1] /\ 1 \in 1..Len(q)
    OBVIOUS
  <1>2. \A l \in Nat : \A i \in 1..l : i # 1 => i - 1 \in 1..(l - 1) /\ (i - 1) + 1 = i
    OBVIOUS
  <1>3. ToSet(q) = {Head(q)} \cup ToSet(Tail(q))
    <2>1. ASSUME NEW i \in 1..Len(q), i # 1 PROVE q[i] \in ToSet(Tail(q))
      <3>1. i - 1 \in DOMAIN Tail(q) /\ Tail(q)[i - 1] = q[i]
        BY <1>1, <1>2, <2>1
      <3> QED
        BY <3>1 DEF ToSet
    <2>2. ToSet(Tail(q)) \subseteq ToSet(q) /\ Head(q) \in ToSet(q)
      BY <1>1 DEF ToSet
    <2> QED
      BY <1>1, <2>1, <2>2 DEF ToSet
  <1>4. ASSUME NEW n, OneOp(q, n)
        PROVE  OneOp(Tail(q), n) /\ (IsOp(Head(q), n) => Ops(Tail(q), n) = {})
    <2>1. \A i \in 1..(Len(q) - 1) : i + 1 # 1
      BY <1>1
    <2>2. \A i, j \in 1..(Len(q) - 1) : i + 1 = j + 1 => i = j
      BY <1>1
    <2>3. OneOp(Tail(q), n)
      BY <1>1, <1>4, <2>2 DEF OneOp
    <2>4. ASSUME IsOp(Head(q), n), NEW m \in Ops(Tail(q), n) PROVE FALSE
      <3>1. PICK i \in 1..(Len(q) - 1) : m = Tail(q)[i]
        BY <1>1, <2>4 DEF Ops, ToSet
      <3>2. IsOp(q[i + 1], n) /\ IsOp(q[1], n) /\ i + 1 \in DOMAIN q /\ 1 \in DOMAIN q
        BY <1>1, <2>4, <3>1 DEF Ops
      <3>3. i + 1 = 1
        BY <1>4, <3>2 DEF OneOp
      <3> QED
        BY <2>1, <3>3
    <2> QED
      BY <2>3, <2>4
  <1> QED
    BY <1>3, <1>4 DEF Ops

LEMMA AppendOps ==
    ASSUME NEW S, NEW q \in Seq(S), NEW e
    PROVE  /\ q \o <<e>> = Append(q, e)
           /\ ToSet(Append(q, e)) = ToSet(q) \cup {e}
           /\ \A n : /\ OneOp(q, n) /\ (IsOp(e, n) => Ops(q, n) = {}) => OneOp(Append(q, e), n)
                     /\ Ops(Append(q, e), n) = Ops(q, n) \cup (IF IsOp(e, n) THEN {e} ELSE {})
  <1> DEFINE r == Append(q, e)
  <1>1. /\ DOMAIN r = 1..(Len(q) + 1) /\ DOMAIN q = 1..Len(q) /\ Len(q) \in Nat
        /\ \A i \in 1..Len(q) : r[i] = q[i] /\ i \in 1..(Len(q) + 1)
        /\ r[Len(q) + 1] = e /\ Len(q) + 1 \in 1..(Len(q) + 1)
    OBVIOUS
  <1>2. \A i \in 1..(Len(q) + 1) : i \in 1..Len(q) \/ i = Len(q) + 1
    BY <1>1
  <1>3. q \o <<e>> = r
    OBVIOUS
  <1> HIDE DEF r
  <1>4. ToSet(r) = ToSet(q) \cup {e}
    BY <1>1, <1>2 DEF ToSet
  <1>5. ASSUME NEW n, OneOp(q, n), IsOp(e, n) => Ops(q, n) = {}
        PROVE  OneOp(r, n)
    <2>1. ASSUME NEW i \in 1..Len(q), IsOp(q[i], n) PROVE ~IsOp(e, n)
      BY <1>1, <1>5, <2>1 DEF Ops, ToSet
    <2> QED
      BY <1>1, <1>2, <1>5, <2>1 DEF OneOp
  <1>6. \A n : Ops(r, n) = Ops(q, n) \cup (IF IsOp(e, n) THEN {e} ELSE {})
    BY <1>4 DEF Ops
  <1> QED
    BY <1>3, <1>4, <1>5, <1>6 DEF r

LEMMA AppendListed ==
    ASSUME NEW S, NEW q \in Seq(S), NEW e
    PROVE  /\ ToSet(Append(q, e)) = ToSet(q) \cup {e}
           /\ \A n : Once(Append(q, e), n) => Once(q, n) /\ (n = e => n \notin ToSet(q))
  <1> DEFINE r == Append(q, e)
  <1>1. /\ DOMAIN r = 1..(Len(q) + 1) /\ DOMAIN q = 1..Len(q) /\ Len(q) \in Nat
        /\ \A i \in 1..Len(q) : r[i] = q[i] /\ i \in 1..(Len(q) + 1) /\ i # Len(q) + 1
        /\ r[Len(q) + 1] = e /\ Len(q) + 1 \in 1..(Len(q) + 1)
    OBVIOUS
  <1>2. ToSet(r) = ToSet(q) \cup {e}
    BY AppendOps
  <1> HIDE DEF r
  <1>3. ASSUME NEW n, Once(r, n) PROVE Once(q, n) /\ (n = e => n \notin ToSet(q))
    BY <1>1, <1>3 DEF Once, ToSet
  <1> QED
    BY <1>2, <1>3 DEF r

-----------------------------------------------------------------------------
(* The loop of dynamicRemove, which tlapm does not unfold by itself *)

(* The list as it grows.                                                   *)
LEMMA WithoutSteps ==
    ASSUME NEW S, NEW q \in Seq(S), NEW n
    PROVE  \E kept : /\ kept[0] = <<>>
                     /\ \A k \in 1..Len(q) : kept[k] = IF q[k] # n THEN Append(kept[k - 1], q[k])
                                                                  ELSE kept[k - 1]
                     /\ Without(q, n) = kept[Len(q)]
  <1> DEFINE Body(F, i) == IF i = 0 THEN <<>>
                           ELSE IF q[i] # n THEN Append(F[i - 1], q[i])
                           ELSE F[i - 1]
             Solves(F, k) == F = [i \in 0..k |-> Body(F, i)]
             kept == CHOOSE F : Solves(F, Len(q))
  <1>0. Len(q) \in Nat
    OBVIOUS
  <1>1. \A k \in Nat : \E F : Solves(F, k)
    <2> DEFINE Solvable(k) == \E F : Solves(F, k)
    <2>1. Solvable(0)
      <3> DEFINE F == [i \in 0..0 |-> <<>>]
      <3>1. Solves(F, 0)
        OBVIOUS
      <3> QED
        BY <3>1
    <2>2. ASSUME NEW k \in Nat, Solvable(k) PROVE Solvable(k + 1)
      <3>1. PICK F : Solves(F, k)
        BY <2>2
      <3> DEFINE G == [i \in 0..(k + 1) |-> IF i = k + 1 THEN Body(F, i) ELSE F[i]]
      <3>2. ASSUME NEW i \in 0..k PROVE G[i] = F[i] /\ F[i] = Body(F, i)
        <4>1. i \in 0..(k + 1) /\ i # k + 1
          OBVIOUS
        <4>2. G[i] = F[i]
          BY <4>1
        <4>3. F[i] = Body(F, i)
          BY <3>1
        <4> QED
          BY <4>2, <4>3
      <3>3. G[k + 1] = Body(F, k + 1)
        OBVIOUS
      <3> HIDE DEF G
      <3>4. ASSUME NEW i \in 0..(k + 1) PROVE G[i] = Body(G, i)
        <4>1. i # 0 => i - 1 \in 0..k
          OBVIOUS
        <4>2. i # 0 => G[i - 1] = F[i - 1]
          BY <3>2, <4>1
        <4>3. Body(G, i) = Body(F, i)
          BY <4>2
        <4> QED
          BY <3>2, <3>3, <4>3
      <3>5. G = [i \in 0..(k + 1) |-> G[i]]
        BY DEF G
      <3>6. Solves(G, k + 1)
        BY <3>4, <3>5
      <3> QED
        BY <3>6
    <2> HIDE DEF Solvable
    <2>3. \A k \in Nat : k \in {j \in Nat : Solvable(j)}
      <3> DEFINE P == {j \in Nat : Solvable(j)}
      <3>1. 0 \in P /\ \A k \in Nat : k \in P => k + 1 \in P
        BY <2>1, <2>2
      <3> HIDE DEF P
      <3>2. \A k \in Nat : k \in P
        BY <3>1, AllNumbers
      <3> QED
        BY <3>2 DEF P
    <2> QED
      BY <2>3 DEF Solvable
  <1>2. Solves(kept, Len(q))
    <2> HIDE DEF Solves
    <2>1. \E F : Solves(F, Len(q))
      BY <1>0, <1>1
    <2> QED
      BY <2>1
  <1>3. Without(q, n) = kept[Len(q)]
    BY DEF Without
  <1> HIDE DEF kept
  <1>4. \A k \in 0..Len(q) : kept[k] = Body(kept, k)
    BY <1>2
  <1>5. 0 \in 0..Len(q) /\ \A k \in 1..Len(q) : k \in 0..Len(q) /\ k # 0
    BY <1>0
  <1> QED
    BY <1>3, <1>4, <1>5

(* It keeps what is not n, and that is in the list as often as before.     *)
LEMMA WithoutElements ==
    ASSUME NEW S, NEW q \in Seq(S), NEW n
    PROVE  /\ Without(q, n) \in Seq(S)
           /\ ToSet(Without(q, n)) = ToSet(q) \ {n}
           /\ \A p : p # n /\ Once(Without(q, n), p) => Once(q, p)
  <1>1. PICK kept : /\ kept[0] = <<>>
                    /\ \A k \in 1..Len(q) : kept[k] = IF q[k] # n THEN Append(kept[k - 1], q[k])
                                                                 ELSE kept[k - 1]
                    /\ Without(q, n) = kept[Len(q)]
    BY WithoutSteps
  <1>2. Len(q) \in Nat /\ DOMAIN q = 1..Len(q) /\ \A k \in 1..Len(q) : q[k] \in S
    OBVIOUS
  <1> DEFINE First(k) == {q[i] : i \in 1..k}
             OnceIn(k, p) == \A i, j \in 1..k : q[i] = p /\ q[j] = p => i = j
             Good(k) == /\ kept[k] \in Seq(S)
                        /\ ToSet(kept[k]) = First(k) \ {n}
                        /\ \A p : p # n /\ Once(kept[k], p) => OnceIn(k, p)
             P == {k \in Nat : k <= Len(q) => Good(k)}
  <1>3. 0 \in P
    <2>1. kept[0] \in Seq(S) /\ ToSet(kept[0]) = {} /\ 1..0 = {}
      BY <1>1 DEF ToSet
    <2> QED
      BY <2>1
  <1>4. ASSUME NEW k \in Nat, k \in P PROVE k + 1 \in P
    <2> SUFFICES ASSUME k + 1 <= Len(q) PROVE Good(k + 1)
      OBVIOUS
    <2>1. /\ k + 1 \in 1..Len(q) /\ (k + 1) - 1 = k /\ k <= Len(q)
          /\ \A i \in 1..(k + 1) : i \in 1..k \/ i = k + 1
          /\ \A i \in 1..k : i \in 1..(k + 1) /\ i # k + 1
          /\ k + 1 \in 1..(k + 1)
      BY <1>2
    <2>2. Good(k)
      BY <1>4, <2>1
    <2> DEFINE e == q[k + 1]
    <2>3. First(k + 1) = First(k) \cup {e}
      BY <2>1
    <2>4. kept[k + 1] = IF e # n THEN Append(kept[k], e) ELSE kept[k]
      BY <1>1, <2>1
    <2>5. e \in S
      BY <1>2, <2>1
    <2>6. ASSUME NEW p, OnceIn(k, p), p = e => p \notin First(k)
          PROVE  OnceIn(k + 1, p)
      BY <2>1, <2>6
    <2> HIDE DEF First, OnceIn, e
    <2>7. CASE e = n
      <3>1. \A p : p # n => p # e
        BY <2>7
      <3> QED
        BY <2>2, <2>3, <2>4, <2>6, <2>7, <3>1
    <2>8. CASE e # n
      <3>1. /\ Append(kept[k], e) \in Seq(S)
            /\ ToSet(Append(kept[k], e)) = ToSet(kept[k]) \cup {e}
            /\ \A p : Once(Append(kept[k], e), p) =>
                         Once(kept[k], p) /\ (p = e => p \notin ToSet(kept[k]))
        BY <2>2, <2>5, AppendListed
      <3> HIDE DEF Good
      <3>2. \A p : p # n /\ Once(kept[k + 1], p) => OnceIn(k + 1, p)
        BY <2>2, <2>4, <2>6, <2>8, <3>1 DEF Good
      <3>3. kept[k + 1] \in Seq(S) /\ ToSet(kept[k + 1]) = First(k + 1) \ {n}
        BY <2>2, <2>3, <2>4, <2>8, <3>1 DEF Good
      <3> QED
        BY <3>2, <3>3 DEF Good
    <2> QED
      BY <2>7, <2>8
  <1> HIDE DEF P
  <1>5. \A k \in Nat : k \in P
    BY <1>3, <1>4, AllNumbers
  <1>6. Good(Len(q))
    <2>1. \A k \in Nat : k <= Len(q) => Good(k)
      <3> HIDE DEF Good
      <3> QED
        BY <1>5 DEF P
    <2> HIDE DEF Good
    <2> QED
      BY <1>2, <2>1
  <1>7. First(Len(q)) = ToSet(q) /\ \A p : OnceIn(Len(q), p) => Once(q, p)
    BY <1>2 DEF ToSet, Once
  <1> HIDE DEF First, OnceIn
  <1> QED
    BY <1>1, <1>6, <1>7

-----------------------------------------------------------------------------
(* Messages and queues *)

LEMMA Messages ==
    ASSUME NEW n \in Name, NEW d \in Dir \cup {None}
    PROVE  /\ Msg("ack", None) \in Message
           /\ Msg("registered", n) \in Message /\ Msg("error", n) \in Message
           /\ Msg("add", n) \in Message /\ Msg("remove", n) \in Message
           /\ DirMsg("setDir", n, d) \in Message
           /\ DirMsg("register", n, d) \in [type : {"register"}, name : Name,
                                            dir : Dir \cup {None}]
  BY DEF Message, Msg, DirMsg

LEMMA MessageParts ==
    ASSUME NEW m \in Message
    PROVE  /\ m.type \in {"add", "remove", "setDir"} => m.name \in Name
           /\ m.type = "setDir" => m.dir \in Dir \cup {None}
  BY DEF Message

LEMMA SentQueue ==
    ASSUME NEW M, NEW queue \in [Sessions -> Seq(M)], NEW k \in Sessions,
           NEW ms \in Seq(M)
    PROVE  /\ Sent(queue, k, ms) \in [Sessions -> Seq(M)]
           /\ \A j \in Sessions :
                 Sent(queue, k, ms)[j] = IF j = k /\ k \notin down THEN queue[j] \o ms
                                                                  ELSE queue[j]
  BY DEF Sent

LEMMA SentLength ==
    ASSUME NEW M, NEW queue \in [Sessions -> Seq(M)], NEW k \in Sessions,
           NEW ms \in Seq(M), k \notin down
    PROVE  Len(Sent(queue, k, ms)[k]) = Len(queue[k]) + Len(ms)
  BY DEF Sent

LEMMA SentElsewhere ==
    ASSUME NEW M, NEW queue \in [Sessions -> Seq(M)], NEW k \in Sessions,
           NEW ms \in Seq(M), NEW j \in Sessions, j # k
    PROVE  Sent(queue, k, ms)[j] = queue[j]
  BY DEF Sent

LEMMA ReceivedQueue ==
    ASSUME NEW M, NEW queue \in [Sessions -> Seq(M)], NEW k \in Sessions,
           queue[k] # <<>>
    PROVE  /\ Received(queue, k) \in [Sessions -> Seq(M)]
           /\ \A j \in Sessions :
                 Received(queue, k)[j] = IF j = k THEN Tail(queue[j]) ELSE queue[j]
           /\ Len(Received(queue, k)[k]) = Len(queue[k]) - 1
           /\ Head(queue[k]) \in M
  BY DEF Received

-----------------------------------------------------------------------------
(* Which steps move which variable *)

\* The two steps of a registration.
Registers(k) == CheckSubdomain(k) \/ RegisterHTTP(k)

LEMMA Moves ==
    ASSUME [Next]_vars
    PROVE  /\ UNCHANGED config \/ DynamicAdd \/ DynamicRemove
           /\ UNCHANGED dir \/ DynamicRemove \/ SetTunnelDir
           /\ UNCHANGED client \/ Dial \/ RegisterAll \/ ReadReply \/ SessionEnds
           /\ UNCHANGED awaiting \/ RegisterAll \/ ReadReply
           /\ UNCHANGED cur \/ Dial
           /\ \/ UNCHANGED toServer \/ RegisterAll \/ DynamicAdd
              \/ \E k \in Sessions : Registers(k)
           /\ \/ UNCHANGED toClient \/ RegisterAll \/ ReadReply \/ DynamicAdd
              \/ DynamicRemove \/ SetTunnelDir \/ LogReply
              \/ \E k \in Sessions : Authenticate(k) \/ Registers(k)
              \/ \E k \in Sessions, n \in Name : AddTunnel(k, n) \/ RemoveTunnel(k, n)
              \/ SendDir
           /\ UNCHANGED down \/ \E k \in Sessions : Break(k)
           /\ \/ UNCHANGED handler \/ Dial
              \/ \E k \in Sessions : Authenticate(k) \/ Registers(k) \/ GiveUp(k)
           /\ \/ UNCHANGED <<tunnels, route>>
              \/ \E k \in Sessions : RegisterHTTP(k) \/ GiveUp(k)
              \/ RemoveTunnelByName
           /\ \/ UNCHANGED entryDir \/ RemoveTunnelByName
              \/ \E k \in Sessions : RegisterHTTP(k) \/ GiveUp(k)
              \/ \E k \in Sessions, n \in Name, d \in Dir \cup {None} : SetEntryDir(k, n, d)
           /\ \/ UNCHANGED removing \/ RemoveTunnelByName
              \/ \E k \in Sessions, n \in Name : RemoveTunnel(k, n)
           /\ \/ UNCHANGED setting \/ SendDir
              \/ \E k \in Sessions, n \in Name, d \in Dir \cup {None} : SetEntryDir(k, n, d)
           /\ \/ UNCHANGED ops
              \/ \E k \in Sessions, n \in Name :
                    \/ AddTunnel(k, n) \/ RemoveTunnel(k, n)
                    \/ \E d \in Dir \cup {None} : SetEntryDir(k, n, d)
  BY ZenonT(30) DEF Next, Client, Server, Dashboard, vars, clientVars, serverVars, dashVars,
         Dial, RegisterAll, ReadReply, DynamicAdd, DynamicRemove, SetTunnelDir,
         LogReply, SessionEnds, Authenticate, Registers, CheckSubdomain, RegisterHTTP,
         GiveUp, AddTunnel, RemoveTunnel, RemoveTunnelByName, SetEntryDir, SendDir, Break

-----------------------------------------------------------------------------
(* Type correctness *)

LEMMA RegistrationsSent ==
    ASSUME IInv, RegisterAll
    PROVE  LET ms == [i \in DOMAIN config |->
                         DirMsg("register", config[i], DirAt(i))]
           IN  /\ cur \in Sessions
               /\ ms \in Seq([type : {"register"}, name : Name, dir : Dir \cup {None}])
               /\ Len(ms) = Len(config)
  <1> DEFINE Req == [type : {"register"}, name : Name, dir : Dir \cup {None}]
             ms == [i \in DOMAIN config |-> DirMsg("register", config[i], DirAt(i))]
  <1>1. cur \in Sessions
    BY DEF IInv, ClientWF, RegisterAll
  <1>2. config \in Seq(Name) /\ dir \in [Name -> Dir \cup {None}]
    BY DEF IInv, TypeOK
  <1>3. DOMAIN config = 1..Len(config) /\ Len(config) \in Nat
    BY <1>2
  <1>4. ASSUME NEW i \in 1..Len(config) PROVE ms[i] \in Req
    <2>1. config[i] \in Name /\ DirAt(i) \in Dir \cup {None}
      BY <1>2, <1>3 DEF DirAt
    <2> QED
      BY <1>3, <2>1, Messages
  <1>5. ms \in [1..Len(config) -> Req]
    <2>1. ms = [i \in 1..Len(config) |-> ms[i]]
      BY <1>3
    <2> HIDE DEF ms, Req
    <2> QED
      BY <1>4, <2>1
  <1>6. ms \in Seq(Req) /\ Len(ms) = Len(config)
    <2> HIDE DEF ms, Req
    <2> QED
      BY <1>3, <1>5
  <1> QED
    BY <1>1, <1>6

(* What the server reads next, when it registers a tunnel.                 *)
LEMMA NextRequest ==
    ASSUME IInv, NEW k \in Sessions, Registers(k)
    PROVE  /\ toServer[k] # <<>>
           /\ Head(toServer[k]).name \in Name
           /\ Head(toServer[k]).dir \in Dir \cup {None}
  <1> DEFINE Req == [type : {"register"}, name : Name, dir : Dir \cup {None}]
  <1>1. toServer[k] \in Seq(Req) /\ toServer[k] # <<>>
    BY DEF IInv, RequestsWF, HandlerWF, Registers, CheckSubdomain, RegisterHTTP
  <1>2. Head(toServer[k]) \in Req
    <2> HIDE DEF Req
    <2> QED
      BY <1>1
  <1> QED
    BY <1>1, <1>2

(* A step of a registration answers the request, or the handler is past    *)
(* the check.                                                              *)
LEMMA RequestAnswered ==
    ASSUME IInv, NEW k \in Sessions, Registers(k)
    PROVE  \/ /\ CheckSubdomain(k) /\ handler' = [handler EXCEPT ![k] = "register"]
              /\ route[Head(toServer[k]).name] = 0
              /\ UNCHANGED <<clientVars, toServer, toClient, down, tunnels, entryDir, route,
                             dashVars>>
           \/ /\ toServer' = Received(toServer, k)
              /\ \E m \in {Msg("error", Head(toServer[k]).name),
                            Msg("registered", Head(toServer[k]).name)} :
                     m \in Message /\ toClient' = Sent(toClient, k, <<m>>)
              /\ handler' = [handler EXCEPT ![k] = "loop"]
              /\ handler[k] \in {"loop", "register"}
              /\ UNCHANGED <<clientVars, down, dashVars>>
  <1> DEFINE n == Head(toServer[k]).name
  <1>1. n \in Name
    BY NextRequest
  <1>2. Msg("error", n) \in Message /\ Msg("registered", n) \in Message
    BY <1>1 DEF Msg, Message
  <1>3. handler = [handler EXCEPT ![k] = handler[k]]
    BY DEF IInv, TypeOK
  <1> QED
    BY <1>2, <1>3 DEF Registers, CheckSubdomain, RegisterHTTP

LEMMA RequestsNext ==
    ASSUME IInv, [Next]_vars
    PROVE  RequestsWF'
  <1> DEFINE Req == [type : {"register"}, name : Name, dir : Dir \cup {None}]
  <1> SUFFICES toServer' \in [Sessions -> Seq(Req)]
    BY DEF RequestsWF
  <1>1. toServer \in [Sessions -> Seq(Req)]
    BY DEF IInv, RequestsWF
  <1>2. CASE RegisterAll
    <2> DEFINE ms == [i \in DOMAIN config |->
                         DirMsg("register", config[i], DirAt(i))]
    <2>1. cur \in Sessions /\ ms \in Seq(Req)
      BY <1>2, RegistrationsSent
    <2>2. toServer' = Sent(toServer, cur, ms)
      BY <1>2 DEF RegisterAll
    <2> HIDE DEF ms, Req
    <2> QED
      BY <1>1, <2>1, <2>2, SentQueue
  <1>3. CASE DynamicAdd
    <2> DEFINE m == Head(toClient[cur])
    <2>1. cur \in Sessions /\ m \in Message /\ m.type = "add"
      BY <1>3 DEF IInv, TypeOK, ClientWF, DynamicAdd
    <2>2. <<DirMsg("register", m.name, None)>> \in Seq(Req)
      BY <2>1, MessageParts, Messages
    <2>3. toServer' = Sent(toServer, cur, <<DirMsg("register", m.name, None)>>)
      BY <1>3 DEF DynamicAdd
    <2> HIDE DEF Req
    <2> QED
      BY <1>1, <2>1, <2>2, <2>3, SentQueue
  <1>4. ASSUME NEW k \in Sessions, Registers(k)
        PROVE  toServer' \in [Sessions -> Seq(Req)]
    <2>1. toServer' \in {toServer, Received(toServer, k)} /\ toServer[k] # <<>>
      BY <1>4, NextRequest, RequestAnswered
    <2> HIDE DEF Req
    <2> QED
      BY <1>1, <2>1, ReceivedQueue
  <1> QED
    BY <1>1, <1>2, <1>3, <1>4, Moves

LEMMA ToClientNext ==
    ASSUME IInv, [Next]_vars
    PROVE  toClient' \in [Sessions -> Seq(Message)]
  <1>1. toClient \in [Sessions -> Seq(Message)]
    BY DEF IInv, TypeOK
  <1>2. CASE \/ RegisterAll \/ ReadReply \/ DynamicAdd
             \/ DynamicRemove \/ SetTunnelDir \/ LogReply
    <2>1. /\ cur \in Sessions /\ toClient[cur] # <<>>
          /\ toClient' = Received(toClient, cur)
      BY <1>2 DEF IInv, ClientWF, RegisterAll, ReadReply, DynamicAdd, DynamicRemove,
                  SetTunnelDir, LogReply
    <2> QED
      BY <1>1, <2>1, ReceivedQueue
  <1>3. ASSUME NEW k \in Sessions, NEW m \in Message,
               toClient' = Sent(toClient, k, <<m>>)
        PROVE  toClient' \in [Sessions -> Seq(Message)]
    <2>1. <<m>> \in Seq(Message)
      OBVIOUS
    <2> QED
      BY <1>1, <1>3, <2>1, SentQueue
  <1>4. ASSUME NEW k \in Sessions, Authenticate(k)
        PROVE  toClient' \in [Sessions -> Seq(Message)]
    <2>1. Msg("ack", None) \in Message
      BY DEF Msg, Message
    <2> QED
      BY <1>3, <1>4, <2>1 DEF Authenticate
  <1>5. ASSUME NEW k \in Sessions, Registers(k)
        PROVE  toClient' \in [Sessions -> Seq(Message)]
    BY <1>1, <1>3, <1>5, RequestAnswered
  <1>6. ASSUME NEW k \in Sessions, NEW n \in Name, AddTunnel(k, n) \/ RemoveTunnel(k, n)
        PROVE  toClient' \in [Sessions -> Seq(Message)]
    <2>1. Msg("add", n) \in Message /\ Msg("remove", n) \in Message
      BY DEF Msg, Message
    <2> QED
      BY <1>3, <1>6, <2>1 DEF AddTunnel, RemoveTunnel
  <1>7. CASE SendDir
    <2>1. PICK s \in setting : toClient' = Sent(toClient, s.session, <<s.message>>)
      BY <1>7 DEF SendDir
    <2>2. s.session \in Sessions /\ s.message \in Message
      BY DEF IInv, TypeOK
    <2> QED
      BY <1>3, <2>1, <2>2
  <1> QED
    BY <1>1, <1>2, <1>4, <1>5, <1>6, <1>7, Moves

LEMMA TypeNext ==
    ASSUME IInv, [Next]_vars
    PROVE  TypeOK'
  <1> USE BoundAssumption DEF TypeOK, Sessions
  <1>0. TypeOK
    BY DEF IInv
  <1>1. config' \in Seq(Name) /\ dir' \in [Name -> Dir \cup {None}]
    <2>1. CASE DynamicAdd
      <3>1. Head(toClient[cur]) \in Message /\ Head(toClient[cur]).type = "add"
        BY <1>0, <2>1 DEF IInv, ClientWF, DynamicAdd
      <3>2. Head(toClient[cur]).name \in Name
        BY <3>1, MessageParts
      <3>3. dir' = dir /\ config' \in {config, Append(config, Head(toClient[cur]).name)}
        BY <2>1 DEF DynamicAdd
      <3>4. config \in Seq(Name) /\ dir \in [Name -> Dir \cup {None}]
        BY <1>0
      <3>5. Append(config, Head(toClient[cur]).name) \in Seq(Name)
        BY <3>2, <3>4
      <3>6. config' \in Seq(Name)
        BY <3>3, <3>4, <3>5
      <3> QED
        BY <3>3, <3>4, <3>6
    <2>2. CASE DynamicRemove
      <3>1. Head(toClient[cur]) \in Message /\ Head(toClient[cur]).type = "remove"
        BY <1>0, <2>2 DEF IInv, ClientWF, DynamicRemove
      <3>2. config' = Without(config, Head(toClient[cur]).name)
        BY <2>2 DEF DynamicRemove
      <3> QED
        BY <1>0, <2>2, <3>1, <3>2, MessageParts, WithoutElements DEF DynamicRemove
    <2>3. CASE SetTunnelDir
      <3>1. Head(toClient[cur]) \in Message /\ Head(toClient[cur]).type = "setDir"
        BY <1>0, <2>3 DEF IInv, ClientWF, SetTunnelDir
      <3> QED
        BY <1>0, <2>3, <3>1, MessageParts DEF SetTunnelDir
    <2> QED
      BY <1>0, <2>1, <2>2, <2>3, Moves
  <1>2. client' \in {"dial", "ack", "replies", "running"}
    BY <1>0, Moves DEF Dial, RegisterAll, ReadReply, SessionEnds
  <1>3. awaiting' \in Nat
    <2>1. /\ awaiting \in Nat /\ Len(config) \in Nat
          /\ client = "replies" => awaiting > 0
      BY <1>0 DEF IInv, ClientWF
    <2>2. \/ awaiting' = awaiting \/ awaiting' = Len(config)
          \/ client = "replies" /\ awaiting' = awaiting - 1
      BY Moves DEF RegisterAll, ReadReply
    <2> QED
      BY <2>1, <2>2
  <1>4. cur' \in 0..MaxSession
    <2>1. cur \in 0..MaxSession /\ MaxSession \in Nat
      BY <1>0
    <2>2. cur' = cur \/ (cur < MaxSession /\ cur' = cur + 1)
      BY Moves DEF Dial
    <2> QED
      BY <2>1, <2>2
  <1>5. toServer' \in [Sessions -> Seq(Message)]
    <2> DEFINE Req == [type : {"register"}, name : Name, dir : Dir \cup {None}]
    <2>1. toServer' \in [Sessions -> Seq(Req)]
      BY RequestsNext DEF RequestsWF
    <2>2. Req \subseteq Message
      BY DEF Message
    <2> HIDE DEF Req
    <2> QED
      BY <2>1, <2>2
  <1>6. toClient' \in [Sessions -> Seq(Message)]
    BY ToClientNext
  <1>7. down' \subseteq Sessions
    BY <1>0, Moves DEF Break
  <1>8. handler' \in [Sessions -> {"none", "auth", "loop", "register", "done"}]
    <2>1. ASSUME NEW k \in Sessions, Registers(k)
          PROVE  handler' \in [Sessions -> {"none", "auth", "loop", "register", "done"}]
      <3>1. \/ handler' = [handler EXCEPT ![k] = "register"]
            \/ handler' = [handler EXCEPT ![k] = "loop"]
        BY <2>1, RequestAnswered
      <3> QED
        BY <1>0, <3>1
    <2>2. handler' \in [Sessions -> {"none", "auth", "loop", "register", "done"}]
      <3>1. ASSUME NEW k \in Sessions, Authenticate(k) \/ GiveUp(k)
            PROVE  handler' \in [Sessions -> {"none", "auth", "loop", "register", "done"}]
        BY <1>0, <3>1 DEF Authenticate, GiveUp
      <3>2. CASE Dial
        BY <1>0, <3>2 DEF Dial
      <3> QED
        BY <1>0, <2>1, <3>1, <3>2, Moves
    <2> QED
      BY <2>2
  <1>9. tunnels' \in [Sessions -> Seq(Name)] /\ route' \in [Name -> 0..MaxSession]
    <2>1. ASSUME NEW k \in Sessions, RegisterHTTP(k)
          PROVE  tunnels' \in [Sessions -> Seq(Name)] /\ route' \in [Name -> 0..MaxSession]
      <3>1. Head(toServer[k]).name \in Name
        BY <2>1, NextRequest DEF Registers
      <3>2. /\ tunnels' = [tunnels EXCEPT ![k] = Append(@, Head(toServer[k]).name)]
            /\ route' = [route EXCEPT ![Head(toServer[k]).name] = k]
        BY <2>1 DEF RegisterHTTP
      <3>3. /\ tunnels \in [Sessions -> Seq(Name)] /\ route \in [Name -> 0..MaxSession]
            /\ k \in 0..MaxSession
        BY <1>0
      <3>4. Append(tunnels[k], Head(toServer[k]).name) \in Seq(Name)
        BY <3>1, <3>3
      <3> QED
        BY <3>1, <3>2, <3>3, <3>4
    <2>2. ASSUME NEW k \in Sessions, GiveUp(k)
          PROVE  tunnels' \in [Sessions -> Seq(Name)] /\ route' \in [Name -> 0..MaxSession]
      BY <1>0, <2>2 DEF GiveUp, RemoveClient
    <2>3. CASE RemoveTunnelByName
      <3>1. removing.session \in Sessions /\ removing.name \in Name
        BY <1>0, <2>3 DEF RemoveTunnelByName
      <3>2. RemoveFirst(tunnels[removing.session], removing.name) \in Seq(Name)
        BY <1>0, <3>1, RemoveFirstElements
      <3>3. \/ UNCHANGED <<tunnels, route>>
            \/ /\ tunnels' = [tunnels EXCEPT ![removing.session] =
                                  RemoveFirst(@, removing.name)]
               /\ route' = [route EXCEPT ![removing.name] = 0]
        BY <2>3 DEF RemoveTunnelByName
      <3>4. /\ tunnels \in [Sessions -> Seq(Name)] /\ route \in [Name -> 0..MaxSession]
        BY <1>0
      <3>5. 0 \in 0..MaxSession
        OBVIOUS
      <3>6. route' \in [Name -> 0..MaxSession]
        BY <3>1, <3>3, <3>4, <3>5
      <3>7. tunnels' \in [Sessions -> Seq(Name)]
        BY <3>1, <3>2, <3>3, <3>4
      <3> QED
        BY <3>6, <3>7
    <2> QED
      BY <1>0, <2>1, <2>2, <2>3, Moves
  <1>10. entryDir' \in [Sessions -> [Name -> Dir \cup {None}]]
    <2> DEFINE Dirs == Dir \cup {None}
    <2>1. entryDir \in [Sessions -> [Name -> Dirs]] /\ None \in Dirs
      BY <1>0
    <2>2. ASSUME NEW k \in Sessions, NEW n \in Name, NEW d \in Dirs,
                 entryDir' = [entryDir EXCEPT ![k][n] = d]
          PROVE  entryDir' \in [Sessions -> [Name -> Dirs]]
      <3> HIDE DEF Dirs
      <3> QED
        BY <2>1, <2>2
    <2>3. ASSUME NEW k \in Sessions, RegisterHTTP(k)
          PROVE  entryDir' \in [Sessions -> [Name -> Dirs]]
      <3>1. Head(toServer[k]).name \in Name /\ Head(toServer[k]).dir \in Dirs
        BY <2>3, NextRequest DEF Registers
      <3>2. \/ entryDir' = entryDir
            \/ entryDir' = [entryDir EXCEPT ![k][Head(toServer[k]).name] =
                                                     Head(toServer[k]).dir]
        BY <2>3 DEF RegisterHTTP
      <3> QED
        BY <2>1, <2>2, <3>1, <3>2
    <2>4. ASSUME NEW k \in Sessions, GiveUp(k)
          PROVE  entryDir' \in [Sessions -> [Name -> Dirs]]
      BY <2>1, <2>4 DEF GiveUp, RemoveClient, NoDirs
    <2>5. CASE RemoveTunnelByName
      <3>1. removing.session \in Sessions /\ removing.name \in Name
        BY <1>0, <2>5 DEF RemoveTunnelByName
      <3>2. \/ entryDir' = entryDir
            \/ \E d \in Dirs :
                   entryDir' = [entryDir EXCEPT ![removing.session][removing.name] = d]
        BY <2>5 DEF RemoveTunnelByName
      <3> QED
        BY <2>1, <2>2, <3>1, <3>2
    <2>6. ASSUME NEW k \in Sessions, NEW n \in Name, NEW d \in Dirs,
                 SetEntryDir(k, n, d)
          PROVE  entryDir' \in [Sessions -> [Name -> Dirs]]
      BY <2>2, <2>6 DEF SetEntryDir
    <2> QED
      BY <2>1, <2>3, <2>4, <2>5, <2>6, Moves
  <1>11. removing' \in [session : Sessions, name : Name] \cup {None}
    <2>1. \A k \in Sessions, n \in Name :
             [session |-> k, name |-> n] \in [session : Sessions, name : Name]
      OBVIOUS
    <2>2. removing \in [session : Sessions, name : Name] \cup {None}
      BY <1>0
    <2>3. \/ removing' \in {removing, None}
          \/ \E k \in Sessions, n \in Name : removing' = [session |-> k, name |-> n]
      BY Moves DEF RemoveTunnel, RemoveTunnelByName
    <2> QED
      BY <2>1, <2>2, <2>3
  <1>12. ops' \in 0..MaxOps
    <2>1. ops \in 0..MaxOps /\ MaxOps \in Nat
      BY <1>0
    <2>2. ops' = ops \/ (ops < MaxOps /\ ops' = ops + 1)
      BY Moves DEF AddTunnel, RemoveTunnel, SetEntryDir
    <2> QED
      BY <2>1, <2>2
  <1>13. setting' \subseteq [op : 1..MaxOps, session : Sessions, message : Message]
    <2>1. ASSUME NEW k \in Sessions, NEW n \in Name, NEW d \in Dir \cup {None},
                 SetEntryDir(k, n, d)
          PROVE  setting' \subseteq [op : 1..MaxOps, session : Sessions, message : Message]
      <3>1. ops' \in 1..MaxOps /\ DirMsg("setDir", n, d) \in Message
        BY <1>0, <2>1, Messages DEF SetEntryDir
      <3> QED
        BY <1>0, <2>1, <3>1, SMTT(30) DEF SetEntryDir
    <2> QED
      BY <1>0, <2>1, Moves DEF SendDir
  <1> QED
    BY <1>1, <1>2, <1>3, <1>4, <1>5, <1>6, <1>7, <1>8, <1>9, <1>10, <1>11, <1>12,
       <1>13
-----------------------------------------------------------------------------
(* The other parts of the invariant *)

LEMMA InvariantInit ==
    ASSUME Init
    PROVE  IInv
  <1> USE ConfiguredAssumption, DirAssumption, BoundAssumption DEF Init, Sessions
  <1>1. TypeOK
    <2>1. config \in Seq(Name) /\ dir \in [Name -> Dir \cup {None}]
      OBVIOUS
    <2>2. /\ toServer \in [Sessions -> Seq(Message)]
          /\ toClient \in [Sessions -> Seq(Message)]
          /\ tunnels \in [Sessions -> Seq(Name)]
      OBVIOUS
    <2>3. /\ client \in {"dial", "ack", "replies", "running"}
          /\ awaiting \in Nat /\ cur \in 0..MaxSession /\ ops \in 0..MaxOps
      OBVIOUS
    <2>4. /\ down \subseteq Sessions
          /\ handler \in [Sessions -> {"none", "auth", "loop", "register", "done"}]
          /\ route \in [Name -> 0..MaxSession]
      OBVIOUS
    <2>5. entryDir \in [Sessions -> [Name -> Dir \cup {None}]]
      BY DEF NoDirs
    <2>6. /\ removing \in [session : Sessions, name : Name] \cup {None}
          /\ setting \subseteq [op : 1..MaxOps, session : Sessions, message : Message]
      OBVIOUS
    <2> QED
      BY <2>1, <2>2, <2>3, <2>4, <2>5, <2>6 DEF TypeOK
  <1>2. RequestsWF
    BY DEF RequestsWF
  <1>3. ClientWF /\ ConnectNeverStarves
    BY DEF ClientWF, ConnectNeverStarves
  <1>4. HandlerWF
    BY DEF HandlerWF
  <1> QED
    BY <1>1, <1>2, <1>3, <1>4 DEF IInv

LEMMA ClientNext ==
    ASSUME IInv, [Next]_vars
    PROVE  ClientWF'
  <1>1. /\ ClientWF /\ awaiting \in Nat /\ cur \in 0..MaxSession
        /\ config \in Seq(Name) /\ MaxSession \in Nat
    BY BoundAssumption DEF IInv, TypeOK
  <1>2. CASE Dial
    BY <1>1, <1>2 DEF Dial, ClientWF, Sessions
  <1>3. CASE RegisterAll
    <2>1. config # <<>> => Len(config) > 0
      BY <1>1
    <2> QED
      BY <1>1, <1>3, <2>1 DEF RegisterAll, ClientWF
  <1>4. CASE ReadReply
    BY <1>1, <1>4 DEF ReadReply, ClientWF
  <1>5. CASE SessionEnds
    BY <1>1, <1>5 DEF SessionEnds, ClientWF
  <1>6. CASE UNCHANGED <<client, awaiting, cur>>
    BY <1>1, <1>6 DEF ClientWF
  <1> QED
    BY <1>2, <1>3, <1>4, <1>5, <1>6, Moves

(* A request that is worked on stays the first of its queue.               *)
LEMMA FirstStays ==
    ASSUME IInv, [Next]_vars, NEW k \in Sessions, handler[k] = "register", ~RegisterHTTP(k)
    PROVE  toServer'[k] # <<>> /\ Head(toServer'[k]) = Head(toServer[k])
  <1> DEFINE Req == [type : {"register"}, name : Name, dir : Dir \cup {None}]
  <1>1. toServer \in [Sessions -> Seq(Req)] /\ toServer[k] # <<>>
    BY DEF IInv, RequestsWF, HandlerWF
  <1>2. ASSUME NEW ms \in Seq(Req), NEW j \in Sessions, toServer' = Sent(toServer, j, ms)
        PROVE  toServer'[k] # <<>> /\ Head(toServer'[k]) = Head(toServer[k])
    <2> HIDE DEF Req
    <2>1. toServer'[k] = toServer[k] \/ toServer'[k] = toServer[k] \o ms
      BY <1>1, <1>2 DEF Sent
    <2>2. toServer[k] \o ms # <<>> /\ Head(toServer[k] \o ms) = Head(toServer[k])
      BY <1>1
    <2> QED
      BY <1>1, <2>1, <2>2
  <1>3. CASE RegisterAll
    <2> DEFINE ms == [i \in DOMAIN config |->
                         DirMsg("register", config[i], DirAt(i))]
    <2>1. cur \in Sessions /\ ms \in Seq(Req) /\ toServer' = Sent(toServer, cur, ms)
      BY <1>3, RegistrationsSent DEF RegisterAll
    <2> HIDE DEF ms, Req
    <2> QED
      BY <1>2, <2>1
  <1>4. CASE DynamicAdd
    <2> DEFINE m == Head(toClient[cur])
               ms == <<DirMsg("register", m.name, None)>>
    <2>1. cur \in Sessions /\ m \in Message /\ m.type = "add"
      BY <1>4 DEF IInv, TypeOK, ClientWF, DynamicAdd
    <2>2. ms \in Seq(Req)
      BY <2>1, MessageParts, Messages
    <2>3. toServer' = Sent(toServer, cur, ms)
      BY <1>4 DEF DynamicAdd
    <2> HIDE DEF ms, Req
    <2> QED
      BY <1>2, <2>1, <2>2, <2>3
  <1>5. ASSUME NEW j \in Sessions, Registers(j)
        PROVE  toServer'[k] = toServer[k]
    <2>1. toServer' = toServer \/ (toServer' = Received(toServer, j) /\ j # k)
      BY <1>5, RequestAnswered DEF Registers, CheckSubdomain
    <2> QED
      BY <1>1, <2>1 DEF Received
  <1> QED
    BY <1>1, <1>3, <1>4, <1>5, Moves

LEMMA PastCheck ==
    ASSUME IInv, [Next]_vars, NEW k \in Sessions, handler'[k] = "register", ~CheckSubdomain(k)
    PROVE  handler[k] = "register" /\ ~RegisterHTTP(k)
  <1>0. handler \in [Sessions -> {"none", "auth", "loop", "register", "done"}]
    BY DEF IInv, TypeOK
  <1>1. ~RegisterHTTP(k)
    BY <1>0 DEF RegisterHTTP
  <1>2. ASSUME NEW j \in Sessions, Registers(j) PROVE handler[k] = "register"
    <2>1. j # k
      BY <1>1, <1>2 DEF Registers
    <2> QED
      BY <1>0, <1>2, <2>1, RequestAnswered
  <1>3. handler[k] = "register"
    BY <1>0, <1>2, Moves DEF Dial, Authenticate, GiveUp
  <1> QED
    BY <1>1, <1>3

LEMMA HandlerNext ==
    ASSUME IInv, [Next]_vars
    PROVE  HandlerWF'
  <1> SUFFICES ASSUME NEW k \in Sessions, handler'[k] = "register"
               PROVE  toServer'[k] # <<>>
    BY DEF HandlerWF
  <1>1. CASE CheckSubdomain(k)
    <2>1. toServer[k] # <<>> /\ (toServer' = toServer \/ handler' = handler)
      BY <1>1 DEF CheckSubdomain
    <2> QED
      BY <1>1, <2>1 DEF CheckSubdomain
  <1>2. CASE ~CheckSubdomain(k)
    BY <1>2, PastCheck, FirstStays
  <1> QED
    BY <1>1, <1>2

(* A step of the server or of the dashboard takes nothing out of what is   *)
(* on its way to a client whose connection is up, and only answers it.     *)
LEMMA OnItsWay ==
    ASSUME IInv, [Next]_vars, UNCHANGED <<client, awaiting, cur>>, cur \in Sessions,
           client = "replies", cur \notin down
    PROVE  Len(toServer[cur]) + Len(toClient[cur]) <=
               Len(toServer'[cur]) + Len(toClient'[cur])
  <1> DEFINE Queued(q) == Len(q[cur])
  <1> SUFFICES Queued(toServer) + Queued(toClient) <=
                   Queued(toServer') + Queued(toClient')
    OBVIOUS
  <1>0. /\ toServer \in [Sessions -> Seq(Message)]
        /\ toClient \in [Sessions -> Seq(Message)]
        /\ awaiting \in Nat /\ config \in Seq(Name)
    BY DEF IInv, TypeOK
  <1>1. /\ Queued(toServer) \in Nat /\ Queued(toClient) \in Nat
        /\ Queued(toServer') \in Nat /\ Queued(toClient') \in Nat
    <2>1. /\ toServer' \in [Sessions -> Seq(Message)]
          /\ toClient' \in [Sessions -> Seq(Message)]
      BY TypeNext DEF TypeOK, Sessions
    <2>2. \A q \in [Sessions -> Seq(Message)] : Queued(q) \in Nat
      OBVIOUS
    <2> HIDE DEF Queued
    <2> QED
      BY <1>0, <2>1, <2>2
  <1>2. ASSUME NEW k \in Sessions, NEW m \in Message,
               toClient' = Sent(toClient, k, <<m>>)
        PROVE  /\ Queued(toClient) <= Queued(toClient')
               /\ k = cur => Queued(toClient') = Queued(toClient) + 1
    <2> DEFINE ms == <<m>>
    <2>0. Len(ms) = 1 /\ toClient' = Sent(toClient, k, ms)
      BY <1>2
    <2>1. ms \in Seq(Message) /\ toClient \in [Sessions -> Seq(Message)]
      BY <1>0
    <2> HIDE DEF ms
    <2>2. Queued(Sent(toClient, cur, ms)) = Queued(toClient) + Len(ms)
      BY <2>1, SentLength, Zenon
    <2>3. ASSUME cur # k PROVE Queued(Sent(toClient, k, ms)) = Queued(toClient)
      <3>1. Sent(toClient, k, ms)[cur] = toClient[cur]
        BY <2>1, <2>3, SentElsewhere
      <3> QED
        BY <3>1
    <2> HIDE DEF Queued
    <2> QED
      BY <1>1, <2>0, <2>2, <2>3
  <1>3. ASSUME NEW k \in Sessions, Registers(k)
        PROVE  \/ /\ Queued(toServer') = Queued(toServer) - 1
                  /\ Queued(toClient') = Queued(toClient) + 1
               \/ /\ Queued(toServer') = Queued(toServer)
                  /\ Queued(toClient) <= Queued(toClient')
    <2>1. CASE toServer' = toServer /\ toClient' = toClient
      <3> HIDE DEF Queued
      <3> QED
        BY <1>1, <2>1
    <2>2. CASE ~UNCHANGED <<toServer, toClient>>
      <3>1. /\ toServer' = Received(toServer, k) /\ toServer[k] # <<>>
            /\ \E m \in Message : toClient' = Sent(toClient, k, <<m>>)
        BY <1>3, <2>2, NextRequest, RequestAnswered
      <3>2. /\ k = cur => Queued(Received(toServer, k)) = Queued(toServer) - 1
            /\ k # cur => Queued(Received(toServer, k)) = Queued(toServer)
        <4>1. Len(Received(toServer, k)[k]) = Len(toServer[k]) - 1
          BY <1>0, <3>1, ReceivedQueue, Zenon
        <4>2. k # cur => Received(toServer, k)[cur] = toServer[cur]
          BY <1>0, <3>1, ReceivedQueue, ZenonT(30)
        <4> QED
          BY <4>1, <4>2, Zenon
      <3> HIDE DEF Queued
      <3>3. /\ Queued(toClient) <= Queued(toClient')
            /\ k = cur => Queued(toClient') = Queued(toClient) + 1
        BY <1>2, <3>1
      <3> QED
        BY <3>1, <3>2, <3>3
    <2> QED
      BY <2>1, <2>2
  <1>4. ASSUME \/ \E k \in Sessions : Authenticate(k)
               \/ \E k \in Sessions, n \in Name : AddTunnel(k, n) \/ RemoveTunnel(k, n)
               \/ SendDir
        PROVE  Queued(toServer') = Queued(toServer) /\ Queued(toClient) <= Queued(toClient')
    <2>1. \E k \in Sessions, m \in Message : toClient' = Sent(toClient, k, <<m>>)
      <3>1. /\ Msg("ack", None) \in Message
            /\ \A n \in Name : Msg("add", n) \in Message /\ Msg("remove", n) \in Message
        BY DEF Msg, Message
      <3>2. \A s \in setting : s.session \in Sessions /\ s.message \in Message
        BY DEF IInv, TypeOK
      <3> QED
        BY <1>4, <3>1, <3>2 DEF Authenticate, AddTunnel, RemoveTunnel, SendDir
    <2>2. toServer' = toServer
      BY <1>4 DEF Authenticate, AddTunnel, RemoveTunnel, SendDir
    <2> HIDE DEF Queued
    <2> QED
      BY <1>2, <2>1, <2>2
  <1>5. /\ ~RegisterAll /\ ~DynamicAdd /\ ~DynamicRemove /\ ~SetTunnelDir /\ ~LogReply
        /\ ~ReadReply
    BY <1>0 DEF RegisterAll, DynamicAdd, DynamicRemove, SetTunnelDir, LogReply,
                ReadReply
  <1>6. \/ \E k \in Sessions : Registers(k)
        \/ UNCHANGED <<toServer, toClient>>
        \/ \E k \in Sessions : Authenticate(k)
        \/ \E k \in Sessions, n \in Name : AddTunnel(k, n) \/ RemoveTunnel(k, n)
        \/ SendDir
    BY <1>5, Moves
  <1> HIDE DEF Queued
  <1>7. CASE UNCHANGED <<toServer, toClient>>
    BY <1>1, <1>7
  <1>8. CASE \E k \in Sessions : Registers(k)
    BY <1>1, <1>3, <1>8
  <1>9. CASE /\ Queued(toServer') = Queued(toServer)
             /\ Queued(toClient) <= Queued(toClient')
    BY <1>1, <1>9
  <1> QED
    BY <1>4, <1>6, <1>7, <1>8, <1>9

LEMMA NeverStarvesNext ==
    ASSUME IInv, [Next]_vars
    PROVE  ConnectNeverStarves'
  <1> DEFINE Queued(q) == Len(q[cur])
  <1> SUFFICES ASSUME client' = "replies", cur' \notin down'
               PROVE  awaiting' <= Len(toServer'[cur']) + Len(toClient'[cur'])
    BY DEF ConnectNeverStarves
  <1>0. /\ toServer \in [Sessions -> Seq(Message)]
        /\ toClient \in [Sessions -> Seq(Message)]
        /\ awaiting \in Nat /\ config \in Seq(Name) /\ Len(config) \in Nat
    BY DEF IInv, TypeOK
  <1>1. cur \in Sessions => /\ Queued(toServer) \in Nat /\ Queued(toClient) \in Nat
                            /\ Queued(toServer') \in Nat /\ Queued(toClient') \in Nat
    <2>1. /\ toServer' \in [Sessions -> Seq(Message)]
          /\ toClient' \in [Sessions -> Seq(Message)]
      BY TypeNext DEF TypeOK, Sessions
    <2>2. cur \in Sessions => \A q \in [Sessions -> Seq(Message)] : Queued(q) \in Nat
      OBVIOUS
    <2> HIDE DEF Queued
    <2> QED
      BY <1>0, <2>1, <2>2
  <1>2. ASSUME cur' = cur
        PROVE  awaiting' <= Queued(toServer') + Queued(toClient') =>
                   awaiting' <= Len(toServer'[cur']) + Len(toClient'[cur'])
    BY <1>2, Zenon
  <1>3. CASE RegisterAll
    <2> DEFINE Req == [type : {"register"}, name : Name, dir : Dir \cup {None}]
               ms == [i \in DOMAIN config |->
                         DirMsg("register", config[i], DirAt(i))]
    <2>1. cur \in Sessions /\ ms \in Seq(Req) /\ Len(ms) = Len(config)
      BY <1>3, RegistrationsSent
    <2>2. /\ toServer' = Sent(toServer, cur, ms) /\ cur \notin down /\ cur' = cur
          /\ awaiting' = Len(config)
      BY <1>3 DEF RegisterAll
    <2>3. toServer \in [Sessions -> Seq(Req)]
      BY DEF IInv, RequestsWF
    <2> HIDE DEF ms, Req
    <2>4. Queued(Sent(toServer, cur, ms)) = Queued(toServer) + Len(ms)
      BY <2>1, <2>2, <2>3, SentLength, ZenonT(30)
    <2> HIDE DEF Queued
    <2>5. Queued(toServer') = Queued(toServer) + Len(ms)
      BY <2>2, <2>4, Zenon
    <2>6. awaiting' <= Queued(toServer') + Queued(toClient')
      BY <1>0, <1>1, <2>1, <2>2, <2>5
    <2> QED
      BY <1>2, <2>2, <2>6, Zenon
  <1>4. CASE ReadReply
    <2>1. cur \in Sessions /\ client = "replies"
      BY <1>4 DEF IInv, ClientWF, ReadReply
    <2>2. /\ toServer' = toServer /\ cur \notin down /\ cur' = cur
          /\ awaiting' = awaiting - 1
          /\ toClient' = Received(toClient, cur) /\ toClient[cur] # <<>>
      BY <1>4 DEF ReadReply
    <2>3. awaiting <= Queued(toServer) + Queued(toClient)
      BY <2>1, <2>2 DEF IInv, ConnectNeverStarves
    <2>4. Queued(Received(toClient, cur)) = Queued(toClient) - 1
      BY <1>0, <2>1, <2>2, ReceivedQueue, ZenonT(30)
    <2> HIDE DEF Queued
    <2> QED
      BY <1>0, <1>1, <1>2, <2>1, <2>2, <2>3, <2>4
  <1>5. CASE UNCHANGED <<client, awaiting, cur>>
    <2>1. client = "replies" /\ cur' = cur /\ awaiting' = awaiting /\ cur \in Sessions
      BY <1>5 DEF IInv, ClientWF
    <2>2. cur \notin down
      BY <2>1, Moves DEF Break
    <2>3. awaiting <= Queued(toServer) + Queued(toClient)
      BY <2>1, <2>2 DEF IInv, ConnectNeverStarves
    <2>4. Queued(toServer) + Queued(toClient) <= Queued(toServer') + Queued(toClient')
      BY <1>5, <2>1, <2>2, OnItsWay, Zenon
    <2> HIDE DEF Queued
    <2>5. awaiting' <= Queued(toServer') + Queued(toClient')
      BY <1>0, <1>1, <2>1, <2>3, <2>4
    <2> QED
      BY <1>2, <2>1, <2>5, Zenon
  <1>6. ~Dial /\ ~SessionEnds
    BY DEF Dial, SessionEnds
  <1> QED
    BY <1>3, <1>4, <1>5, <1>6, Moves

LEMMA InvariantNext ==
    ASSUME IInv, [Next]_vars
    PROVE  IInv'
  BY TypeNext, RequestsNext, ClientNext, HandlerNext, NeverStarvesNext DEF IInv

-----------------------------------------------------------------------------
(* The theorems about Session *)

(* The invariant holds always: it is what every property below rests on.   *)
THEOREM Invariant == Spec => []IInv
  BY InvariantInit, InvariantNext, PTL DEF Spec

(* The variables of a client, its sessions and the server's handlers always *)
(* have their types: no counter of replies runs below zero.                *)
THEOREM TypeCorrect == Spec => []TypeOK
  <1>1. IInv => TypeOK
    BY DEF IInv
  <1> QED
    BY <1>1, Invariant, PTL

(* A client whose connection is up never waits for more messages than are  *)
(* on their way: connect ends whatever the dashboard sends in between, for *)
(* any number of tunnels, sessions and operations.                         *)
THEOREM NeverStarves == Spec => []ConnectNeverStarves
  <1>1. IInv => ConnectNeverStarves
    BY DEF IInv
  <1> QED
    BY <1>1, Invariant, PTL

-----------------------------------------------------------------------------
(* The record: its steps are those of Session *)

LEMMA WatchSteps ==
    ASSUME [WatchNext]_watchVars
    PROVE  /\ [Next]_vars
           /\ ~crossed' => ~crossed
           /\ ~swallowed' => ~swallowed
           /\ ~raced' => ~raced
           /\ cur' = cur => overlap' = overlap
           /\ ~Next => UNCHANGED <<vars, overlap, swallowed, crossed, raced>>
           /\ Next /\ cur' # cur => overlap' = Overlaps
  <1>1. CASE WatchNext
    BY <1>1 DEF WatchNext
  <1>2. CASE UNCHANGED watchVars
    <2>1. UNCHANGED <<vars, overlap, swallowed, crossed, raced>>
      BY <1>2 DEF watchVars
    <2>2. cur' = cur
      BY <2>1 DEF vars, clientVars
    <2> QED
      BY <2>1, <2>2
  <1> QED
    BY <1>1, <1>2

\* Operations that are begun, as long as none has crossed another one.
LEMMA Undisturbed ==
    ASSUME IInv, [WatchNext]_watchVars, ~crossed', NEW k \in Sessions, NEW n \in Name,
           \/ AddTunnel(k, n) \/ RemoveTunnel(k, n)
           \/ \E d \in Dir \cup {None} : SetEntryDir(k, n, d)
    PROVE  /\ removing # [session |-> k, name |-> n]
           /\ \A s \in setting : ~(s.session = k /\ s.message.name = n)
           /\ \A m \in ToSet(toServer[k]) \cup ToSet(toClient[k]) : m.name \notin {n, None}
  <1>1. ops' # ops
    <2>1. ops \in Nat => ops + 1 # ops
      OBVIOUS
    <2>2. ops \in Nat
      BY BoundAssumption DEF IInv, TypeOK
    <2>3. ops' = ops + 1
      BY DEF AddTunnel, RemoveTunnel, SetEntryDir
    <2> QED
      BY <2>1, <2>2, <2>3
  <1>2. WatchNext
    BY <1>1 DEF watchVars, vars, dashVars
  <1>3. ~UnderWay(k, n)
    BY <1>2 DEF WatchNext, Crosses
  <1> QED
    BY <1>3 DEF UnderWay

LEMMA SentOne ==
    ASSUME TypeOK, NEW k \in Sessions, NEW m \in Message, toClient' = Sent(toClient, k, <<m>>)
    PROVE  \A j \in Sessions :
               toClient'[j] = IF j = k /\ k \notin down THEN Append(toClient[j], m)
                                                        ELSE toClient[j]
  <1> DEFINE ms == <<m>>
  <1>1. toClient \in [Sessions -> Seq(Message)] /\ ms \in Seq(Message)
    BY DEF TypeOK
  <1>2. \A j \in Sessions : toClient[j] \o <<m>> = Append(toClient[j], m)
    BY <1>1, AppendOps
  <1>3. \A j \in Sessions :
            Sent(toClient, k, ms)[j] = IF j = k /\ k \notin down THEN toClient[j] \o ms
                                                               ELSE toClient[j]
    <2> HIDE DEF ms
    <2> QED
      BY <1>1 DEF Sent
  <1> QED
    BY <1>2, <1>3

\* What the client reads, with what it reads it.
Reads == RegisterAll \/ ReadReply \/ DynamicAdd \/ DynamicRemove \/ SetTunnelDir \/ LogReply

LEMMA ClientReads ==
    ASSUME IInv, Reads
    PROVE  /\ cur \in Sessions /\ toClient[cur] \in Seq(Message) /\ toClient[cur] # <<>>
           /\ Head(toClient[cur]) \in Message
           /\ toClient'[cur] = Tail(toClient[cur])
           /\ \A k \in Sessions : k # cur => toClient'[k] = toClient[k]
           /\ UNCHANGED <<cur, down, serverVars, dashVars>>
  <1>1. /\ cur \in Sessions /\ toClient[cur] # <<>> /\ toClient' = Received(toClient, cur)
        /\ UNCHANGED <<cur, down, serverVars, dashVars>>
    BY DEF IInv, ClientWF, Reads, RegisterAll, ReadReply, DynamicAdd, DynamicRemove,
           SetTunnelDir, LogReply
  <1>2. toClient \in [Sessions -> Seq(Message)]
    BY DEF IInv, TypeOK
  <1> QED
    BY <1>1, <1>2, ReceivedQueue

LEMMA ServerReads ==
    ASSUME IInv, NEW k \in Sessions, Registers(k)
    PROVE  /\ toServer[k] \in Seq(Message) /\ toServer[k] # <<>>
           /\ \/ toServer' = toServer
              \/ toServer'[k] = Tail(toServer[k])
           /\ \A j \in Sessions : j # k => toServer'[j] = toServer[j]
  <1>1. toServer \in [Sessions -> Seq(Message)] /\ toServer[k] # <<>>
        /\ (toServer' = toServer \/ toServer' = Received(toServer, k))
    BY NextRequest, RequestAnswered DEF IInv, TypeOK
  <1> QED
    BY <1>1 DEF Received

\* What is sent to a client.
LEMMA ToClientSent ==
    ASSUME IInv, [Next]_vars, ~Reads
    PROVE  \/ UNCHANGED toClient
           \/ \E k \in Sessions, m \in Message :
                  /\ handler[k] \notin {"none", "auth"} \/ Authenticate(k)
                     \/ \E s \in setting : s.session = k
                  /\ \A j \in Sessions :
                         toClient'[j] = IF j = k /\ k \notin down THEN Append(toClient[j], m)
                                                                  ELSE toClient[j]
  <1>0. TypeOK
    BY DEF IInv
  <1>1. ASSUME NEW k \in Sessions, Authenticate(k)
        PROVE  \E m \in Message : toClient' = Sent(toClient, k, <<m>>)
    <2>1. Msg("ack", None) \in Message
      BY DEF Msg, Message
    <2> QED
      BY <1>1, <2>1 DEF Authenticate
  <1>2. ASSUME NEW k \in Sessions, Registers(k)
        PROVE  /\ handler[k] \notin {"none", "auth"}
               /\ \/ UNCHANGED toClient
                  \/ \E m \in Message : toClient' = Sent(toClient, k, <<m>>)
    BY <1>2, RequestAnswered DEF CheckSubdomain
  <1>3. ASSUME NEW k \in Sessions, NEW n \in Name, AddTunnel(k, n) \/ RemoveTunnel(k, n)
        PROVE  HasClient(k) /\ \E m \in Message : toClient' = Sent(toClient, k, <<m>>)
    <2>1. Msg("add", n) \in Message /\ Msg("remove", n) \in Message
      BY DEF Msg, Message
    <2> QED
      BY <1>3, <2>1 DEF AddTunnel, RemoveTunnel
  <1>4. ASSUME SendDir
        PROVE  \E k \in Sessions, m \in Message :
                   (\E s \in setting : s.session = k) /\ toClient' = Sent(toClient, k, <<m>>)
    <2>1. PICK s \in setting : toClient' = Sent(toClient, s.session, <<s.message>>)
      BY <1>4 DEF SendDir
    <2>2. s.session \in Sessions /\ s.message \in Message
      BY <1>0 DEF TypeOK
    <2> QED
      BY <2>1, <2>2
  <1>5. \/ UNCHANGED toClient
        \/ \E k \in Sessions, m \in Message :
               /\ handler[k] \notin {"none", "auth"} \/ Authenticate(k)
                     \/ \E s \in setting : s.session = k
               /\ toClient' = Sent(toClient, k, <<m>>)
    BY <1>1, <1>2, <1>3, <1>4, Moves DEF Reads, HasClient
  <1> QED
    BY <1>0, <1>5, SentOne

-----------------------------------------------------------------------------
(* What holds of sessions and records *)

LEMMA WatchInvInit ==
    ASSUME WatchInit
    PROVE  WatchInv /\ RestoreInv /\ AgreeInv
  <1>1. /\ config = Configured /\ dir = StartDir /\ client = "dial" /\ cur = 0
        /\ down = {} /\ removing = None /\ setting = {}
        /\ \A k \in Sessions : /\ toServer[k] = <<>> /\ toClient[k] = <<>>
                               /\ handler[k] = "none" /\ tunnels[k] = <<>>
        /\ \A n \in Name : route[n] = 0
        /\ raced = FALSE
    BY DEF WatchInit, Init
  <1>2. SessionsWF /\ TunnelsWF
    <2>1. ToSet(<<>>) = {} /\ IsInjective(<<>>)
      BY DEF ToSet, IsInjective
    <2> QED
      BY <1>1, <2>1 DEF SessionsWF, TunnelsWF, Races, Registering
  <1>3. ClientAsks
    BY <1>1 DEF ClientAsks
  <1>4. RecordsWF
    BY <1>1, DirAssumption DEF RecordsWF
  <1>5. RestoreInv
    <2>1. \A k \in Sessions : ToSet(toClient[k]) = {}
      BY <1>1 DEF ToSet
    <2>2. 1..(0 - 1) = {}
      OBVIOUS
    <2> QED
      BY <1>1, <2>1, <2>2 DEF RestoreInv, Up
  <1>6. AgreeInv
    BY <1>1 DEF AgreeInv, Up
  <1> QED
    BY <1>2, <1>3, <1>4, <1>5, <1>6 DEF WatchInv

\* Whose dashboard operations are under way.
LEMMA OpenOnes ==
    ASSUME IInv, WatchInv, [Next]_vars, NEW k \in Sessions,
           \/ removing' # None /\ removing'.session = k
           \/ \E s \in setting' : s.session = k
    PROVE  handler[k] \in {"loop", "register", "done"}
  <1>1. /\ handler \in [Sessions -> {"none", "auth", "loop", "register", "done"}]
        /\ tunnels \in [Sessions -> Seq(Name)] /\ SessionsWF
    BY DEF IInv, TypeOK, WatchInv
  <1>2. ASSUME removing' # None, removing'.session = k, removing' # removing
        PROVE  handler[k] \in {"loop", "register"}
    <2>1. PICK j \in Sessions, n \in Name : RemoveTunnel(j, n)
      BY <1>2, Moves DEF RemoveTunnelByName
    <2> QED
      BY <1>2, <2>1 DEF RemoveTunnel, HasClient
  <1>3. ASSUME NEW s \in setting', s.session = k, s \notin setting
        PROVE  handler[k] \in {"loop", "register"}
    <2>1. PICK j \in Sessions, n \in Name, d \in Dir \cup {None} : SetEntryDir(j, n, d)
      BY <1>3, Moves DEF SendDir
    <2>2. k = j /\ tunnels[j] # <<>>
      BY <1>3, <2>1 DEF SetEntryDir, ToSet
    <2> QED
      BY <1>1, <2>2 DEF SessionsWF, HasClient
  <1>4. ASSUME \/ removing # None /\ removing.session = k
               \/ \E s \in setting : s.session = k
        PROVE  handler[k] \in {"loop", "register", "done"}
    BY <1>1, <1>4 DEF SessionsWF
  <1> QED
    BY <1>2, <1>3, <1>4

LEMMA SessionsWFNext ==
    ASSUME IInv, WatchInv, [Next]_vars
    PROVE  SessionsWF'
  <1>0. /\ cur \in 0..MaxSession /\ MaxSession \in Nat /\ Sessions = 1..MaxSession
        /\ handler \in [Sessions -> {"none", "auth", "loop", "register", "done"}]
        /\ tunnels \in [Sessions -> Seq(Name)]
        /\ SessionsWF /\ ClientAsks
        /\ client # "dial" => cur \in Sessions
    BY BoundAssumption DEF IInv, TypeOK, WatchInv, ClientWF, Sessions
  <1>1. ASSUME NEW k \in Sessions
        PROVE  /\ k > cur' => k > cur
               /\ \/ handler'[k] = handler[k]
                  \/ Dial /\ k = cur + 1 /\ handler'[k] = "auth"
                  \/ Authenticate(k) /\ handler[k] = "auth" /\ handler'[k] = "loop"
                  \/ GiveUp(k) /\ handler[k] \in {"auth", "loop"} /\ handler'[k] = "done"
                  \/ HasClient(k) /\ HasClient(k)'
    <2>1. k > cur' => k > cur
      BY <1>0, Moves DEF Dial
    <2>2. CASE Dial
      BY <1>0, <2>2 DEF Dial
    <2>3. ASSUME NEW j \in Sessions, Authenticate(j)
          PROVE  handler'[k] = handler[k]
                  \/ (Authenticate(k) /\ handler[k] = "auth" /\ handler'[k] = "loop")
      BY <1>0, <2>3 DEF Authenticate
    <2>4. ASSUME NEW j \in Sessions, GiveUp(j)
          PROVE  handler'[k] = handler[k]
                  \/ (GiveUp(k) /\ handler[k] \in {"auth", "loop"} /\ handler'[k] = "done")
      BY <1>0, <2>4 DEF GiveUp
    <2>5. ASSUME NEW j \in Sessions, Registers(j)
          PROVE  handler'[k] = handler[k] \/ (HasClient(k) /\ HasClient(k)')
      <3>1. /\ handler[j] \in {"loop", "register"}
            /\ \/ handler' = [handler EXCEPT ![j] = "loop"]
               \/ handler' = [handler EXCEPT ![j] = "register"]
        BY <2>5, RequestAnswered DEF CheckSubdomain
      <3> QED
        BY <1>0, <3>1 DEF HasClient
    <2> QED
      BY <2>1, <2>2, <2>3, <2>4, <2>5, Moves
  <1>2. ASSUME NEW k \in Sessions, k > cur'
        PROVE  handler'[k] = "none" /\ k \notin down'
    <2>1. k > cur /\ handler[k] = "none" /\ k \notin down
      BY <1>0, <1>1, <1>2 DEF SessionsWF
    <2>2. handler'[k] = "none"
      <3>1. ~(Dial /\ k = cur + 1)
        BY <1>0, <1>2 DEF Dial
      <3> QED
        BY <1>1, <2>1, <3>1 DEF HasClient
    <2>3. k \notin down'
      <3>1. ~ Break(k)
        BY <1>0, <2>1 DEF Break
      <3> QED
        BY <2>1, <3>1, Moves DEF Break
    <2> QED
      BY <2>2, <2>3
  <1>3. ASSUME NEW k \in Sessions, handler'[k] \in {"none", "auth"}
        PROVE  /\ handler[k] \in {"none", "auth"} /\ ~Authenticate(k)
               /\ toServer'[k] = <<>> /\ toClient'[k] = <<>>
               /\ removing' # None => removing'.session # k
               /\ \A s \in setting' : s.session # k
    <2>1. handler[k] \in {"none", "auth"} /\ ~Authenticate(k)
      <3>1. Dial => handler[cur + 1] = "none"
        BY <1>0 DEF Dial, SessionsWF
      <3>2. Authenticate(k) => handler'[k] = "loop"
        BY <1>0 DEF Authenticate
      <3> QED
        BY <1>1, <1>3, <3>1, <3>2 DEF HasClient
    <2>2. toServer[k] = <<>> /\ toClient[k] = <<>> /\ ~ (\E s \in setting : s.session = k)
      BY <1>0, <2>1 DEF SessionsWF
    <2>3. /\ removing' # None => removing'.session # k
          /\ \A s \in setting' : s.session # k
      BY <2>1, OpenOnes
    <2>4. client \in {"replies", "running"} \/ toClient[cur] # <<>> => cur # k
      BY <1>0, <2>1, <2>2 DEF ClientAsks
    <2>5. toClient'[k] = <<>>
      <3>1. CASE Reads
        <4>1. cur # k
          BY <2>2, <3>1, ClientReads
        <4> QED
          BY <2>2, <3>1, <4>1, ClientReads
      <3>2. CASE ~Reads
        BY <2>1, <2>2, <3>2, ToClientSent
      <3> QED
        BY <3>1, <3>2
    <2>6. toServer'[k] = <<>>
      <3>1. toServer \in [Sessions -> Seq(Message)]
        BY DEF IInv, TypeOK
      <3>2. ASSUME RegisterAll \/ DynamicAdd PROVE toServer'[k] = toServer[k]
        <4>1. cur # k /\ cur \in Sessions
          BY <2>4, <3>2, ClientReads DEF Reads
        <4> QED
          BY <3>1, <3>2, <4>1 DEF RegisterAll, DynamicAdd, Sent
      <3>3. ASSUME NEW j \in Sessions, Registers(j) PROVE toServer'[k] = toServer[k]
        BY <2>2, <3>3, ServerReads
      <3> QED
        BY <2>2, <3>2, <3>3, Moves
    <2> QED
      BY <2>1, <2>3, <2>5, <2>6
  <1>4. ASSUME NEW k \in Sessions, ~HasClient(k)'
        PROVE  tunnels'[k] = <<>>
    <2>1. ASSUME NEW j \in Sessions, GiveUp(j), j = k PROVE tunnels'[k] = <<>>
      BY <1>0, <2>1 DEF GiveUp, RemoveClient
    <2>2. ASSUME ~GiveUp(k) PROVE ~HasClient(k) /\ tunnels[k] = <<>>
      <3>1. ~HasClient(k)
        <4>1. handler'[k] \notin {"loop", "register"}
          BY <1>4 DEF HasClient
        <4>2. Dial /\ k = cur + 1 => handler[k] = "none"
          BY <1>0 DEF Dial, SessionsWF
        <4>3. handler[k] \notin {"loop", "register"}
          BY <1>1, <1>4, <2>2, <4>1, <4>2
        <4> QED
          BY <4>3 DEF HasClient
      <3> QED
        BY <1>0, <3>1 DEF SessionsWF
    <2>3. ASSUME NEW j \in Sessions, GiveUp(j), j # k PROVE tunnels'[k] = tunnels[k]
      BY <1>0, <2>3 DEF GiveUp, RemoveClient
    <2>4. ASSUME NEW j \in Sessions, RegisterHTTP(j), ~HasClient(k)
          PROVE  tunnels'[k] = tunnels[k]
      BY <1>0, <2>4 DEF RegisterHTTP, HasClient
    <2>5. ASSUME RemoveTunnelByName, tunnels[k] = <<>> PROVE tunnels'[k] = tunnels[k]
      <3>1. ToSet(<<>>) = {}
        BY DEF ToSet
      <3> QED
        BY <1>0, <2>5, <3>1 DEF RemoveTunnelByName
    <2> QED
      BY <2>1, <2>2, <2>3, <2>4, <2>5, Moves
  <1> QED
    BY <1>2, <1>3, <1>4 DEF SessionsWF

\* How a handler gets past the check.
LEMMA RegisteringNext ==
    ASSUME IInv, [Next]_vars, NEW k \in Sessions, NEW n \in Name, Registering(k, n)'
    PROVE  \/ Registering(k, n) /\ ~RegisterHTTP(k)
           \/ CheckSubdomain(k) /\ route[n] = 0 /\ UNCHANGED <<tunnels, route>>
  <1>1. handler'[k] = "register" /\ Head(toServer'[k]).name = n
    BY DEF Registering
  <1>2. CASE CheckSubdomain(k)
    <2>1. handler' # handler
      BY <1>1, <1>2 DEF CheckSubdomain
    <2>2. toServer' = toServer /\ route[Head(toServer[k]).name] = 0 /\ UNCHANGED <<tunnels, route>>
      BY <1>2, <2>1 DEF CheckSubdomain
    <2> QED
      BY <1>1, <1>2, <2>2
  <1>3. CASE ~CheckSubdomain(k)
    BY <1>1, <1>3, PastCheck, FirstStays DEF Registering
  <1> QED
    BY <1>2, <1>3

\* A name that is not routed is in the list of no session.
LEMMA TunnelsNext ==
    ASSUME IInv, WatchInv, [WatchNext]_watchVars
    PROVE  TunnelsWF'
  <1> DEFINE Listing == \A k \in Sessions :
                 /\ IsInjective(tunnels[k])
                 /\ \A n \in ToSet(tunnels[k]) : route[n] = k
  <1> SUFFICES ASSUME ~raced'
               PROVE  /\ ~Races' /\ Listing'
                      /\ \A k \in Sessions, n \in Name : Registering(k, n)' => route'[n] = 0
    BY DEF TunnelsWF
  <1>0. /\ tunnels \in [Sessions -> Seq(Name)]
        /\ route \in [Name -> 0..MaxSession] /\ 0 \notin Sessions
        /\ removing \in [session : Sessions, name : Name] \cup {None}
        /\ ~Races /\ Listing
        /\ \A k \in Sessions, n \in Name : Registering(k, n) => route[n] = 0
        /\ [Next]_vars
    <2>1. ~raced
      BY WatchSteps
    <2> QED
      BY <2>1, WatchSteps DEF IInv, TypeOK, Sessions, WatchInv, TunnelsWF
  <1>5. ~Races'
    <2>1. CASE WatchNext
      BY <2>1 DEF WatchNext
    <2>2. CASE UNCHANGED watchVars
      BY <1>0, <2>2 DEF watchVars, vars, serverVars, Races, Registering
    <2> QED
      BY <2>1, <2>2
  <1>1. ASSUME NEW k \in Sessions, RegisterHTTP(k)
        PROVE  Listing'
    <2> DEFINE n == Head(toServer[k]).name
               q == Append(tunnels[k], n)
    <2>1. n \in Name /\ route[n] = 0
      <3>1. n \in Name /\ Registering(k, n)
        BY <1>1, NextRequest DEF Registers, RegisterHTTP, Registering
      <3> QED
        BY <1>0, <3>1
    <2>2. /\ tunnels' = [tunnels EXCEPT ![k] = q]
          /\ route' = [route EXCEPT ![n] = k]
      BY <1>1 DEF RegisterHTTP
    <2>3. \A j \in Sessions : n \notin ToSet(tunnels[j])
      BY <1>0, <2>1
    <2>4. tunnels[k] \in Seq(Name) /\ IsInjective(tunnels[k])
      BY <1>0
    <2> HIDE DEF n
    <2>5. /\ DOMAIN q = 1..(Len(tunnels[k]) + 1) /\ Len(tunnels[k]) \in Nat
          /\ \A i \in 1..Len(tunnels[k]) : q[i] = tunnels[k][i]
          /\ q[Len(tunnels[k]) + 1] = n
      BY <2>1, <2>4
    <2> HIDE DEF q
    <2>6. \A i \in 1..Len(tunnels[k]) : q[i] # n
      BY <2>3, <2>4, <2>5 DEF ToSet
    <2>7. IsInjective(q)
      BY <2>4, <2>5, <2>6 DEF IsInjective
    <2>8. ToSet(q) \subseteq ToSet(tunnels[k]) \cup {n}
      BY <2>4, <2>5 DEF ToSet
    <2>9. ASSUME NEW j \in Sessions
          PROVE  IsInjective(tunnels'[j]) /\ \A m \in ToSet(tunnels'[j]) : route'[m] = j
      <3>1. CASE j = k
        <4>1. tunnels'[j] = q
          BY <1>0, <2>2, <3>1
        <4>2. \A m \in ToSet(tunnels[k]) : m \in Name /\ route[m] = k
          BY <1>0 DEF ToSet
        <4>3. \A m \in ToSet(q) : route'[m] = k
          BY <1>0, <2>1, <2>2, <2>8, <4>2
        <4> QED
          BY <2>7, <3>1, <4>1, <4>3
      <3>2. CASE j # k
        <4>1. tunnels'[j] = tunnels[j]
          BY <1>0, <2>2, <3>2
        <4>2. \A m \in ToSet(tunnels[j]) : m \in Name /\ m # n /\ route[m] = j
          BY <1>0, <2>3 DEF ToSet
        <4> QED
          BY <1>0, <2>2, <4>1, <4>2
      <3> QED
        BY <3>1, <3>2
    <2> QED
      BY <2>9
  <1>2. ASSUME NEW k \in Sessions, GiveUp(k)
        PROVE  Listing'
    <2> SUFFICES ASSUME NEW j \in Sessions
                 PROVE  /\ IsInjective(tunnels'[j])
                        /\ \A n \in ToSet(tunnels'[j]) : route'[n] = j
      OBVIOUS
    <2>1. CASE j = k
      <3>1. tunnels'[j] = <<>>
        BY <1>0, <1>2, <2>1 DEF GiveUp, RemoveClient
      <3> QED
        BY <3>1 DEF IsInjective, ToSet
    <2>2. CASE j # k
      <3>1. tunnels'[j] = tunnels[j]
        BY <1>0, <1>2, <2>2 DEF GiveUp, RemoveClient
      <3>2. ASSUME NEW n \in ToSet(tunnels[j]) PROVE route'[n] = j
        <4>1. n \in Name /\ route[n] = j
          BY <1>0 DEF ToSet
        <4>2. n \notin ToSet(tunnels[k])
          BY <1>0, <2>2, <4>1
        <4> QED
          BY <1>2, <4>1, <4>2 DEF GiveUp, RemoveClient
      <3> QED
        BY <1>0, <3>1, <3>2
    <2> QED
      BY <2>1, <2>2
  <1>3. ASSUME RemoveTunnelByName, ~UNCHANGED <<tunnels, route>>
        PROVE  Listing'
    <2> DEFINE k == removing.session
               n == removing.name
    <2>1. k \in Sessions /\ n \in Name
      BY <1>0, <1>3 DEF RemoveTunnelByName
    <2>2. /\ tunnels' = [tunnels EXCEPT ![k] = RemoveFirst(@, n)]
          /\ route' = [route EXCEPT ![n] = 0]
          /\ n \in ToSet(tunnels[k])
      BY <1>3 DEF RemoveTunnelByName
    <2> HIDE DEF k, n
    <2>3. /\ IsInjective(RemoveFirst(tunnels[k], n))
          /\ ToSet(RemoveFirst(tunnels[k], n)) = ToSet(tunnels[k]) \ {n}
      <3>1. tunnels[k] \in Seq(Name) /\ IsInjective(tunnels[k])
        BY <1>0, <2>1
      <3> QED
        BY <3>1, RemoveFirstElements
    <2>4. ASSUME NEW j \in Sessions
          PROVE  IsInjective(tunnels'[j]) /\ \A m \in ToSet(tunnels'[j]) : route'[m] = j
      <3>1. \A m \in ToSet(tunnels[j]) : m \in Name /\ route[m] = j
        BY <1>0 DEF ToSet
      <3>2. CASE j = k
        <4>1. tunnels'[j] = RemoveFirst(tunnels[k], n)
          BY <1>0, <2>2, <3>2
        <4> QED
          BY <1>0, <2>2, <2>3, <3>1, <3>2, <4>1
      <3>3. CASE j # k
        <4>1. tunnels'[j] = tunnels[j]
          BY <1>0, <2>2, <3>3
        <4>2. route[n] = k
          BY <1>0, <2>1, <2>2
        <4>3. n \notin ToSet(tunnels[j])
          BY <3>1, <3>3, <4>2
        <4> QED
          BY <1>0, <2>2, <3>1, <4>1, <4>3
      <3> QED
        BY <3>2, <3>3
    <2> QED
      BY <2>4
  <1>4. ASSUME UNCHANGED <<tunnels, route>> PROVE Listing'
    BY <1>0, <1>4
  <1>6. Listing'
    BY <1>0, <1>1, <1>2, <1>3, <1>4, Moves
  <1>7. ASSUME NEW k \in Sessions, NEW n \in Name, Registering(k, n)'
        PROVE  route'[n] = 0
    <2>1. route[n] = 0
      BY <1>0, <1>7, RegisteringNext
    <2>2. ASSUME NEW j \in Sessions, RegisterHTTP(j) PROVE route'[n] = route[n]
      <3> DEFINE m == Head(toServer[j]).name
      <3>1. m \in Name /\ Registering(j, m) /\ route' = [route EXCEPT ![m] = j]
        BY <2>2, NextRequest DEF Registers, RegisterHTTP, Registering
      <3>2. ~CheckSubdomain(k) \/ route' = route
        BY <1>0, <1>7, RegisteringNext DEF CheckSubdomain
      <3>3. CASE Registering(k, n) /\ ~RegisterHTTP(k)
        <4>1. j # k
          BY <2>2, <3>3
        <4>2. m # n
          BY <1>0, <3>1, <3>3, <4>1 DEF Races
        <4> QED
          BY <1>0, <3>1, <4>2
      <3> QED
        BY <1>0, <1>7, <3>3, RegisteringNext
    <2>3. ASSUME NEW j \in Sessions, GiveUp(j) PROVE route'[n] \in {0, route[n]}
      BY <2>3 DEF GiveUp, RemoveClient
    <2>4. ASSUME RemoveTunnelByName PROVE route'[n] \in {0, route[n]}
      BY <1>0, <2>4 DEF RemoveTunnelByName
    <2> QED
      BY <1>0, <2>1, <2>2, <2>3, <2>4, Moves
  <1> QED
    BY <1>5, <1>6, <1>7

\* How a handler moves on.
LEMMA HandlerSteps ==
    ASSUME IInv, WatchInv, [Next]_vars, NEW k \in Sessions
    PROVE  /\ handler[k] = "done" => handler'[k] = "done"
           /\ handler[k] # "none" => handler'[k] # "none"
           /\ handler[k] \notin {"none", "auth"} => handler'[k] \notin {"none", "auth"}
           /\ handler'[k] = "done" /\ handler[k] # "done" => k \in down
           /\ handler'[k] = "loop" /\ handler[k] # "loop" => Authenticate(k) \/ RegisterHTTP(k)
           /\ handler'[k] = "register" /\ handler[k] # "register" => CheckSubdomain(k)
  <1>0. /\ cur \in 0..MaxSession /\ MaxSession \in Nat /\ Sessions = 1..MaxSession
        /\ handler \in [Sessions -> {"none", "auth", "loop", "register", "done"}] /\ SessionsWF
    BY BoundAssumption DEF IInv, TypeOK, WatchInv, Sessions
  <1>1. ASSUME Dial PROVE handler'[k] = handler[k] \/ (handler[k] = "none" /\ handler'[k] = "auth")
    <2>1. cur + 1 \in Sessions /\ cur + 1 > cur
      BY <1>0, <1>1 DEF Dial
    <2>2. handler[cur + 1] = "none"
      BY <1>0, <2>1 DEF SessionsWF
    <2> QED
      BY <1>0, <1>1, <2>1, <2>2 DEF Dial
  <1>2. ASSUME NEW j \in Sessions, Authenticate(j)
        PROVE  handler'[k] = handler[k]
                  \/ (Authenticate(k) /\ handler[k] = "auth" /\ handler'[k] = "loop")
    BY <1>0, <1>2 DEF Authenticate
  <1>3. ASSUME NEW j \in Sessions, GiveUp(j)
        PROVE  handler'[k] = handler[k]
                  \/ (k \in down /\ handler[k] \in {"auth", "loop"} /\ handler'[k] = "done")
    BY <1>0, <1>3 DEF GiveUp
  <1>4. ASSUME NEW j \in Sessions, CheckSubdomain(j)
        PROVE  handler'[k] = handler[k]
                  \/ (CheckSubdomain(k) /\ handler[k] = "loop" /\ handler'[k] = "register")
    BY <1>0, <1>4 DEF CheckSubdomain
  <1>5. ASSUME NEW j \in Sessions, RegisterHTTP(j)
        PROVE  handler'[k] = handler[k]
                  \/ (RegisterHTTP(k) /\ handler[k] = "register" /\ handler'[k] = "loop")
    BY <1>0, <1>5 DEF RegisterHTTP
  <1>6. CASE handler'[k] = handler[k]
    BY <1>6
  <1> QED
    BY <1>1, <1>2, <1>3, <1>4, <1>5, <1>6, Moves DEF Registers

LEMMA ClientAsksNext ==
    ASSUME IInv, WatchInv, [WatchNext]_watchVars
    PROVE  ClientAsks'
  <1>0. /\ cur \in 0..MaxSession /\ MaxSession \in Nat /\ Sessions = 1..MaxSession
        /\ handler \in [Sessions -> {"none", "auth", "loop", "register", "done"}]
        /\ toServer \in [Sessions -> Seq(Message)] /\ tunnels \in [Sessions -> Seq(Name)]
        /\ toClient \in [Sessions -> Seq(Message)]
        /\ SessionsWF /\ ClientAsks
        /\ client # "dial" => cur \in Sessions
        /\ client \in {"dial", "ack", "replies", "running"}
    BY BoundAssumption DEF IInv, TypeOK, WatchInv, ClientWF, Sessions
  <1>1. [Next]_vars
    BY WatchSteps
  <1>2. ASSUME client' \in {"replies", "running"}
        PROVE  handler'[cur'] \notin {"none", "auth"}
    <2>1. client # "dial" /\ cur' = cur /\ cur \in Sessions
      <3>1. ~Dial /\ ~SessionEnds
        BY <1>2 DEF Dial, SessionEnds
      <3>2. client' = client \/ RegisterAll \/ ReadReply
        BY <1>1, <3>1, Moves
      <3>3. client # "dial"
        BY <1>2, <3>2 DEF RegisterAll, ReadReply
      <3> QED
        BY <1>0, <1>1, <3>1, <3>3, Moves
    <2>2. CASE client \in {"replies", "running"}
      BY <1>0, <1>1, <2>1, <2>2, HandlerSteps DEF ClientAsks
    <2>3. CASE client = "ack"
      <3>1. RegisterAll
        BY <1>1, <1>2, <2>3, Moves DEF ReadReply, Dial, SessionEnds
      <3>2. toClient[cur] # <<>> /\ handler' = handler
        BY <3>1 DEF RegisterAll, serverVars
      <3> QED
        BY <1>0, <2>1, <3>2 DEF SessionsWF
    <2> QED
      BY <1>0, <2>1, <2>2, <2>3
  <1>3. CASE Dial
    <2>1. /\ client' = "ack" /\ cur' = cur + 1 /\ cur + 1 \in Sessions /\ cur + 1 > cur
          /\ UNCHANGED <<toServer, toClient, tunnels, removing, setting>>
          /\ handler' = [handler EXCEPT ![cur + 1] = "auth"]
      BY <1>0, <1>3 DEF Dial, dashVars
    <2>2. handler[cur + 1] = "none"
      BY <1>0, <2>1 DEF SessionsWF
    <2>3. toServer[cur + 1] = <<>> /\ tunnels[cur + 1] = <<>>
      BY <1>0, <2>1, <2>2 DEF SessionsWF, HasClient
    <2>4. handler'[cur'] = "auth"
      BY <1>0, <2>1
    <2>5. toServer'[cur'] = <<>> /\ tunnels'[cur'] = <<>>
      BY <2>1, <2>3
    <2> QED
      BY <2>1, <2>4, <2>5 DEF ClientAsks
  <1>4. ASSUME client' = "ack", cur' \notin down', ~Dial
        PROVE  /\ toServer'[cur'] = <<>> /\ tunnels'[cur'] = <<>>
               /\ handler'[cur'] \in {"auth", "loop"}
               /\ ~crossed' /\ handler'[cur'] = "loop" =>
                      /\ toClient'[cur'] = <<Msg("ack", None)>>
                      /\ removing' # None => removing'.session # cur'
                      /\ \A s \in setting' : s.session # cur'
    <2>1. client = "ack" /\ cur' = cur /\ cur \in Sessions /\ cur \notin down
      <3>1. client' = client
        BY <1>1, <1>4, Moves DEF RegisterAll, ReadReply, SessionEnds
      <3>2. down \subseteq down'
        BY <1>1, Moves DEF Break
      <3> QED
        BY <1>0, <1>1, <1>4, <3>1, <3>2, Moves
    <2>2. /\ toServer[cur] = <<>> /\ tunnels[cur] = <<>> /\ handler[cur] \in {"auth", "loop"}
          /\ ~crossed /\ handler[cur] = "loop" =>
                      /\ toClient[cur] = <<Msg("ack", None)>>
                      /\ removing # None => removing.session # cur
                      /\ \A s \in setting : s.session # cur
      BY <1>0, <2>1 DEF ClientAsks
    <2>3. ~Reads /\ ~Registers(cur) /\ ~GiveUp(cur)
      <3>1. ~RegisterAll
        BY <1>4 DEF RegisterAll
      <3> QED
        BY <2>1, <2>2, <3>1 DEF Reads, ReadReply, DynamicAdd, DynamicRemove, SetTunnelDir,
                  LogReply, Registers, CheckSubdomain, RegisterHTTP, GiveUp
    <2>4. toServer'[cur] = <<>>
      <3>1. ASSUME NEW j \in Sessions, Registers(j) PROVE toServer'[cur] = toServer[cur]
        <4>1. j # cur
          BY <2>3, <3>1
        <4> QED
          BY <2>1, <3>1, <4>1, ServerReads
      <3> QED
        BY <1>1, <2>2, <2>3, <3>1, Moves DEF Reads
    <2>5. tunnels'[cur] = <<>>
      <3>1. ASSUME NEW j \in Sessions, RegisterHTTP(j) \/ GiveUp(j)
            PROVE  tunnels'[cur] = tunnels[cur]
        <4>1. j # cur
          BY <2>3, <3>1 DEF Registers
        <4> QED
          BY <1>0, <2>1, <3>1, <4>1 DEF RegisterHTTP, GiveUp, RemoveClient
      <3>2. ASSUME RemoveTunnelByName PROVE tunnels'[cur] = tunnels[cur]
        <4>1. ToSet(<<>>) = {}
          BY DEF ToSet
        <4> QED
          BY <1>0, <2>1, <2>2, <3>2, <4>1 DEF RemoveTunnelByName
      <3> QED
        BY <1>1, <2>2, <3>1, <3>2, Moves
    <2>6. handler'[cur] \in {"auth", "loop"}
      <3>1. handler'[cur] \in {"none", "auth", "loop", "register", "done"}
        BY <1>1, <2>1, TypeNext DEF TypeOK
      <3>2. handler'[cur] \notin {"none", "done", "register"}
        BY <1>1, <2>1, <2>2, <2>3, HandlerSteps DEF Registers
      <3> QED
        BY <3>1, <3>2
    <2>7. ASSUME ~crossed', handler'[cur] = "loop"
          PROVE  /\ toClient'[cur] = <<Msg("ack", None)>>
                 /\ removing' # None => removing'.session # cur
                 /\ \A s \in setting' : s.session # cur
      <3>1. CASE Authenticate(cur)
        <4>1. /\ handler[cur] = "auth" /\ toClient' = Sent(toClient, cur, <<Msg("ack", None)>>)
              /\ UNCHANGED <<removing, setting>>
          BY <3>1 DEF Authenticate, dashVars
        <4>2. toClient[cur] = <<>> /\ (removing # None => removing.session # cur)
              /\ \A s \in setting : s.session # cur
          BY <1>0, <2>1, <4>1 DEF SessionsWF
        <4>3. Msg("ack", None) \in Message
          BY DEF Msg, Message
        <4>4. toClient'[cur] = Append(toClient[cur], Msg("ack", None))
          <5>1. TypeOK
            BY DEF IInv
          <5> QED
            BY <2>1, <4>1, <4>3, <5>1, SentOne
        <4>5. toClient'[cur] = <<Msg("ack", None)>>
          BY <4>2, <4>4
        <4> QED
          BY <4>1, <4>2, <4>5
      <3>2. CASE ~Authenticate(cur)
        <4>1. handler[cur] = "loop" /\ ~crossed
          BY <1>1, <2>1, <2>3, <2>7, <3>2, HandlerSteps, WatchSteps DEF Registers
        <4>2. /\ toClient[cur] = <<Msg("ack", None)>>
              /\ removing # None => removing.session # cur
              /\ \A s \in setting : s.session # cur
          BY <2>2, <4>1
        <4>3. \A n \in Name : /\ ~AddTunnel(cur, n) /\ ~RemoveTunnel(cur, n)
                              /\ \A d \in Dir \cup {None} : ~SetEntryDir(cur, n, d)
          <5>1. Msg("ack", None) \in ToSet(toClient[cur]) /\ Msg("ack", None).name = None
            BY <4>2 DEF ToSet, Msg
          <5> QED
            BY <2>1, <2>7, <5>1, Undisturbed
        <4>4. removing' # None => removing'.session # cur
          <5>1. ASSUME NEW k \in Sessions, NEW n \in Name, RemoveTunnel(k, n)
                PROVE  removing'.session # cur
            <6>1. k # cur
              BY <4>3, <5>1
            <6>2. removing' = [session |-> k, name |-> n]
              BY <5>1 DEF RemoveTunnel
            <6> QED
              BY <6>1, <6>2
          <5>2. RemoveTunnelByName => removing' = None
            BY DEF RemoveTunnelByName
          <5> QED
            BY <1>1, <4>2, <5>1, <5>2, Moves
        <4>5. \A s \in setting' : s.session # cur
          <5>1. ASSUME NEW k \in Sessions, NEW n \in Name, NEW d \in Dir \cup {None},
                       SetEntryDir(k, n, d)
                PROVE  \A s \in setting' : s.session # cur
            <6>1. k # cur
              BY <4>3, <5>1
            <6>2. setting' = setting \cup
                      {[op |-> ops', session |-> k, message |-> DirMsg("setDir", n, d)]}
              BY <5>1 DEF SetEntryDir
            <6> QED
              BY <4>2, <6>1, <6>2
          <5>2. SendDir => setting' \subseteq setting
            BY DEF SendDir
          <5> QED
            BY <1>1, <4>2, <5>1, <5>2, Moves
        <4>6. toClient'[cur] = toClient[cur]
          <5>1. TypeOK
            BY DEF IInv
          <5>2. ASSUME NEW k \in Sessions, NEW m \in Message, k # cur,
                       toClient' = Sent(toClient, k, <<m>>)
                PROVE  toClient'[cur] = toClient[cur]
            BY <2>1, <5>1, <5>2, SentOne
          <5>3. ASSUME NEW k \in Sessions, k # cur, Authenticate(k) PROVE toClient'[cur] = toClient[cur]
            <6>1. Msg("ack", None) \in Message
              BY DEF Msg, Message
            <6> QED
              BY <5>2, <5>3, <6>1 DEF Authenticate
          <5>4. ASSUME NEW k \in Sessions, k # cur, Registers(k) PROVE toClient'[cur] = toClient[cur]
            BY <5>2, <5>4, RequestAnswered
          <5>5. ASSUME NEW k \in Sessions, k # cur, NEW n \in Name, AddTunnel(k, n) \/ RemoveTunnel(k, n)
                PROVE toClient'[cur] = toClient[cur]
            BY <1>0, <2>1, <5>5 DEF AddTunnel, RemoveTunnel, Sent
          <5>6. ASSUME SendDir PROVE toClient'[cur] = toClient[cur]
            BY <1>0, <2>1, <4>2, <5>6 DEF SendDir, Sent
          <5> QED
            BY <1>1, <2>3, <3>2, <4>3, <5>3, <5>4, <5>5, <5>6, Moves DEF Reads
        <4> QED
          BY <4>2, <4>4, <4>5, <4>6
      <3> QED
        BY <3>1, <3>2
    <2> QED
      BY <2>1, <2>4, <2>5, <2>6, <2>7
  <1> QED
    BY <1>2, <1>3, <1>4 DEF ClientAsks

LEMMA RecordsWFNext ==
    ASSUME IInv, WatchInv, [Next]_vars
    PROVE  RecordsWF'
  <1>0. /\ tunnels \in [Sessions -> Seq(Name)] /\ route \in [Name -> 0..MaxSession]
        /\ config \in Seq(Name) /\ dir \in [Name -> Dir \cup {None}]
        /\ removing \in [session : Sessions, name : Name] \cup {None}
        /\ RecordsWF /\ Sessions = 1..MaxSession /\ MaxSession \in Nat
    BY BoundAssumption DEF IInv, TypeOK, WatchInv, Sessions
  <1>1. \A s \in setting' : s.message.type = "setDir"
    <2>1. ASSUME NEW k \in Sessions, NEW n \in Name, NEW d \in Dir \cup {None}, SetEntryDir(k, n, d)
          PROVE  \A s \in setting' : s.message.type = "setDir"
      BY <1>0, <2>1 DEF RecordsWF, SetEntryDir, DirMsg
    <2> QED
      BY <1>0, <2>1, Moves DEF RecordsWF, SendDir
  <1>2. ASSUME NEW n \in Name, n \notin ToSet(config') PROVE dir'[n] = None
    <2>1. CASE DynamicAdd
      <3> DEFINE m == Head(toClient[cur])
      <3>1. m.name \in Name /\ dir' = dir /\ config' \in {config, Append(config, m.name)}
        <4>1. m \in Message /\ m.type = "add"
          BY <2>1, ClientReads DEF Reads, DynamicAdd
        <4> QED
          BY <2>1, <4>1, MessageParts DEF DynamicAdd
      <3>2. ToSet(Append(config, m.name)) = ToSet(config) \cup {m.name}
        BY <1>0, AppendListed
      <3> QED
        BY <1>0, <1>2, <3>1, <3>2 DEF RecordsWF
    <2>2. CASE DynamicRemove
      <3> DEFINE m == Head(toClient[cur])
      <3>1. config' = Without(config, m.name) /\ dir' = [dir EXCEPT ![m.name] = None]
        BY <2>2 DEF DynamicRemove
      <3>2. ToSet(Without(config, m.name)) = ToSet(config) \ {m.name}
        BY <1>0, WithoutElements
      <3> QED
        BY <1>0, <1>2, <3>1, <3>2 DEF RecordsWF
    <2>3. CASE SetTunnelDir
      BY <1>0, <1>2, <2>3 DEF RecordsWF, SetTunnelDir
    <2> QED
      BY <1>0, <1>2, <2>1, <2>2, <2>3, Moves DEF RecordsWF
  <1>3. ASSUME NEW n \in Name, route'[n] # 0 PROVE n \in ToSet(tunnels'[route'[n]])
    <2>1. ASSUME NEW k \in Sessions, RegisterHTTP(k) PROVE n \in ToSet(tunnels'[route'[n]])
      <3> DEFINE m == Head(toServer[k])
      <3>1. m.name \in Name
        BY <2>1, NextRequest DEF Registers
      <3>3. CASE /\ tunnels' = [tunnels EXCEPT ![k] = Append(@, m.name)]
                 /\ route' = [route EXCEPT ![m.name] = k]
        <4>1. ToSet(Append(tunnels[k], m.name)) = ToSet(tunnels[k]) \cup {m.name}
          BY <1>0, AppendListed
        <4>2. CASE n = m.name
          <5>1. route'[n] = k /\ tunnels'[k] = Append(tunnels[k], m.name)
            BY <1>0, <3>1, <3>3, <4>2
          <5> QED
            BY <4>1, <4>2, <5>1
        <4>3. CASE n # m.name
          <5>1. route'[n] = route[n] /\ route[n] \in Sessions /\ n \in ToSet(tunnels[route[n]])
            BY <1>0, <1>3, <3>1, <3>3, <4>3 DEF RecordsWF
          <5>2. tunnels'[route[n]] = tunnels[route[n]] \/
                (route[n] = k /\ tunnels'[k] = Append(tunnels[k], m.name))
            BY <1>0, <3>3, <5>1
          <5> QED
            BY <4>1, <5>1, <5>2
        <4> QED
          BY <4>2, <4>3
      <3> QED
        BY <2>1, <3>3 DEF RegisterHTTP
    <2>2. ASSUME NEW k \in Sessions, GiveUp(k) PROVE n \in ToSet(tunnels'[route'[n]])
      <3>1. n \notin ToSet(tunnels[k]) /\ route'[n] = route[n]
        BY <1>3, <2>2 DEF GiveUp, RemoveClient
      <3>2. route[n] \in Sessions /\ n \in ToSet(tunnels[route[n]]) /\ route[n] # k
        BY <1>0, <1>3, <3>1 DEF RecordsWF
      <3>3. tunnels'[route[n]] = tunnels[route[n]]
        BY <1>0, <2>2, <3>2 DEF GiveUp, RemoveClient
      <3> QED
        BY <3>1, <3>2, <3>3
    <2>3. ASSUME RemoveTunnelByName, ~UNCHANGED <<tunnels, route>>
          PROVE  n \in ToSet(tunnels'[route'[n]])
      <3> DEFINE k == removing.session
                 p == removing.name
      <3>1. k \in Sessions /\ p \in Name
        BY <1>0, <2>3 DEF RemoveTunnelByName
      <3>2. /\ tunnels' = [tunnels EXCEPT ![k] = RemoveFirst(@, p)]
            /\ route' = [route EXCEPT ![p] = 0]
        BY <2>3 DEF RemoveTunnelByName
      <3> HIDE DEF k, p
      <3>3. n # p /\ route'[n] = route[n]
        BY <1>0, <1>3, <3>1, <3>2
      <3>4. route[n] \in Sessions /\ n \in ToSet(tunnels[route[n]])
        BY <1>0, <1>3, <3>3 DEF RecordsWF
      <3>5. ToSet(tunnels[k]) \ {p} \subseteq ToSet(RemoveFirst(tunnels[k], p))
        BY <1>0, <3>1, RemoveFirstElements
      <3>6. tunnels'[route[n]] = IF route[n] = k THEN RemoveFirst(tunnels[k], p) ELSE tunnels[route[n]]
        BY <1>0, <3>1, <3>2, <3>4
      <3> QED
        BY <3>3, <3>4, <3>5, <3>6
    <2>4. CASE UNCHANGED <<tunnels, route>>
      BY <1>0, <1>3, <2>4 DEF RecordsWF
    <2> QED
      BY <2>1, <2>2, <2>3, <2>4, Moves
  <1> QED
    BY <1>1, <1>2, <1>3 DEF RecordsWF

-----------------------------------------------------------------------------
(* Tunnels are restored *)

\* What a client asks for that has just proved itself.
LEMMA AskedAll ==
    ASSUME IInv, WatchInv, RegisterAll, cur \notin down
    PROVE  /\ cur \in Sessions /\ tunnels'[cur] = <<>>
           /\ toServer'[cur] = [i \in DOMAIN config |-> DirMsg("register", config[i], DirAt(i))]
           /\ ~crossed => /\ toClient'[cur] = <<>>
                          /\ removing' # None => removing'.session # cur
                          /\ \A s \in setting' : s.session # cur
  <1> DEFINE Req == [type : {"register"}, name : Name, dir : Dir \cup {None}]
             ms == [i \in DOMAIN config |-> DirMsg("register", config[i], DirAt(i))]
  <1>1. cur \in Sessions /\ ms \in Seq(Req)
    BY RegistrationsSent
  <1>2. /\ client = "ack" /\ toServer' = Sent(toServer, cur, ms) /\ toClient[cur] # <<>>
        /\ UNCHANGED <<tunnels, handler, removing, setting>>
    BY DEF RegisterAll, serverVars, dashVars
  <1>3. /\ toServer[cur] = <<>> /\ tunnels[cur] = <<>> /\ handler[cur] \in {"auth", "loop"}
        /\ ~crossed /\ handler[cur] = "loop" =>
                      /\ toClient[cur] = <<Msg("ack", None)>>
                      /\ removing # None => removing.session # cur
                      /\ \A s \in setting : s.session # cur
    BY <1>1, <1>2 DEF WatchInv, ClientAsks
  <1>4. handler[cur] = "loop"
    <2>1. handler[cur] \in {"none", "auth", "loop", "register", "done"}
      BY <1>1 DEF IInv, TypeOK
    <2>2. handler[cur] \notin {"none", "auth"}
      BY <1>1, <1>2 DEF WatchInv, SessionsWF
    <2> QED
      BY <1>3, <2>1, <2>2
  <1>5. toServer'[cur] = ms
    <2>1. toServer \in [Sessions -> Seq(Message)]
      BY DEF IInv, TypeOK
    <2> HIDE DEF ms, Req
    <2>2. toServer'[cur] = toServer[cur] \o ms
      BY <1>1, <1>2, <2>1 DEF Sent
    <2>3. <<>> \o ms = ms
      BY <1>1
    <2> QED
      BY <1>3, <2>2, <2>3
  <1>6. ~crossed => toClient'[cur] = <<>>
    <2>1. toClient'[cur] = Tail(toClient[cur])
      BY ClientReads DEF Reads
    <2>2. Tail(<<Msg("ack", None)>>) = <<>>
      OBVIOUS
    <2> QED
      BY <1>3, <1>4, <2>1, <2>2
  <1> QED
    BY <1>1, <1>2, <1>3, <1>4, <1>5, <1>6

\* Nothing but a reader's step takes a client out of, or into, its loop.
LEMMA UpBefore ==
    ASSUME IInv, WatchInv, [Next]_vars, Up'
    PROVE  /\ cur' = cur /\ cur \in Sessions /\ cur \notin down /\ ~Dial /\ ~SessionEnds
           /\ Up \/ RegisterAll
           /\ ~GiveUp(cur)
  <1>1. ~Dial /\ ~SessionEnds
    BY DEF Dial, SessionEnds, Up
  <1>2. cur' = cur /\ down \subseteq down'
    BY <1>1, Moves DEF Break
  <1>3. cur \notin down
    BY <1>2 DEF Up
  <1>4. client \in {"replies", "running"} \/ RegisterAll
    BY <1>1, Moves DEF Up, ReadReply
  <1>5. client # "dial"
    BY <1>4 DEF RegisterAll
  <1>6. cur \in Sessions
    BY <1>5 DEF IInv, ClientWF
  <1> QED
    BY <1>1, <1>2, <1>3, <1>4, <1>6 DEF Up, RegisterAll, GiveUp

\* Routes lead to the client's session if the server has given up all others.
LEMMA RoutesAreCurrent ==
    ASSUME IInv, WatchInv, \A k \in 1..(cur - 1) : handler[k] = "done",
           NEW n \in Name, route[n] # 0
    PROVE  n \in ToSet(tunnels[cur])
  <1>1. /\ route[n] \in Sessions /\ n \in ToSet(tunnels[route[n]]) /\ SessionsWF
        /\ cur \in Nat /\ Sessions = 1..MaxSession /\ MaxSession \in Nat
    BY BoundAssumption DEF IInv, TypeOK, WatchInv, RecordsWF, Sessions
  <1>2. tunnels[route[n]] # <<>>
    BY <1>1 DEF ToSet
  <1>3. handler[route[n]] \in {"loop", "register"}
    BY <1>1, <1>2 DEF SessionsWF, HasClient
  <1>4. ~(route[n] > cur)
    BY <1>1, <1>3 DEF SessionsWF
  <1>5. route[n] \notin 1..(cur - 1)
    BY <1>3
  <1>6. route[n] = cur
    BY <1>1, <1>4, <1>5
  <1> QED
    BY <1>1, <1>6

LEMMA RestoreNext ==
    ASSUME IInv, WatchInv, RestoreInv, [WatchNext]_watchVars
    PROVE  RestoreInv'
  <1>0. /\ cur \in 0..MaxSession /\ MaxSession \in Nat /\ Sessions = 1..MaxSession
        /\ toServer \in [Sessions -> Seq(Message)] /\ tunnels \in [Sessions -> Seq(Name)]
        /\ toClient \in [Sessions -> Seq(Message)] /\ config \in Seq(Name)
        /\ route \in [Name -> 0..MaxSession] /\ ops \in Nat
    <2>1. ops \in Nat
      BY BoundAssumption DEF IInv, TypeOK
    <2> QED
      BY <2>1, BoundAssumption DEF IInv, TypeOK, Sessions
  <1>1. [Next]_vars
    BY WatchSteps
  <1>2. ASSUME ~overlap', NEW k \in 1..(cur' - 1) PROVE handler'[k] = "done"
    <2>1. CASE cur' = cur
      <3>1. k \in 1..(cur - 1) /\ k \in Sessions /\ ~overlap
        BY <1>0, <1>2, <2>1, WatchSteps
      <3>2. handler[k] = "done"
        BY <3>1 DEF RestoreInv
      <3> QED
        BY <1>1, <3>1, <3>2, HandlerSteps
    <2>2. CASE cur' # cur
      <3>1. cur' = cur + 1 /\ Next /\ overlap' = Overlaps
        <4>1. Dial
          BY <1>1, <2>2, Moves
        <4>2. Next
          BY <4>1 DEF Next, Client
        <4> QED
          BY <2>2, <4>1, <4>2, WatchSteps DEF Dial
      <3>2. k \in 1..cur /\ k \in Sessions
        BY <1>0, <3>1
      <3>3. handler[k] = "done"
        BY <1>2, <3>1, <3>2 DEF Overlaps
      <3> QED
        BY <1>1, <3>2, <3>3, HandlerSteps
    <2> QED
      BY <2>1, <2>2
  <1> SUFFICES ASSUME ops' = 0
               PROVE  /\ removing' = None /\ setting' = {}
                      /\ \A k \in Sessions : \A m \in ToSet(toClient'[k]) :
                             m.type \in {"ack", "registered", "error"}
                      /\ Up' /\ ~overlap' =>
                             /\ \A n \in ToSet(tunnels'[cur']) : route'[n] = cur'
                             /\ \A n \in ToSet(config') :
                                    \/ n \in ToSet(tunnels'[cur'])
                                    \/ \E m \in ToSet(toServer'[cur']) : m.name = n
    BY <1>2 DEF RestoreInv
  <1>3. /\ \A k \in Sessions, n \in Name : /\ ~AddTunnel(k, n) /\ ~RemoveTunnel(k, n)
                                           /\ \A d \in Dir \cup {None} : ~SetEntryDir(k, n, d)
        /\ ops = 0
    <2>1. ops + 1 # 0
      BY <1>0
    <2>2. \A k \in Sessions, n \in Name : /\ ~AddTunnel(k, n) /\ ~RemoveTunnel(k, n)
                                          /\ \A d \in Dir \cup {None} : ~SetEntryDir(k, n, d)
      BY <2>1 DEF AddTunnel, RemoveTunnel, SetEntryDir
    <2> QED
      BY <1>1, <2>2, Moves
  <1>4. /\ removing = None /\ setting = {}
        /\ \A k \in Sessions : \A m \in ToSet(toClient[k]) :
               m.type \in {"ack", "registered", "error"}
    BY <1>3 DEF RestoreInv
  <1>5. ~RemoveTunnelByName /\ ~SendDir
    BY <1>4 DEF RemoveTunnelByName, SendDir
  <1>6. removing' = None /\ setting' = {}
    BY <1>1, <1>3, <1>4, <1>5, Moves
  <1>7. ASSUME NEW k \in Sessions, NEW m \in ToSet(toClient'[k])
        PROVE  m.type \in {"ack", "registered", "error"}
    <2>1. CASE Reads
      <3>1. ToSet(toClient'[k]) \subseteq ToSet(toClient[k])
        <4>1. cur \in Sessions /\ ToSet(Tail(toClient[cur])) \subseteq ToSet(toClient[cur])
          BY <1>0, <2>1, ClientReads, TailOps
        <4> QED
          BY <2>1, <4>1, ClientReads
      <3> QED
        BY <1>4, <1>7, <3>1
    <2>2. ASSUME NEW j \in Sessions, NEW r \in Message, toClient' = Sent(toClient, j, <<r>>),
                 r.type \in {"ack", "registered", "error"}
          PROVE  m.type \in {"ack", "registered", "error"}
      <3>1. toClient'[k] = toClient[k] \/ toClient'[k] = Append(toClient[k], r)
        <4>1. TypeOK
          BY DEF IInv
        <4> QED
          BY <2>2, <4>1, SentOne
      <3>2. ToSet(Append(toClient[k], r)) = ToSet(toClient[k]) \cup {r}
        BY <1>0, AppendOps
      <3> QED
        BY <1>4, <1>7, <2>2, <3>1, <3>2
    <2>3. ASSUME NEW j \in Sessions, Authenticate(j)
          PROVE  m.type \in {"ack", "registered", "error"}
      <3>1. Msg("ack", None) \in Message /\ Msg("ack", None).type = "ack"
        BY DEF Msg, Message
      <3> QED
        BY <2>2, <2>3, <3>1 DEF Authenticate
    <2>4. CASE UNCHANGED toClient
      BY <1>4, <1>7, <2>4
    <2>5. ASSUME NEW j \in Sessions, Registers(j)
          PROVE  m.type \in {"ack", "registered", "error"}
      <3> DEFINE n == Head(toServer[j]).name
      <3>1. Msg("error", n).type = "error" /\ Msg("registered", n).type = "registered"
        BY DEF Msg
      <3> QED
        BY <2>2, <2>4, <2>5, <3>1, RequestAnswered
    <2> QED
      BY <1>1, <1>3, <1>5, <2>1, <2>3, <2>4, <2>5, Moves DEF Reads
  <1>8. ASSUME Up', ~overlap', NEW n \in ToSet(config')
        PROVE  \/ n \in ToSet(tunnels'[cur'])
               \/ \E m \in ToSet(toServer'[cur']) : m.name = n
    <2>1. /\ cur' = cur /\ cur \in Sessions /\ cur \notin down /\ ~overlap
          /\ Up \/ RegisterAll
          /\ ~GiveUp(cur)
      BY <1>1, <1>8, UpBefore, WatchSteps
    <2>2. ~DynamicAdd /\ ~DynamicRemove
      <3>1. ASSUME Reads PROVE Head(toClient[cur]) \in ToSet(toClient[cur])
        BY <1>0, <2>1, <3>1, ClientReads, TailOps
      <3> QED
        BY <1>4, <2>1, <3>1 DEF Reads, DynamicAdd, DynamicRemove
    <2>3. config' = config /\ n \in Name
      <3>1. config' = config
        BY <1>1, <2>2, Moves
      <3> QED
        BY <1>0, <1>8, <3>1 DEF ToSet
    <2>4. CASE RegisterAll
      <3>1. toServer'[cur] = [i \in DOMAIN config |-> DirMsg("register", config[i], DirAt(i))]
        BY <2>1, <2>4, AskedAll
      <3>2. PICK i \in DOMAIN config : config[i] = n
        BY <1>8, <2>3 DEF ToSet
      <3>3. toServer'[cur][i].name = n /\ toServer'[cur][i] \in ToSet(toServer'[cur])
        BY <3>1, <3>2 DEF ToSet, DirMsg
      <3> QED
        BY <2>1, <3>3
    <2>5. CASE Up /\ ~RegisterAll
      <3>1. \/ n \in ToSet(tunnels[cur])
            \/ \E m \in ToSet(toServer[cur]) : m.name = n
        BY <1>3, <1>8, <2>1, <2>3, <2>5 DEF RestoreInv
      <3>2. CASE Registers(cur)
        <4> DEFINE m == Head(toServer[cur])
        <4>1. m.name \in Name /\ ToSet(toServer[cur]) = {m} \cup ToSet(Tail(toServer[cur]))
          BY <2>1, <3>2, ServerReads, NextRequest, TailOps
        <4>2. CASE CheckSubdomain(cur) /\ route[m.name] = 0
          <5>1. UNCHANGED <<toServer, tunnels>>
            BY <4>2 DEF CheckSubdomain
          <5> QED
            BY <2>1, <3>1, <5>1
        <4>3. CASE CheckSubdomain(cur) /\ route[m.name] # 0
          <5>1. tunnels' = tunnels /\ toServer'[cur] = Tail(toServer[cur])
            BY <1>0, <2>1, <4>3 DEF CheckSubdomain, Received
          <5>2. \A k \in 1..(cur - 1) : handler[k] = "done"
            BY <2>1 DEF RestoreInv
          <5>3. m.name \in ToSet(tunnels[cur])
            BY <4>1, <4>3, <5>2, RoutesAreCurrent
          <5> HIDE DEF m
          <5> QED
            BY <2>1, <3>1, <4>1, <5>1, <5>3
        <4>4. CASE RegisterHTTP(cur)
          <5>1. /\ tunnels'[cur] = Append(tunnels[cur], m.name)
                /\ toServer'[cur] = Tail(toServer[cur])
            BY <1>0, <2>1, <4>4 DEF RegisterHTTP, Received
          <5>2. ToSet(Append(tunnels[cur], m.name)) = ToSet(tunnels[cur]) \cup {m.name}
            BY <1>0, <2>1, AppendListed
          <5> HIDE DEF m
          <5> QED
            BY <2>1, <3>1, <4>1, <5>1, <5>2
        <4> QED
          BY <3>2, <4>2, <4>3, <4>4 DEF Registers
      <3>3. CASE ~Registers(cur)
        <4>1. toServer'[cur] = toServer[cur]
          BY <1>1, <2>1, <2>2, <2>5, <3>3, ServerReads, Moves
        <4>2. tunnels'[cur] = tunnels[cur]
          <5>1. ASSUME NEW k \in Sessions, RegisterHTTP(k) \/ GiveUp(k)
                PROVE  tunnels'[cur] = tunnels[cur]
            <6>1. k # cur
              BY <2>1, <3>3, <5>1 DEF Registers
            <6> QED
              BY <1>0, <2>1, <5>1, <6>1 DEF RegisterHTTP, GiveUp, RemoveClient
          <5> QED
            BY <1>1, <1>5, <5>1, Moves
        <4> QED
          BY <2>1, <3>1, <4>1, <4>2
      <3> QED
        BY <3>2, <3>3
    <2> QED
      BY <2>1, <2>4, <2>5
  <1>9. ASSUME Up', ~overlap', NEW n \in ToSet(tunnels'[cur'])
        PROVE  route'[n] = cur'
    <2>1. /\ cur' = cur /\ cur \in Sessions /\ cur \notin down /\ ~overlap
          /\ Up \/ RegisterAll
          /\ ~GiveUp(cur)
      BY <1>1, <1>9, UpBefore, WatchSteps
    <2>2. CASE RegisterAll
      <3>1. tunnels'[cur] = <<>>
        BY <2>1, <2>2, AskedAll
      <3> QED
        BY <1>9, <2>1, <3>1 DEF ToSet
    <2>3. CASE Up /\ ~RegisterAll
      <3>1. /\ \A p \in ToSet(tunnels[cur]) : route[p] = cur
            /\ \A k \in 1..(cur - 1) : handler[k] = "done"
        BY <1>3, <2>1, <2>3 DEF RestoreInv
      <3>2. ASSUME NEW k \in Sessions, handler[k] \in {"auth", "loop", "register"} PROVE k = cur
        <4>1. ~(k > cur)
          BY <3>2 DEF WatchInv, SessionsWF
        <4>2. k \notin 1..(cur - 1)
          BY <3>1, <3>2
        <4> QED
          BY <1>0, <4>1, <4>2
      <3>3. \A k \in Sessions : ~GiveUp(k)
        BY <2>1, <3>2 DEF GiveUp
      <3>4. ASSUME NEW k \in Sessions, RegisterHTTP(k) PROVE route'[n] = cur
        <4> DEFINE m == Head(toServer[cur]).name
        <4>1. k = cur
          BY <3>2, <3>4 DEF RegisterHTTP
        <4>2. m \in Name
          BY <2>1, <3>4, <4>1, NextRequest DEF Registers
        <4>3. tunnels'[cur] = Append(tunnels[cur], m) /\ route' = [route EXCEPT ![m] = cur]
          BY <1>0, <2>1, <3>4, <4>1 DEF RegisterHTTP
        <4> HIDE DEF m
        <4>4. ToSet(Append(tunnels[cur], m)) = ToSet(tunnels[cur]) \cup {m}
          BY <1>0, <2>1, AppendListed
        <4>5. \A p \in ToSet(tunnels[cur]) : p \in Name
          BY <1>0, <2>1 DEF ToSet
        <4> QED
          BY <1>0, <1>9, <2>1, <3>1, <4>2, <4>3, <4>4, <4>5
      <3>5. CASE UNCHANGED <<tunnels, route>>
        BY <1>9, <2>1, <3>1, <3>5
      <3> QED
        BY <1>1, <1>5, <2>1, <3>3, <3>4, <3>5, Moves
    <2> QED
      BY <2>1, <2>2, <2>3
  <1> QED
    BY <1>6, <1>7, <1>8, <1>9

-----------------------------------------------------------------------------
(* Both ends agree *)

\* The client and the server agree about the tunnel n, or will.
Agreeing(n) == OneAtATime(n) /\ Listed(n) /\ (~swallowed => Agreed(n))

\* A step that has nothing to do with the tunnel n, or takes a request for it
\* away.
LEMMA Untouched ==
    ASSUME NEW n \in Name, Agreeing(n), ~swallowed' => ~swallowed, cur' = cur,
           OneOp(toClient[cur], n) => OneOp(toClient'[cur], n),
           Ops(toClient'[cur], n) = Ops(toClient[cur], n),
           Setting(n)' = Setting(n), Requests(n)' \subseteq Requests(n),
           Removing(n)' <=> Removing(n), Registered(n)' <=> Registered(n),
           n \in ToSet(config') <=> n \in ToSet(config),
           Once(config', n) => Once(config, n),
           dir'[n] = dir[n], entryDir'[cur][n] = entryDir[cur][n]
    PROVE  Agreeing(n)'
  <1>1. OneAtATime(n)'
    <2>1. OneOp(toClient'[cur'], n) /\ \A s, t \in Setting(n)' : s = t
      BY DEF Agreeing, OneAtATime
    <2>2. Ops(toClient'[cur'], n) = Ops(toClient[cur], n)
      OBVIOUS
    <2>3. Requests(n) = {} => Requests(n)' = {}
      OBVIOUS
    <2> QED
      BY <2>1, <2>2, <2>3 DEF Agreeing, OneAtATime
  <1>2. Listed(n)'
    <2>1. Requests(n) = {} => Requests(n)' = {}
      OBVIOUS
    <2> QED
      BY <2>1 DEF Agreeing, Listed
  <1>3. ~swallowed' => Agreed(n)'
    <2>1. Ops(toClient'[cur'], n) = Ops(toClient[cur], n) /\ entryDir'[cur'][n] = entryDir[cur][n]
      OBVIOUS
    <2> QED
      BY <2>1 DEF Agreeing, Agreed
  <1> QED
    BY <1>1, <1>2, <1>3 DEF Agreeing

LEMMA AgreeingFirst ==
    ASSUME IInv, WatchInv, RegisterAll, cur \notin down, ~crossed, NEW n \in Name
    PROVE  Agreeing(n)'
  <1>1. /\ cur' = cur /\ tunnels'[cur] = <<>> /\ toClient'[cur] = <<>>
        /\ removing' # None => removing'.session # cur
        /\ \A s \in setting' : s.session # cur
        /\ config' = config /\ dir' = dir
        /\ toServer'[cur] = [i \in DOMAIN config |-> DirMsg("register", config[i], DirAt(i))]
    BY AskedAll DEF RegisterAll
  <1>2. Ops(toClient'[cur'], n) = {} /\ Registered(n)' = FALSE /\ OneOp(toClient'[cur'], n)
    BY <1>1 DEF Ops, OneOp, Registered, ToSet
  <1>3. Setting(n)' = {} /\ ~Removing(n)'
    <2>1. [session |-> cur, name |-> n] # None
      BY AskedAll, NoneAssumption DEF Sessions
    <2>2. Setting(n)' = {}
      BY <1>1 DEF Setting
    <2>3. ASSUME Removing(n)' PROVE FALSE
      <3>1. removing' = [session |-> cur, name |-> n]
        BY <1>1, <2>3 DEF Removing
      <3>2. removing'.session = cur
        BY <3>1
      <3> QED
        BY <1>1, <2>1, <3>1, <3>2
    <2> QED
      BY <2>2, <2>3
  <1>4. ASSUME NEW m \in Requests(n)'
        PROVE  /\ n \in ToSet(config')
               /\ Once(config', n) => m.dir = dir'[n]
    <2>1. PICK i \in DOMAIN config : m = DirMsg("register", config[i], DirAt(i))
      BY <1>1, <1>4 DEF Requests, ToSet
    <2>2. config[i] = n /\ m.dir = DirAt(i)
      BY <1>4, <2>1 DEF Requests, DirMsg
    <2>3. ASSUME Once(config, n) PROVE DirAt(i) = dir[n]
      <3>1. config \in Seq(Name)
        BY DEF IInv, TypeOK
      <3>2. \A j \in 1..(i - 1) : j \in DOMAIN config /\ j # i
        BY <2>1, <3>1
      <3> QED
        BY <2>2, <2>3, <3>2 DEF DirAt, Once
    <2> QED
      BY <1>1, <2>2, <2>3 DEF ToSet
  <1>5. OneAtATime(n)'
    BY <1>2, <1>3 DEF OneAtATime
  <1>6. Listed(n)'
    BY <1>2, <1>4 DEF Listed
  <1>7. Agreed(n)'
    BY <1>2, <1>4 DEF Agreed
  <1> QED
    BY <1>5, <1>6, <1>7 DEF Agreeing

\* What a step does to the messages on their way to the client, as far as they
\* are operations on the tunnel n.
LEMMA OthersSent ==
    ASSUME IInv, cur \in Sessions, cur' = cur, NEW n \in Name, NEW k \in Sessions, NEW m \in Message,
           toClient' = Sent(toClient, k, <<m>>), k = cur => ~IsOp(m, n)
    PROVE  /\ OneOp(toClient[cur], n) => OneOp(toClient'[cur], n)
           /\ Ops(toClient'[cur], n) = Ops(toClient[cur], n)
  <1>1. \/ toClient'[cur] = toClient[cur]
        \/ k = cur /\ toClient'[cur] = Append(toClient[cur], m)
    <2>1. TypeOK
      BY DEF IInv
    <2> QED
      BY <2>1, SentOne
  <1>2. toClient[cur] \in Seq(Message)
    BY DEF IInv, TypeOK
  <1>3. CASE toClient'[cur] = toClient[cur]
    BY <1>3
  <1>4. CASE k = cur /\ toClient'[cur] = Append(toClient[cur], m)
    <2>1. Ops(Append(toClient[cur], m), n) = Ops(toClient[cur], n)
      <3>1. Ops(Append(toClient[cur], m), n)
                = Ops(toClient[cur], n) \cup (IF IsOp(m, n) THEN {m} ELSE {})
        BY <1>2, AppendOps
      <3> QED
        BY <1>4, <3>1
    <2>2. OneOp(toClient[cur], n) => OneOp(Append(toClient[cur], m), n)
      BY <1>2, <1>4, AppendOps
    <2> QED
      BY <1>4, <2>1, <2>2
  <1> QED
    BY <1>1, <1>3, <1>4

LEMMA OpSent ==
    ASSUME IInv, cur \in Sessions, cur \notin down, NEW n \in Name, NEW m \in Message,
           toClient' = Sent(toClient, cur, <<m>>), IsOp(m, n), Ops(toClient[cur], n) = {},
           OneOp(toClient[cur], n)
    PROVE  OneOp(toClient'[cur], n) /\ Ops(toClient'[cur], n) = {m}
  <1>1. toClient'[cur] = Append(toClient[cur], m)
    <2>1. TypeOK
      BY DEF IInv
    <2> QED
      BY <2>1, SentOne
  <1>2. toClient[cur] \in Seq(Message)
    BY DEF IInv, TypeOK
  <1>3. Ops(Append(toClient[cur], m), n) = Ops(toClient[cur], n) \cup {m}
    BY <1>2, AppendOps
  <1>4. OneOp(Append(toClient[cur], m), n)
    BY <1>2, AppendOps
  <1> QED
    BY <1>1, <1>3, <1>4

LEMMA OthersRead ==
    ASSUME IInv, Reads, NEW n \in Name, ~IsOp(Head(toClient[cur]), n)
    PROVE  /\ OneOp(toClient[cur], n) => OneOp(toClient'[cur], n)
           /\ Ops(toClient'[cur], n) = Ops(toClient[cur], n)
  BY ClientReads, TailOps

LEMMA OpRead ==
    ASSUME IInv, Reads, NEW n \in Name, IsOp(Head(toClient[cur]), n), Agreeing(n)
    PROVE  /\ OneOp(toClient'[cur], n) /\ Ops(toClient'[cur], n) = {}
           /\ Ops(toClient[cur], n) = {Head(toClient[cur])}
           /\ Requests(n) = {} /\ Setting(n) = {}
           /\ Removing(n) => Head(toClient[cur]).type = "remove"
           /\ Head(toClient[cur]).type = "remove" /\ Registered(n) => Removing(n)
  <1> DEFINE q == toClient[cur]
  <1>1. OneOp(q, n)
    BY DEF Agreeing, OneAtATime
  <1>2. /\ ToSet(q) = {Head(q)} \cup ToSet(Tail(q)) /\ toClient'[cur] = Tail(q)
        /\ OneOp(Tail(q), n) /\ Ops(Tail(q), n) = {}
    BY <1>1, ClientReads, TailOps
  <1>3. Ops(q, n) = {Head(q)}
    BY <1>2 DEF Ops
  <1> QED
    BY <1>2, <1>3 DEF Agreeing, OneAtATime

\* The client's and connect's steps, as they read an operation on n ...
LEMMA AgreeingOpRead ==
    ASSUME IInv, WatchInv, Reads, ~RegisterAll, cur \notin down,
           ~swallowed' => ~swallowed /\ ~Swallows,
           NEW n \in Name, IsOp(Head(toClient[cur]), n), Agreeing(n)
    PROVE  Agreeing(n)'
  <1> DEFINE h == Head(toClient[cur])
  <1>1. /\ OneOp(toClient'[cur'], n) /\ Ops(toClient'[cur'], n) = {}
        /\ Ops(toClient[cur], n) = {h}
        /\ Requests(n) = {} /\ Setting(n) = {}
        /\ Removing(n) => h.type = "remove"
        /\ h.type = "remove" /\ Registered(n) => Removing(n)
        /\ h.name = n /\ cur' = cur
    BY OpRead, ClientReads DEF IsOp
  <1>2. /\ cur \in Sessions /\ UNCHANGED <<tunnels, entryDir, removing, setting>>
    BY ClientReads DEF serverVars, dashVars
  <1>3. /\ Setting(n)' = {} /\ (Removing(n)' <=> Removing(n)) /\ (Registered(n)' <=> Registered(n))
        /\ entryDir'[cur'][n] = entryDir[cur][n]
    BY <1>1, <1>2 DEF Setting, Removing, Registered
  <1>4. config \in Seq(Name) /\ dir \in [Name -> Dir \cup {None}]
        /\ toServer \in [Sessions -> Seq(Message)]
    BY DEF IInv, TypeOK
  <1>5. CASE ReadReply
    <2>1. /\ UNCHANGED <<config, dir, toServer>>
          /\ ~swallowed' => h.type # "setDir"
      BY <1>5 DEF ReadReply, Swallows
    <2>2. Requests(n)' = {}
      BY <1>1, <2>1 DEF Requests
    <2>3. OneAtATime(n)' /\ Listed(n)'
      BY <1>1, <1>3, <2>1, <2>2 DEF OneAtATime, Listed, Agreeing
    <2>4. ~swallowed' => Agreed(n)'
      BY <1>1, <1>3, <2>1, <2>2 DEF Agreed, Agreeing
    <2> QED
      BY <2>3, <2>4 DEF Agreeing
  <1>6. CASE DynamicAdd
    <2> DEFINE r == DirMsg("register", n, None)
    <2>1. /\ h.type = "add" /\ dir' = dir /\ config' = Append(config, n)
          /\ toServer' = Sent(toServer, cur, <<r>>)
      BY <1>1, <1>6 DEF DynamicAdd
    <2>2. ~Removing(n)
      BY <1>1, <2>1
    <2>3. ToSet(toServer'[cur]) = ToSet(toServer[cur]) \cup {r}
      <3>1. toServer[cur] \in Seq(Message) /\ toServer'[cur] = toServer[cur] \o <<r>>
        BY <1>2, <1>4, <2>1 DEF Sent
      <3> HIDE DEF r
      <3>2. toServer'[cur] = Append(toServer[cur], r)
        BY <3>1, AppendOps
      <3> QED
        BY <3>1, <3>2, AppendOps
    <2>4. r.name = n /\ r.dir = None
      BY DEF DirMsg
    <2> HIDE DEF r
    <2>5. Requests(n)' = {r}
      BY <1>1, <2>3, <2>4 DEF Requests
    <2>6. n \in ToSet(config') /\ (Once(config', n) => n \notin ToSet(config))
      BY <1>4, <2>1, AppendListed
    <2>7. OneAtATime(n)' /\ Listed(n)'
      BY <1>1, <1>3, <2>2, <2>6 DEF OneAtATime, Listed
    <2>8. Agreed(n)'
      <3>1. ASSUME Once(config', n) PROVE ~Registered(n) /\ dir[n] = None
        <4>1. n \notin ToSet(config)
          BY <2>6, <3>1
        <4> QED
          BY <2>2, <4>1 DEF Agreeing, Listed, WatchInv, RecordsWF
      <3> QED
        BY <1>3, <2>1, <2>4, <2>5, <3>1 DEF Agreed
    <2> QED
      BY <2>7, <2>8 DEF Agreeing
  <1>7. CASE DynamicRemove
    <2>1. /\ h.type = "remove" /\ config' = Without(config, n) /\ toServer' = toServer
      BY <1>1, <1>7 DEF DynamicRemove
    <2>2. n \notin ToSet(config')
      BY <1>4, <2>1, WithoutElements
    <2>3. Requests(n)' = {}
      BY <1>1, <2>1 DEF Requests
    <2>4. OneAtATime(n)' /\ Listed(n)'
      BY <1>1, <1>3, <2>1, <2>3 DEF OneAtATime, Listed
    <2>5. Agreed(n)'
      BY <2>2 DEF Agreed
    <2> QED
      BY <2>4, <2>5 DEF Agreeing
  <1>8. CASE SetTunnelDir
    <2>1. /\ h.type = "setDir" /\ config' = config /\ toServer' = toServer
          /\ n \in ToSet(config) => dir'[n] = h.dir
      BY <1>1, <1>4, <1>8 DEF SetTunnelDir
    <2>2. Requests(n)' = {}
      BY <1>1, <2>1 DEF Requests
    <2>3. OneAtATime(n)' /\ Listed(n)'
      BY <1>1, <1>3, <2>1, <2>2 DEF OneAtATime, Listed, Agreeing
    <2>4. ~swallowed' => Agreed(n)'
      BY <1>1, <1>3, <2>1, <2>2 DEF Agreed, Agreeing
    <2> QED
      BY <2>3, <2>4 DEF Agreeing
  <1>9. ~LogReply
    BY DEF LogReply, IsOp
  <1> QED
    BY <1>5, <1>6, <1>7, <1>8, <1>9 DEF Reads

\* ... and as they read something else.
LEMMA AgreeingOthersRead ==
    ASSUME IInv, WatchInv, Reads, ~RegisterAll, cur \notin down,
           NEW n \in Name, ~IsOp(Head(toClient[cur]), n), Agreeing(n),
           ~swallowed' => ~swallowed
    PROVE  Agreeing(n)'
  <1> DEFINE h == Head(toClient[cur])
  <1>1. /\ OneOp(toClient[cur], n) => OneOp(toClient'[cur], n)
        /\ Ops(toClient'[cur], n) = Ops(toClient[cur], n)
        /\ cur \in Sessions /\ cur' = cur /\ UNCHANGED <<tunnels, entryDir, removing, setting>>
        /\ h \in Message
    BY OthersRead, ClientReads DEF serverVars, dashVars
  <1>2. /\ Setting(n)' = Setting(n) /\ (Removing(n)' <=> Removing(n))
        /\ (Registered(n)' <=> Registered(n)) /\ entryDir'[cur][n] = entryDir[cur][n]
    BY <1>1 DEF Setting, Removing, Registered
  <1>3. config \in Seq(Name) /\ dir \in [Name -> Dir \cup {None}]
        /\ toServer \in [Sessions -> Seq(Message)]
    BY DEF IInv, TypeOK
  <1>4. /\ Requests(n)' \subseteq Requests(n) /\ dir'[n] = dir[n]
        /\ n \in ToSet(config') <=> n \in ToSet(config)
        /\ Once(config', n) => Once(config, n)
    <2>1. CASE ReadReply \/ LogReply
      BY <1>1, <2>1 DEF ReadReply, LogReply, Requests
    <2>2. CASE DynamicAdd
      <3> DEFINE r == DirMsg("register", h.name, None)
      <3>1. /\ h.type = "add" /\ dir' = dir /\ config' = Append(config, h.name)
            /\ toServer' = Sent(toServer, cur, <<r>>) /\ h.name # n
        BY <2>2 DEF DynamicAdd, IsOp
      <3>2. ToSet(toServer'[cur]) = ToSet(toServer[cur]) \cup {r}
        <4>1. toServer[cur] \in Seq(Message) /\ toServer'[cur] = toServer[cur] \o <<r>>
          BY <1>1, <1>3, <3>1 DEF Sent
        <4> HIDE DEF r
        <4>2. toServer'[cur] = Append(toServer[cur], r)
          BY <4>1, AppendOps
        <4> QED
          BY <4>1, <4>2, AppendOps
      <3>3. r.name # n
        BY <3>1 DEF DirMsg
      <3> HIDE DEF r
      <3>4. Requests(n)' \subseteq Requests(n)
        BY <1>1, <3>2, <3>3 DEF Requests
      <3>5. ToSet(config') = ToSet(config) \cup {h.name} /\ (Once(config', n) => Once(config, n))
        BY <1>3, <3>1, AppendListed
      <3> QED
        BY <3>1, <3>4, <3>5
    <2>3. CASE DynamicRemove
      <3>1. /\ config' = Without(config, h.name) /\ toServer' = toServer /\ h.name # n
            /\ dir'[n] = dir[n]
        BY <1>3, <2>3 DEF DynamicRemove, IsOp
      <3>2. ToSet(config') = ToSet(config) \ {h.name} /\ (Once(config', n) => Once(config, n))
        BY <1>3, <3>1, WithoutElements
      <3> QED
        BY <1>1, <3>1, <3>2 DEF Requests
    <2>4. CASE SetTunnelDir
      BY <1>1, <1>3, <2>4 DEF SetTunnelDir, IsOp, Requests
    <2> QED
      BY <2>1, <2>2, <2>3, <2>4 DEF Reads
  <1> QED
    BY <1>1, <1>2, <1>4, Untouched

\* The server's steps: a registration of n that is accepted ...
LEMMA AgreeingRegistered ==
    ASSUME IInv, WatchInv, ~raced, cur \in Sessions, NEW n \in Name, Agreeing(n),
           ~swallowed' => ~swallowed,
           RegisterHTTP(cur), Head(toServer[cur]).name = n
    PROVE  Agreeing(n)'
  <1> DEFINE h == Head(toServer[cur])
  <1>1. /\ h \in Requests(n) /\ ToSet(toServer'[cur]) \subseteq ToSet(toServer[cur])
    <2>1. /\ toServer[cur] \in Seq(Message) /\ toServer[cur] # <<>>
          /\ toServer'[cur] = toServer[cur] \/ toServer'[cur] = Tail(toServer[cur])
      BY ServerReads DEF Registers
    <2>2. ToSet(toServer[cur]) = {h} \cup ToSet(Tail(toServer[cur]))
      BY <2>1, TailOps
    <2> QED
      BY <2>1, <2>2 DEF Requests
  <1>2. /\ UNCHANGED <<cur, config, dir, removing, setting>>
        /\ tunnels' = [tunnels EXCEPT ![cur] = Append(@, n)]
        /\ entryDir' = [entryDir EXCEPT ![cur][n] = h.dir]
        /\ toClient' = Sent(toClient, cur, <<Msg("registered", n)>>)
    <2>1. Registering(cur, n)
      BY DEF RegisterHTTP, Registering
    <2>2. route[n] = 0 /\ (n \in ToSet(tunnels[cur]) => route[n] = cur)
      BY <2>1 DEF WatchInv, TunnelsWF
    <2>3. 0 \notin Sessions
      BY BoundAssumption DEF Sessions
    <2>4. n \notin ToSet(tunnels[cur])
      BY <2>2, <2>3
    <2> QED
      BY <2>4 DEF RegisterHTTP, clientVars, dashVars
  <1>3. /\ OneOp(toClient[cur], n) => OneOp(toClient'[cur], n)
        /\ Ops(toClient'[cur], n) = Ops(toClient[cur], n)
    <2>1. Msg("registered", n) \in Message /\ ~IsOp(Msg("registered", n), n)
      BY DEF Msg, Message, IsOp
    <2> QED
      BY <1>2, <2>1, OthersSent
  <1>4. /\ Ops(toClient[cur], n) = {} /\ Setting(n) = {} /\ ~Removing(n)
        /\ OneOp(toClient[cur], n) /\ n \in ToSet(config)
        /\ ~swallowed /\ Once(config, n) => \A m \in Requests(n) : m.dir = dir[n]
    BY <1>1 DEF Agreeing, OneAtATime, Listed, Agreed
  <1>5. entryDir'[cur][n] = h.dir
    BY <1>2 DEF IInv, TypeOK
  <1>6. /\ OneOp(toClient'[cur'], n) /\ Ops(toClient'[cur'], n) = {}
        /\ Setting(n)' = {} /\ ~Removing(n)' /\ Requests(n)' \subseteq Requests(n)
    BY <1>1, <1>2, <1>3, <1>4 DEF Setting, Removing, Requests
  <1>7. OneAtATime(n)'
    BY <1>6 DEF OneAtATime
  <1>8. Listed(n)'
    BY <1>2, <1>4 DEF Listed
  <1>9. ~swallowed' => Agreed(n)'
    BY <1>1, <1>2, <1>4, <1>5, <1>6 DEF Agreed
  <1> QED
    BY <1>7, <1>8, <1>9 DEF Agreeing

\* ... and others.
LEMMA AgreeingOthersRegistered ==
    ASSUME IInv, WatchInv, cur \in Sessions, NEW n \in Name, Agreeing(n),
           ~swallowed' => ~swallowed, NEW k \in Sessions, Registers(k),
           RegisterHTTP(k) => k # cur \/ Head(toServer[k]).name # n
    PROVE  Agreeing(n)'
  <1> DEFINE h == Head(toServer[k])
  <1>1. h.name \in Name /\ UNCHANGED <<cur, config, dir, removing, setting>>
    BY NextRequest DEF Registers, CheckSubdomain, RegisterHTTP, clientVars, dashVars
  <1>2. /\ OneOp(toClient[cur], n) => OneOp(toClient'[cur], n)
        /\ Ops(toClient'[cur], n) = Ops(toClient[cur], n)
    <2>1. ASSUME NEW m \in {Msg("error", h.name), Msg("registered", h.name)}
          PROVE  ~IsOp(m, n)
      BY DEF Msg, IsOp
    <2>2. CASE toClient' = toClient
      BY <2>2
    <2>3. ASSUME NEW m \in {Msg("error", h.name), Msg("registered", h.name)},
                 m \in Message, toClient' = Sent(toClient, k, <<m>>)
          PROVE  /\ OneOp(toClient[cur], n) => OneOp(toClient'[cur], n)
                 /\ Ops(toClient'[cur], n) = Ops(toClient[cur], n)
      <3>1. ~IsOp(m, n)
        BY <2>1
      <3> QED
        BY <1>1, <2>3, <3>1, OthersSent
    <2> QED
      BY <2>2, <2>3, RequestAnswered
  <1>3. Requests(n)' \subseteq Requests(n)
    <2>1. ToSet(toServer'[cur]) \subseteq ToSet(toServer[cur])
      <3>1. /\ toServer[k] \in Seq(Message) /\ toServer[k] # <<>>
            /\ toServer'[k] = toServer[k] \/ toServer'[k] = Tail(toServer[k])
            /\ k # cur => toServer'[cur] = toServer[cur]
        BY ServerReads
      <3>2. ToSet(toServer[k]) = {h} \cup ToSet(Tail(toServer[k]))
        BY <3>1, TailOps
      <3> QED
        BY <3>1, <3>2
    <2> QED
      BY <1>1, <2>1 DEF Requests
  <1>4. (Registered(n)' <=> Registered(n)) /\ entryDir'[cur][n] = entryDir[cur][n]
    <2>1. tunnels \in [Sessions -> Seq(Name)] /\ entryDir \in [Sessions -> [Name -> Dir \cup {None}]]
      BY DEF IInv, TypeOK
    <2>2. CASE UNCHANGED <<tunnels, entryDir>>
      BY <1>1, <2>2 DEF Registered
    <2>3. CASE /\ tunnels' = [tunnels EXCEPT ![k] = Append(@, h.name)]
               /\ entryDir' \in {entryDir, [entryDir EXCEPT ![k][h.name] = h.dir]}
               /\ k = cur => h.name # n
      <3>1. k # cur => tunnels'[cur] = tunnels[cur]
        BY <2>1, <2>3
      <3>2. k = cur => ToSet(tunnels'[cur]) = ToSet(tunnels[cur]) \cup {h.name}
        <4>1. k = cur => tunnels'[cur] = Append(tunnels[cur], h.name)
          BY <2>1, <2>3
        <4>2. ToSet(Append(tunnels[cur], h.name)) = ToSet(tunnels[cur]) \cup {h.name}
          BY <2>1, AppendOps
        <4> QED
          BY <4>1, <4>2
      <3>3. entryDir'[cur][n] = entryDir[cur][n]
        BY <2>1, <2>3
      <3> QED
        BY <1>1, <2>3, <3>1, <3>2, <3>3 DEF Registered
    <2> QED
      BY <2>2, <2>3 DEF Registers, CheckSubdomain, RegisterHTTP
  <1>5. Setting(n)' = Setting(n) /\ (Removing(n)' <=> Removing(n))
    BY <1>1 DEF Setting, Removing
  <1> QED
    BY <1>1, <1>2, <1>3, <1>4, <1>5, Untouched

LEMMA AgreeingAuthenticated ==
    ASSUME IInv, cur \in Sessions, NEW n \in Name, Agreeing(n),
           ~swallowed' => ~swallowed, NEW k \in Sessions, Authenticate(k)
    PROVE  Agreeing(n)'
  <1>1. /\ UNCHANGED <<cur, config, dir, toServer, tunnels, entryDir, removing, setting>>
        /\ toClient' = Sent(toClient, k, <<Msg("ack", None)>>)
    BY DEF Authenticate, clientVars, dashVars
  <1>2. Msg("ack", None) \in Message /\ ~IsOp(Msg("ack", None), n)
    BY DEF Msg, Message, IsOp
  <1>3. /\ OneOp(toClient[cur], n) => OneOp(toClient'[cur], n)
        /\ Ops(toClient'[cur], n) = Ops(toClient[cur], n)
    BY <1>1, <1>2, OthersSent
  <1> QED
    BY <1>1, <1>3, Untouched DEF Setting, Requests, Removing, Registered

LEMMA AgreeingGivenUp ==
    ASSUME IInv, cur \in Sessions, NEW n \in Name, Agreeing(n),
           ~swallowed' => ~swallowed, NEW k \in Sessions, k # cur, GiveUp(k)
    PROVE  Agreeing(n)'
  <1>1. /\ UNCHANGED <<cur, config, dir, toServer, toClient, removing, setting>>
        /\ tunnels'[cur] = tunnels[cur] /\ entryDir'[cur] = entryDir[cur]
    BY DEF GiveUp, RemoveClient, clientVars, dashVars, IInv, TypeOK
  <1> QED
    BY <1>1, Untouched DEF Setting, Requests, Removing, Registered

AtRest(n) ==
    n \in ToSet(config) /\ Once(config, n) /\ Registered(n) => entryDir[cur][n] = dir[n]

\* Nothing is under way for n when an operation on it is begun.
LEMMA AgreeingIdle ==
    ASSUME IInv, [WatchNext]_watchVars, ~crossed', cur \in Sessions,
           NEW n \in Name, Agreeing(n),
           \/ AddTunnel(cur, n) \/ RemoveTunnel(cur, n)
           \/ \E d \in Dir \cup {None} : SetEntryDir(cur, n, d)
    PROVE  /\ ~Removing(n) /\ Setting(n) = {} /\ Requests(n) = {}
           /\ Ops(toClient[cur], n) = {} /\ OneOp(toClient[cur], n)
           /\ ~swallowed => AtRest(n)
  <1>1. ~Removing(n) /\ Setting(n) = {} /\ Requests(n) = {} /\ Ops(toClient[cur], n) = {}
    BY Undisturbed DEF Removing, Setting, Requests, Ops, IsOp
  <1> QED
    BY <1>1 DEF Agreeing, OneAtATime, Agreed, AtRest

\* The dashboard's operations: adding a tunnel ...
LEMMA AgreeingAdd ==
    ASSUME IInv, [WatchNext]_watchVars, ~crossed', cur \in Sessions, cur \notin down,
           NEW n \in Name, Agreeing(n), ~swallowed' => ~swallowed,
           NEW k \in Sessions, NEW p \in Name, AddTunnel(k, p)
    PROVE  Agreeing(n)'
  <1> DEFINE m == Msg("add", p)
  <1>1. /\ UNCHANGED <<cur, config, dir, toServer, tunnels, entryDir, removing, setting>>
        /\ toClient' = Sent(toClient, k, <<m>>)
    BY DEF AddTunnel, clientVars, serverVars
  <1>2. m \in Message /\ (IsOp(m, n) <=> p = n) /\ m.type = "add"
    BY DEF Msg, Message, IsOp
  <1>3. /\ Setting(n)' = Setting(n) /\ (Removing(n)' <=> Removing(n)) /\ Requests(n)' = Requests(n)
        /\ (Registered(n)' <=> Registered(n)) /\ entryDir'[cur'][n] = entryDir[cur][n]
    BY <1>1 DEF Setting, Removing, Requests, Registered
  <1> HIDE DEF m
  <1>4. CASE k = cur /\ p = n
    <2>1. /\ ~Removing(n) /\ Setting(n) = {} /\ Requests(n) = {}
          /\ Ops(toClient[cur], n) = {} /\ OneOp(toClient[cur], n)
          /\ ~swallowed => AtRest(n)
      BY <1>4, AgreeingIdle
    <2>2. OneOp(toClient'[cur'], n) /\ Ops(toClient'[cur'], n) = {m}
      BY <1>1, <1>2, <1>4, <2>1, OpSent
    <2>3. OneAtATime(n)'
      BY <1>2, <1>3, <2>1, <2>2 DEF OneAtATime
    <2>4. Listed(n)'
      BY <1>1, <1>3 DEF Listed, Agreeing
    <2>5. ~swallowed' => Agreed(n)'
      BY <1>1, <1>2, <1>3, <2>1, <2>2 DEF Agreed, AtRest
    <2> QED
      BY <2>3, <2>4, <2>5 DEF Agreeing
  <1>5. CASE ~(k = cur /\ p = n)
    <2>1. /\ OneOp(toClient[cur], n) => OneOp(toClient'[cur], n)
          /\ Ops(toClient'[cur], n) = Ops(toClient[cur], n)
      BY <1>1, <1>2, <1>5, OthersSent
    <2> QED
      BY <1>1, <1>3, <2>1, Untouched
  <1> QED
    BY <1>4, <1>5

\* ... removing one, in two steps ...
LEMMA AgreeingRemove ==
    ASSUME IInv, [WatchNext]_watchVars, ~crossed', cur \in Sessions, cur \notin down,
           NEW n \in Name, Agreeing(n), ~swallowed' => ~swallowed,
           NEW k \in Sessions, NEW p \in Name, RemoveTunnel(k, p)
    PROVE  Agreeing(n)'
  <1> DEFINE m == Msg("remove", p)
  <1>1. /\ UNCHANGED <<cur, config, dir, toServer, tunnels, entryDir, setting>>
        /\ toClient' = Sent(toClient, k, <<m>>)
        /\ removing = None /\ removing' = [session |-> k, name |-> p]
    BY DEF RemoveTunnel, clientVars, serverVars
  <1>2. m \in Message /\ (IsOp(m, n) <=> p = n) /\ m.type = "remove"
    BY DEF Msg, Message, IsOp
  <1>3. /\ Setting(n)' = Setting(n) /\ Requests(n)' = Requests(n)
        /\ (Registered(n)' <=> Registered(n)) /\ entryDir'[cur'][n] = entryDir[cur][n]
    BY <1>1 DEF Setting, Requests, Registered
  <1> HIDE DEF m
  <1>4. CASE k = cur /\ p = n
    <2>1. /\ ~Removing(n) /\ Setting(n) = {} /\ Requests(n) = {}
          /\ Ops(toClient[cur], n) = {} /\ OneOp(toClient[cur], n)
          /\ ~swallowed => AtRest(n)
      BY <1>4, AgreeingIdle
    <2>2. OneOp(toClient'[cur'], n) /\ Ops(toClient'[cur'], n) = {m}
      BY <1>1, <1>2, <1>4, <2>1, OpSent
    <2>3. Removing(n)'
      BY <1>1, <1>4 DEF Removing
    <2>4. OneAtATime(n)'
      BY <1>2, <1>3, <2>1, <2>2, <2>3 DEF OneAtATime
    <2>5. Listed(n)'
      BY <1>3, <2>1, <2>3 DEF Listed
    <2>6. ~swallowed' => Agreed(n)'
      BY <1>1, <1>2, <1>3, <2>1, <2>2 DEF Agreed, AtRest
    <2> QED
      BY <2>4, <2>5, <2>6 DEF Agreeing
  <1>5. CASE ~(k = cur /\ p = n)
    <2>1. /\ OneOp(toClient[cur], n) => OneOp(toClient'[cur], n)
          /\ Ops(toClient'[cur], n) = Ops(toClient[cur], n)
      BY <1>1, <1>2, <1>5, OthersSent
    <2>2. ~Removing(n) /\ ~Removing(n)'
      <3>1. [session |-> cur, name |-> n] # None
        BY NoneAssumption DEF Sessions
      <3> QED
        BY <1>1, <1>5, <3>1 DEF Removing
    <2> QED
      BY <1>1, <1>3, <2>1, <2>2, Untouched
  <1> QED
    BY <1>4, <1>5

LEMMA AgreeingRemoved ==
    ASSUME IInv, WatchInv, ~raced, cur \in Sessions, NEW n \in Name, Agreeing(n),
           ~swallowed' => ~swallowed, RemoveTunnelByName
    PROVE  Agreeing(n)'
  <1> DEFINE k == removing.session
             p == removing.name
  <1>1. /\ UNCHANGED <<cur, config, dir, toServer, toClient, setting>>
        /\ removing' = None /\ k \in Sessions /\ p \in Name
        /\ removing = [session |-> k, name |-> p]
    BY DEF RemoveTunnelByName, clientVars, IInv, TypeOK
  <1>2. ~Removing(n)' /\ Setting(n)' = Setting(n) /\ Requests(n)' = Requests(n)
    <2>1. [session |-> cur, name |-> n] # None
      BY NoneAssumption DEF Sessions
    <2> QED
      BY <1>1, <2>1 DEF Removing, Setting, Requests
  <1>3. /\ tunnels \in [Sessions -> Seq(Name)] /\ entryDir \in [Sessions -> [Name -> Dir \cup {None}]]
        /\ IsInjective(tunnels[k])
    BY <1>1 DEF IInv, TypeOK, WatchInv, TunnelsWF
  <1>4. /\ k # cur => ToSet(tunnels'[cur]) = ToSet(tunnels[cur])
        /\ k = cur => ToSet(tunnels'[cur]) = ToSet(tunnels[cur]) \ {p}
        /\ ~(k = cur /\ p = n) => entryDir'[cur][n] = entryDir[cur][n]
    <2>1. CASE /\ tunnels' = [tunnels EXCEPT ![k] = RemoveFirst(@, p)]
               /\ \E d : entryDir' = [entryDir EXCEPT ![k][p] = d]
      <3>1. ToSet(RemoveFirst(tunnels[k], p)) = ToSet(tunnels[k]) \ {p}
        BY <1>1, <1>3, RemoveFirstElements
      <3>2. /\ k # cur => tunnels'[cur] = tunnels[cur]
            /\ k = cur => tunnels'[cur] = RemoveFirst(tunnels[cur], p)
        BY <1>1, <1>3, <2>1
      <3>3. ~(k = cur /\ p = n) => entryDir'[cur][n] = entryDir[cur][n]
        BY <1>1, <1>3, <2>1
      <3> QED
        BY <3>1, <3>2, <3>3
    <2>2. CASE p \notin ToSet(tunnels[k]) /\ UNCHANGED <<tunnels, entryDir>>
      BY <2>2
    <2> QED
      BY <2>1, <2>2 DEF RemoveTunnelByName
  <1>5. CASE k = cur /\ p = n
    <2>1. Removing(n) /\ ~Registered(n)'
      BY <1>1, <1>4, <1>5 DEF Removing, Registered
    <2>2. Setting(n)' = {} /\ Requests(n)' = {} /\ OneOp(toClient'[cur'], n)
      BY <1>1, <1>2, <2>1 DEF Agreeing, OneAtATime
    <2>3. OneAtATime(n)'
      BY <1>2, <2>1, <2>2 DEF OneAtATime
    <2>4. Listed(n)' /\ Agreed(n)'
      BY <2>1, <2>2 DEF Listed, Agreed
    <2> QED
      BY <2>3, <2>4 DEF Agreeing
  <1>6. CASE ~(k = cur /\ p = n)
    <2>1. ~Removing(n) /\ (Registered(n)' <=> Registered(n))
      BY <1>1, <1>4, <1>6 DEF Removing, Registered
    <2> QED
      BY <1>1, <1>2, <1>4, <1>6, <2>1, Untouched
  <1> QED
    BY <1>5, <1>6

\* ... and setting a directory, in two.
LEMMA AgreeingSet ==
    ASSUME IInv, [WatchNext]_watchVars, ~crossed', cur \in Sessions,
           NEW n \in Name, Agreeing(n), ~swallowed' => ~swallowed,
           NEW k \in Sessions, NEW p \in Name, NEW d \in Dir \cup {None}, SetEntryDir(k, p, d)
    PROVE  Agreeing(n)'
  <1> DEFINE s == [op |-> ops', session |-> k, message |-> DirMsg("setDir", p, d)]
  <1>1. /\ UNCHANGED <<cur, config, dir, toServer, toClient, tunnels, removing>>
        /\ entryDir' = [entryDir EXCEPT ![k][p] = d] /\ setting' = setting \cup {s}
        /\ p \in ToSet(tunnels[k])
    BY DEF SetEntryDir, clientVars
  <1>2. s.session = k /\ s.message.name = p /\ s.message.dir = d
    BY DEF DirMsg
  <1> HIDE DEF s
  <1>3. /\ (Removing(n)' <=> Removing(n)) /\ Requests(n)' = Requests(n)
        /\ (Registered(n)' <=> Registered(n))
    BY <1>1 DEF Removing, Requests, Registered
  <1>4. entryDir \in [Sessions -> [Name -> Dir \cup {None}]]
    BY DEF IInv, TypeOK
  <1>5. CASE k = cur /\ p = n
    <2>1. /\ ~Removing(n) /\ Setting(n) = {} /\ Requests(n) = {}
          /\ Ops(toClient[cur], n) = {} /\ OneOp(toClient[cur], n)
      BY <1>5, AgreeingIdle
    <2>2. Setting(n)' = {s} /\ entryDir'[cur'][n] = d
      BY <1>1, <1>2, <1>4, <1>5, <2>1 DEF Setting
    <2>3. OneAtATime(n)'
      BY <1>1, <1>3, <2>1, <2>2 DEF OneAtATime
    <2>4. Listed(n)'
      BY <1>1, <1>3 DEF Listed, Agreeing
    <2>5. ~swallowed' => Agreed(n)'
      BY <1>1, <1>2, <1>3, <2>1, <2>2 DEF Agreed, AtRest
    <2> QED
      BY <2>3, <2>4, <2>5 DEF Agreeing
  <1>6. CASE ~(k = cur /\ p = n)
    <2>1. Setting(n)' = Setting(n) /\ entryDir'[cur][n] = entryDir[cur][n]
      BY <1>1, <1>2, <1>4, <1>6 DEF Setting
    <2> QED
      BY <1>1, <1>3, <2>1, Untouched
  <1> QED
    BY <1>5, <1>6

LEMMA AgreeingSent ==
    ASSUME IInv, WatchInv, cur \in Sessions, cur \notin down, NEW n \in Name, Agreeing(n),
           ~swallowed' => ~swallowed, SendDir
    PROVE  Agreeing(n)'
  <1>1. PICK s \in setting : /\ setting' = setting \ {s}
                             /\ toClient' = Sent(toClient, s.session, <<s.message>>)
    BY DEF SendDir
  <1> DEFINE k == s.session
             m == s.message
  <1>2. k \in Sessions /\ m \in Message /\ m.type = "setDir" /\ (IsOp(m, n) <=> m.name = n)
    BY DEF IInv, TypeOK, WatchInv, RecordsWF, IsOp
  <1>3. UNCHANGED <<cur, config, dir, toServer, tunnels, entryDir, removing>>
    BY DEF SendDir, clientVars, serverVars
  <1>4. /\ (Removing(n)' <=> Removing(n)) /\ Requests(n)' = Requests(n)
        /\ (Registered(n)' <=> Registered(n)) /\ entryDir'[cur'][n] = entryDir[cur][n]
    BY <1>3 DEF Removing, Requests, Registered
  <1>5. CASE k = cur /\ m.name = n
    <2>1. s \in Setting(n)
      BY <1>5 DEF Setting
    <2>2. /\ Setting(n) = {s} /\ Ops(toClient[cur], n) = {} /\ ~Removing(n) /\ Requests(n) = {}
          /\ OneOp(toClient[cur], n)
      BY <2>1 DEF Agreeing, OneAtATime
    <2>3. Setting(n)' = {}
      BY <1>1, <1>3, <2>2 DEF Setting
    <2>4. OneOp(toClient'[cur'], n) /\ Ops(toClient'[cur'], n) = {m}
      BY <1>1, <1>2, <1>3, <1>5, <2>2, OpSent
    <2>5. OneAtATime(n)'
      BY <1>2, <1>4, <2>2, <2>3, <2>4 DEF OneAtATime
    <2>6. Listed(n)'
      BY <1>3, <1>4 DEF Listed, Agreeing
    <2>7. ~swallowed' => Agreed(n)'
      BY <1>2, <1>3, <1>4, <2>1, <2>2, <2>3, <2>4 DEF Agreed, Agreeing
    <2> QED
      BY <2>5, <2>6, <2>7 DEF Agreeing
  <1>6. CASE ~(k = cur /\ m.name = n)
    <2>1. /\ OneOp(toClient[cur], n) => OneOp(toClient'[cur], n)
          /\ Ops(toClient'[cur], n) = Ops(toClient[cur], n)
      BY <1>1, <1>2, <1>3, <1>6, OthersSent
    <2>2. Setting(n)' = Setting(n)
      BY <1>1, <1>3, <1>6 DEF Setting
    <2> QED
      BY <1>3, <1>4, <2>1, <2>2, Untouched
  <1> QED
    BY <1>5, <1>6

LEMMA AgreeNext ==
    ASSUME IInv, WatchInv, AgreeInv, [WatchNext]_watchVars
    PROVE  AgreeInv'
  <1> SUFFICES ASSUME Up', ~crossed', ~raced', NEW n \in Name
               PROVE  Agreeing(n)'
    BY DEF AgreeInv, Agreeing
  <1>1. [Next]_vars /\ ~crossed /\ ~raced /\ (~swallowed' => ~swallowed)
    BY WatchSteps
  <1>2. /\ cur' = cur /\ cur \in Sessions /\ cur \notin down /\ ~Dial /\ ~SessionEnds
        /\ Up \/ RegisterAll
        /\ ~GiveUp(cur)
    BY <1>1, UpBefore
  <1>3. CASE RegisterAll
    BY <1>1, <1>2, <1>3, AgreeingFirst
  <1>4. CASE ~RegisterAll
    <2>1. Agreeing(n)
      BY <1>1, <1>2, <1>4 DEF AgreeInv, Agreeing
    <2>2. CASE UNCHANGED <<cur, config, dir, toServer, toClient, tunnels, entryDir, removing, setting>>
      BY <1>1, <2>1, <2>2, Untouched DEF Setting, Requests, Removing, Registered
    <2>3. CASE WatchNext /\ Reads
      <3>1. ~swallowed' => ~swallowed /\ ~Swallows
        BY <2>3 DEF WatchNext
      <3> QED
        BY <1>1, <1>2, <1>4, <2>1, <2>3, <3>1, AgreeingOpRead, AgreeingOthersRead
    <2>4. ASSUME NEW k \in Sessions, Server(k) PROVE Agreeing(n)'
      <3>1. CASE Authenticate(k)
        BY <1>1, <1>2, <2>1, <3>1, AgreeingAuthenticated
      <3>2. CASE Registers(k)
        <4>1. CASE RegisterHTTP(k) /\ k = cur /\ Head(toServer[cur]).name = n
          BY <1>1, <1>2, <2>1, <4>1, AgreeingRegistered
        <4>2. CASE RegisterHTTP(k) => k # cur \/ Head(toServer[k]).name # n
          BY <1>1, <1>2, <2>1, <3>2, <4>2, AgreeingOthersRegistered
        <4> QED
          BY <4>1, <4>2
      <3>3. CASE GiveUp(k)
        BY <1>1, <1>2, <2>1, <3>3, AgreeingGivenUp
      <3> QED
        BY <2>4, <3>1, <3>2, <3>3 DEF Server, Registers
    <2>5. CASE Dashboard
      <3>1. ASSUME NEW k \in Sessions, NEW p \in Name, AddTunnel(k, p) PROVE Agreeing(n)'
        BY <1>1, <1>2, <2>1, <3>1, AgreeingAdd
      <3>2. ASSUME NEW k \in Sessions, NEW p \in Name, RemoveTunnel(k, p) PROVE Agreeing(n)'
        BY <1>1, <1>2, <2>1, <3>2, AgreeingRemove
      <3>3. CASE RemoveTunnelByName
        BY <1>1, <1>2, <2>1, <3>3, AgreeingRemoved
      <3>4. ASSUME NEW k \in Sessions, NEW p \in Name, NEW d \in Dir \cup {None},
                   SetEntryDir(k, p, d)
            PROVE  Agreeing(n)'
        BY <1>1, <1>2, <2>1, <3>4, AgreeingSet
      <3>5. CASE SendDir
        BY <1>1, <1>2, <2>1, <3>5, AgreeingSent
      <3> QED
        BY <2>5, <3>1, <3>2, <3>3, <3>4, <3>5 DEF Dashboard
    <2>6. CASE \E k \in Sessions : Break(k)
      BY <2>2, <2>6 DEF Break, clientVars, serverVars, dashVars
    <2>7. CASE UNCHANGED watchVars
      BY <2>2, <2>7 DEF watchVars, vars, clientVars, serverVars, dashVars
    <2>8. ASSUME WatchNext, Client PROVE Reads
      BY <1>2, <2>8 DEF Client, Reads
    <2>9. WatchNext => Next
      BY DEF WatchNext
    <2> QED
      BY <2>3, <2>4, <2>5, <2>6, <2>7, <2>8, <2>9 DEF Next
  <1> QED
    BY <1>3, <1>4

-----------------------------------------------------------------------------
(* The theorems of the record *)

(* What holds of the record always.                                        *)
LEMMA WatchInvariant == WatchSpec => [](IInv /\ WatchInv /\ RestoreInv /\ AgreeInv)
  <1> DEFINE Inv == IInv /\ WatchInv /\ RestoreInv /\ AgreeInv
  <1>1. WatchInit => Inv
    BY InvariantInit, WatchInvInit DEF WatchInit
  <1>2. Inv /\ [WatchNext]_watchVars => Inv'
    <2> SUFFICES ASSUME Inv, [WatchNext]_watchVars PROVE Inv'
      OBVIOUS
    <2>1. [Next]_vars
      BY WatchSteps
    <2>2. IInv'
      BY <2>1, InvariantNext
    <2>3. WatchInv'
      BY <2>1, SessionsWFNext, TunnelsNext, ClientAsksNext, RecordsWFNext DEF WatchInv
    <2> QED
      BY <2>2, <2>3, RestoreNext, AgreeNext
  <1> HIDE DEF Inv
  <1>3. WatchSpec => []Inv
    BY <1>1, <1>2, PTL DEF WatchSpec
  <1> QED
    BY <1>3 DEF Inv

(* After a reconnect every tunnel of the client's list is routed to it, if *)
(* the server had given its earlier sessions up before it opened the new   *)
(* one and the dashboard has done nothing: for any number of tunnels and   *)
(* breaks, wherever they fall.                                             *)
THEOREM RestoredIfGivenUp == WatchSpec => []RestoredUnlessOverlap
  <1>1. IInv /\ RestoreInv => RestoredUnlessOverlap
    <2> SUFFICES ASSUME IInv, RestoreInv, Quiet, ops = 0, ~overlap, NEW i \in DOMAIN config
                 PROVE  route[config[i]] = cur
      BY DEF RestoredUnlessOverlap, Restored
    <2>1. config[i] \in ToSet(config)
      BY DEF ToSet
    <2>2. ToSet(toServer[cur]) = {}
      BY DEF Quiet, ToSet
    <2>3. config[i] \in ToSet(tunnels[cur])
      BY <2>1, <2>2 DEF RestoreInv, Up, Quiet
    <2> QED
      BY <2>3 DEF RestoreInv, Up, Quiet
  <1> QED
    BY <1>1, WatchInvariant, PTL

(* A subdomain is lost only when its own session ends or its own tunnel is *)
(* removed, as long as no two handlers have been past the check of one     *)
(* subdomain together: without that the late end of an old session can     *)
(* delete the route of the new one.                                        *)
THEOREM RoutesLostByOwner == WatchSpec => RouteLostByOwnerOnly
  <1> DEFINE Lost == ~raced' => \A n \in Name : route[n] # 0 /\ route'[n] # route[n] =>
                         \/ handler'[route[n]] = "done"
                         \/ removing = [session |-> route[n], name |-> n]
  <1>1. IInv /\ WatchInv /\ [WatchNext]_watchVars => [Lost]_watchVars
    <2> SUFFICES ASSUME IInv, WatchInv, [WatchNext]_watchVars, ~raced',
                        NEW n \in Name, route[n] # 0, route'[n] # route[n]
                 PROVE  \/ handler'[route[n]] = "done"
                        \/ removing = [session |-> route[n], name |-> n]
      OBVIOUS
    <2>0. /\ tunnels \in [Sessions -> Seq(Name)]
          /\ route \in [Name -> 0..MaxSession]
          /\ handler \in [Sessions -> {"none", "auth", "loop", "register", "done"}]
          /\ removing \in [session : Sessions, name : Name] \cup {None}
          /\ [Next]_vars /\ ~raced
      BY WatchSteps DEF IInv, TypeOK
    <2>1. ASSUME NEW k \in Sessions, RegisterHTTP(k) PROVE FALSE
      <3>1. n = Head(toServer[k]).name
        BY <2>0, <2>1 DEF RegisterHTTP
      <3>2. Registering(k, n)
        BY <2>1, <3>1 DEF RegisterHTTP, Registering
      <3> QED
        BY <2>0, <3>2 DEF WatchInv, TunnelsWF
    <2>2. ASSUME NEW k \in Sessions, GiveUp(k) PROVE handler'[route[n]] = "done"
      <3>1. n \in ToSet(tunnels[k])
        BY <2>2 DEF GiveUp, RemoveClient
      <3>2. route[n] = k
        BY <2>0, <3>1 DEF WatchInv, TunnelsWF
      <3> QED
        BY <2>0, <2>2, <3>2 DEF GiveUp
    <2>3. ASSUME RemoveTunnelByName
          PROVE  removing = [session |-> route[n], name |-> n]
      <3>1. /\ removing \in [session : Sessions, name : Name]
            /\ removing.session \in Sessions /\ removing.name \in Name
        BY <2>0, <2>3 DEF RemoveTunnelByName
      <3>2. n = removing.name /\ n \in ToSet(tunnels[removing.session])
        BY <2>0, <2>3, <3>1 DEF RemoveTunnelByName
      <3>3. route[n] = removing.session
        BY <2>0, <3>1, <3>2 DEF WatchInv, TunnelsWF
      <3> QED
        BY <3>1, <3>2, <3>3
    <2> QED
      BY <2>0, <2>1, <2>2, <2>3, Moves
  <1>2. WatchSpec => [][Lost]_watchVars
    BY <1>1, WatchInvariant, PTL DEF WatchSpec
  <1> QED
    BY <1>2 DEF RouteLostByOwnerOnly

(* When nothing is under way the server's copy of a tunnel's directory is  *)
(* the client's, through any number of operations of the dashboard, breaks *)
(* and reconnects, as long as no operation on a tunnel is begun while      *)
(* another on it is under way, no two handlers race for a subdomain and    *)
(* connect has read no new directory for a reply.                          *)
THEOREM DirectoriesAgree == WatchSpec => []DirsAgree
  <1>1. IInv /\ AgreeInv => DirsAgree
    <2> SUFFICES ASSUME IInv, AgreeInv, Quiet, ~swallowed, ~crossed, ~raced,
                        NEW n \in ToSet(config) \cap ToSet(tunnels[cur]), Once(config, n)
                 PROVE  entryDir[cur][n] = dir[n]
      BY DEF DirsAgree
    <2>1. n \in Name
      BY DEF IInv, TypeOK, ToSet
    <2>2. Agreed(n)
      BY <2>1 DEF AgreeInv, Up, Quiet
    <2>3. Ops(toClient[cur], n) = {} /\ Setting(n) = {}
      BY DEF Ops, Setting, Quiet, ToSet
    <2> QED
      BY <2>2, <2>3 DEF Agreed, Registered
  <1> QED
    BY <1>1, WatchInvariant, PTL

(* Nor has the server then a tunnel that the client does not list, even if *)
(* connect has read operations for replies.                                *)
THEOREM NoneStrays == WatchSpec => []NoStrayTunnel
  <1>1. IInv /\ AgreeInv => NoStrayTunnel
    <2> SUFFICES ASSUME IInv, AgreeInv, Quiet, ~crossed, ~raced,
                        NEW n \in ToSet(tunnels[cur])
                 PROVE  n \in ToSet(config)
      BY DEF NoStrayTunnel
    <2>1. cur \in Sessions /\ tunnels[cur] \in Seq(Name)
      BY DEF IInv, TypeOK, ClientWF, Quiet
    <2>2. n \in Name
      BY <2>1 DEF ToSet
    <2>3. Listed(n)
      BY <2>2 DEF AgreeInv, Up, Quiet
    <2>4. [session |-> cur, name |-> n] \in [session : Sessions, name : Name]
      BY <2>1, <2>2
    <2>5. ~Removing(n)
      BY <2>4, NoneAssumption DEF Quiet, Removing, Sessions
    <2> QED
      BY <2>3, <2>5 DEF Listed, Registered
  <1> QED
    BY <1>1, WatchInvariant, PTL
=============================================================================
