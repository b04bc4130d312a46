--------------------------- MODULE RegistryProofs ---------------------------
(***************************************************************************)
(* Proofs about Registry, for any number of sessions, names, ports and     *)
(* messages.                                                               *)
(***************************************************************************)
EXTENDS Registry, SequenceLemmas

(* The route tables with some keys cleared. *)
LEMMA WithoutSubdomains ==
    ASSUME bySubdomain \in [Name -> Session \cup {None}], NEW keys
    PROVE  /\ Without(bySubdomain, keys) \in [Name -> Session \cup {None}]
           /\ \A n \in Name : Without(bySubdomain, keys)[n] =
                                 IF n \in keys THEN None ELSE bySubdomain[n]
  BY DEF Without

LEMMA WithoutPorts ==
    ASSUME byPort \in [Port -> Session \cup {None}], NEW keys
    PROVE  /\ Without(byPort, keys) \in [Port -> Session \cup {None}]
           /\ \A p \in Port : Without(byPort, keys)[p] =
                                 IF p \in keys THEN None ELSE byPort[p]
  BY DEF Without

(* A list of tunnels whose listeners are closed. *)
LEMMA ClosedTunnels ==
    ASSUME NEW q \in Seq(Tunnel)
    PROVE  /\ CloseListeners(q) \in Seq(Tunnel)
           /\ DOMAIN CloseListeners(q) = DOMAIN q
           /\ \A i \in DOMAIN q : /\ CloseListeners(q)[i].open = FALSE
                                  /\ CloseListeners(q)[i].name = q[i].name
                                  /\ CloseListeners(q)[i].type = q[i].type
                                  /\ CloseListeners(q)[i].port = q[i].port
                                  /\ CloseListeners(q)[i].subdomain = q[i].subdomain
  <1>1. ASSUME NEW t \in Tunnel
        PROVE  LET c == [t EXCEPT !.open = FALSE]
               IN  /\ c \in Tunnel
                   /\ c.open = FALSE
                   /\ c.name = t.name
                   /\ c.type = t.type
                   /\ c.port = t.port
                   /\ c.subdomain = t.subdomain
    BY DEF Tunnel
  <1>2. DOMAIN q = 1..Len(q) /\ Len(q) \in Nat /\ \A i \in 1..Len(q) : q[i] \in Tunnel
    OBVIOUS
  <1>3. CloseListeners(q) \in [1..Len(q) -> Tunnel]
    BY <1>1, <1>2 DEF CloseListeners
  <1>4. CloseListeners(q) \in Seq(Tunnel)
    BY <1>2, <1>3
  <1> QED
    BY <1>1, <1>2, <1>4 DEF CloseListeners

(* The tunnels the two kinds of registration create are tunnels. *)
LEMMA NewTunnels ==
    ASSUME NEW r \in Request
    PROVE  /\ HttpTunnel(r) \in Tunnel
           /\ HttpTunnel(r).subdomain \in Name
           /\ \A p \in Port : TcpTunnel(r, p) \in Tunnel
  BY NoneAssumption DEF Request, HttpTunnel, TcpTunnel, Tunnel

-----------------------------------------------------------------------------
(* Type correctness *)

LEMMA TypeInit == Init => TypeOK
  <1> SUFFICES ASSUME Init PROVE TypeOK
    OBVIOUS
  <1> USE DEF Init
  <1>1. /\ tunnels \in [Session -> Seq(Tunnel)]
        /\ visit \in [Visitor -> Visit]
        /\ \A v \in Visitor : visit[v].pc = "idle"
    BY DEF Visit, Idle
  <1>2. /\ pc \in [Session -> HandlerState]
        /\ port \in [Session -> Nat]
        /\ received \in [Session -> 0..MaxMessages]
    BY BoundAssumption DEF HandlerState
  <1>3. HandlerWF
    BY DEF HandlerWF, Registering
  <1>4. VisitWF
    BY <1>1 DEF VisitWF
  <1> QED
    BY <1>1, <1>2, <1>3, <1>4 DEF TypeOK

(* A step that changes neither the handlers nor the requests keeps what    *)
(* they rely on.                                                           *)
LEMMA HandlerWFStutter == HandlerWF /\ UNCHANGED <<pc, reg, port>> => HandlerWF'
  BY DEF HandlerWF

LEMMA VisitWFStutter == VisitWF /\ UNCHANGED visit => VisitWF'
  BY DEF VisitWF

LEMMA TypeNext == TypeOK /\ [Next]_vars => TypeOK'
  <1> SUFFICES ASSUME TypeOK, [Next]_vars PROVE TypeOK'
    OBVIOUS
  <1> USE PortAssumption, BoundAssumption, NoneAssumption
  <1> USE HandlerWFStutter, VisitWFStutter
  <1> USE DEF TypeOK, HandlerState, Registered, Registering, Goto,
              registryVars, handlerVars
  <1>1. ASSUME NEW s \in Session, AuthOK(s) PROVE TypeOK'
    BY <1>1 DEF AuthOK, HandlerWF
  <1>2. ASSUME NEW s \in Session, AuthFail(s) PROVE TypeOK'
    BY <1>2 DEF AuthFail, HandlerWF
  <1>3. ASSUME NEW s \in Session, AddClient(s) PROVE TypeOK'
    BY <1>3 DEF AddClient, HandlerWF
  <1>4. ASSUME NEW s \in Session, NEW r \in Requests[s], RecvRegister(s, r)
        PROVE TypeOK'
    <2>1. r \in Request
      BY RequestAssumption
    <2>2. r.port \in Port \cup {0}
      BY <2>1 DEF Request
    <2>3. /\ reg' \in [Session -> Request \cup {None}]
          /\ reg'[s] = r
          /\ port' \in [Session -> Nat]
          /\ port'[s] = IF r.port = 0 THEN TCPPortMin ELSE r.port
          /\ received' \in [Session -> 0..MaxMessages]
      <3>1. reg' = [reg EXCEPT ![s] = r]
        BY <1>4 DEF RecvRegister
      <3>2. port' = [port EXCEPT ![s] = IF r.port = 0 THEN TCPPortMin ELSE r.port]
        BY <1>4 DEF RecvRegister
      <3>3. (IF r.port = 0 THEN TCPPortMin ELSE r.port) \in Nat
        BY <2>2
      <3>4. received' \in [Session -> 0..MaxMessages]
        BY <1>4 DEF RecvRegister
      <3> QED
        BY <2>1, <3>1, <3>2, <3>3, <3>4
    <2>4. \/ pc'[s] \in {"httpCheck", "loop"}
          \/ pc'[s] = "tcpCheck" /\ r.port # 0
          \/ pc'[s] = "tcpPick" /\ r.port = 0 /\ TCPPortMin # 0
      BY <1>4 DEF RecvRegister
    <2>5. pc' \in [Session -> HandlerState]
      BY <1>4, ZenonT(30) DEF RecvRegister
    <2>6. TCPPortMin # 0 => TCPPortMin \in TCPPortMin..(TCPPortMax + 1)
      OBVIOUS
    <2>7. HandlerWF'
      <3> SUFFICES ASSUME NEW t \in Session PROVE
            /\ pc'[t] \in Registering => reg'[t] \in Request
            /\ pc'[t] \in {"tcpCheck", "tcpListen", "tcpRegister"} => port'[t] \in Port
            /\ pc'[t] = "tcpPick" =>
                   TCPPortMin # 0 /\ port'[t] \in TCPPortMin..(TCPPortMax + 1)
        BY DEF HandlerWF
      <3>1. CASE t = s
        BY <3>1, <2>1, <2>2, <2>3, <2>4, <2>6
      <3>2. CASE t # s
        BY <3>2, <1>4 DEF RecvRegister, HandlerWF
      <3> QED
        BY <3>1, <3>2
    <2> QED
      BY <1>4, <2>3, <2>5, <2>7 DEF RecvRegister
  <1>5. ASSUME NEW s \in Session, LoopExit(s) PROVE TypeOK'
    BY <1>5 DEF LoopExit, HandlerWF
  <1>6. ASSUME NEW s \in Session, RemoveClient(s) PROVE TypeOK'
    <2>1. bySubdomain' \in [Name -> Session \cup {None}]
      BY <1>6, WithoutSubdomains DEF RemoveClient
    <2>2. byPort' \in [Port -> Session \cup {None}]
      BY <1>6, WithoutPorts DEF RemoveClient
    <2>3. tunnels' \in [Session -> Seq(Tunnel)]
      BY <1>6, ClosedTunnels DEF RemoveClient
    <2>4. HandlerWF'
      BY <1>6 DEF RemoveClient, HandlerWF
    <2> QED
      BY <1>6, <2>1, <2>2, <2>3, <2>4 DEF RemoveClient
  <1>7. ASSUME NEW s \in Session, HttpCheck(s) PROVE TypeOK'
    BY <1>7 DEF HttpCheck, HandlerWF
  <1>8. ASSUME NEW s \in Session, HttpCheckApp(s) PROVE TypeOK'
    BY <1>8 DEF HttpCheckApp, HandlerWF
  <1>9. ASSUME NEW s \in Session, RegisterHTTP(s) PROVE TypeOK'
    <2>1. HttpTunnel(reg[s]) \in Tunnel /\ SubdomainOf(s) \in Name
      BY <1>9, NewTunnels DEF RegisterHTTP, SubdomainOf, HandlerWF
    <2>2. HandlerWF'
      BY <1>9 DEF RegisterHTTP, HandlerWF
    <2> QED
      BY <1>9, <2>1, <2>2 DEF RegisterHTTP
  <1>10. ASSUME NEW s \in Session, TcpPick(s) PROVE TypeOK'
    <2>1. /\ port[s] \in TCPPortMin..(TCPPortMax + 1)
          /\ TCPPortMin # 0
          /\ reg[s] \in Request
      BY <1>10 DEF TcpPick, HandlerWF
    <2>2. port[s] <= TCPPortMax =>
            port[s] \in Port /\ port[s] + 1 \in TCPPortMin..(TCPPortMax + 1)
      BY <2>1
    <2>3. CASE UNCHANGED port /\ pc' = [pc EXCEPT ![s] = "loop"]
      BY <1>10, <2>3 DEF TcpPick, HandlerWF
    <2>4. CASE /\ UNCHANGED port /\ pc' = [pc EXCEPT ![s] = "tcpCheck"]
               /\ port[s] <= TCPPortMax
      BY <1>10, <2>1, <2>2, <2>4 DEF TcpPick, HandlerWF
    <2>5. CASE /\ UNCHANGED pc /\ port' = [port EXCEPT ![s] = @ + 1]
               /\ port[s] <= TCPPortMax
      <3>1. port' \in [Session -> Nat] /\ port'[s] = port[s] + 1
        BY <2>1, <2>5
      <3>2. HandlerWF'
        BY <1>10, <2>1, <2>2, <2>5, <3>1 DEF TcpPick, HandlerWF
      <3> QED
        BY <1>10, <2>5, <3>1, <3>2 DEF TcpPick
    <2> QED
      BY <1>10, <2>3, <2>4, <2>5 DEF TcpPick
  <1>11. ASSUME NEW s \in Session, TcpCheck(s) PROVE TypeOK'
    BY <1>11 DEF TcpCheck, HandlerWF
  <1>12. ASSUME NEW s \in Session, TcpListen(s) \/ TcpListenErr(s) PROVE TypeOK'
    BY <1>12, ZenonT(30) DEF TcpListen, TcpListenErr, HandlerWF
  <1>13. ASSUME NEW s \in Session, RegisterTCP(s) PROVE TypeOK'
    <2>1. TcpTunnel(reg[s], port[s]) \in Tunnel
      BY <1>13, NewTunnels DEF RegisterTCP, HandlerWF
    <2>2. HandlerWF'
      BY <1>13 DEF RegisterTCP, HandlerWF
    <2>3. byPort' \in [Port -> Session \cup {None}]
      BY <1>13 DEF RegisterTCP, HandlerWF
    <2>4. tunnels' \in [Session -> Seq(Tunnel)]
      BY <1>13, <2>1 DEF RegisterTCP
    <2> QED
      BY <1>13, <2>2, <2>3, <2>4 DEF RegisterTCP
  <1>14. ASSUME NEW s \in Session, NEW n \in Name, RemoveTunnelByName(s, n)
         PROVE TypeOK'
    <2> PICK i \in DOMAIN tunnels[s] :
          /\ bySubdomain' = Without(bySubdomain, {tunnels[s][i].subdomain})
          /\ byPort' = Without(byPort, {tunnels[s][i].port})
          /\ tunnels' = [tunnels EXCEPT ![s] = RemoveAt(@, i)]
      BY <1>14 DEF RemoveTunnelByName
    <2>1. bySubdomain' \in [Name -> Session \cup {None}]
      BY WithoutSubdomains
    <2>2. byPort' \in [Port -> Session \cup {None}]
      BY WithoutPorts
    <2>3. RemoveAt(tunnels[s], i) \in Seq(Tunnel)
      BY RemoveAtElements
    <2> QED
      BY <1>14, <2>1, <2>2, <2>3 DEF RemoveTunnelByName
  <1>15. ASSUME NEW s \in Session, DisconnectClient(s) \/ SessionDies(s)
         PROVE TypeOK'
    BY <1>15 DEF DisconnectClient, SessionDies
  <1>16. CASE CloseAll
    <2>1. tunnels' \in [Session -> Seq(Tunnel)]
      BY <1>16, ClosedTunnels DEF CloseAll
    <2> QED
      BY <1>16, <2>1 DEF CloseAll
  <1>17. ASSUME NEW n \in Name, DeployedAppsChange(n) PROVE TypeOK'
    BY <1>17 DEF DeployedAppsChange
  <1>18. ASSUME NEW v \in Visitor, NEW n \in Name, Arrive(v, n) PROVE TypeOK'
    BY <1>18 DEF Arrive, Visit, VisitWF
  <1>19. ASSUME NEW v \in Visitor, LookupHTTP(v) PROVE TypeOK'
    <2> DEFINE e == bySubdomain[visit[v].subdomain]
    <2>1. e \in Session \cup {None} /\ visit[v].subdomain \in Name
      BY <1>19 DEF LookupHTTP, VisitWF
    <2>2. /\ visit' \in [Visitor -> Visit]
          /\ visit'[v].entry = e
          /\ visit'[v].subdomain = visit[v].subdomain
          /\ visit'[v].pc = IF e = None THEN "app" ELSE "find"
      BY <1>19, <2>1 DEF LookupHTTP, Visit
    <2>3. VisitWF'
      BY <1>19, <2>1, <2>2 DEF LookupHTTP, VisitWF
    <2> QED
      BY <1>19, <2>2, <2>3 DEF LookupHTTP
  <1>20. ASSUME NEW v \in Visitor, LoadApp(v) \/ FindTunnel(v) \/ Finish(v)
         PROVE TypeOK'
    <2>0. \A l \in {"promoted", "none", "tunnel", "missing"} :
            /\ [visit[v] EXCEPT !.pc = l] \in Visit
            /\ [visit[v] EXCEPT !.pc = l].pc = l
      BY ZenonT(30) DEF Visit
    <2>1. PICK new \in Visit :
            /\ visit' = [visit EXCEPT ![v] = new]
            /\ new.pc \notin {"lookup", "app", "find"}
      <3>1. CASE LoadApp(v)
        <4>1. PICK l \in {"promoted", "none"} :
                visit' = [visit EXCEPT ![v] = [visit[v] EXCEPT !.pc = l]]
          BY <3>1 DEF LoadApp
        <4> QED
          BY <4>1, <2>0
      <3>2. CASE FindTunnel(v)
        <4>1. PICK l \in {"tunnel", "missing"} :
                visit' = [visit EXCEPT ![v] = [visit[v] EXCEPT !.pc = l]]
          BY <3>2 DEF FindTunnel
        <4> QED
          BY <4>1, <2>0
      <3>3. CASE Finish(v)
        <4>1. Idle \in Visit /\ Idle.pc = "idle"
          BY DEF Idle, Visit
        <4> QED
          BY <3>3, <4>1 DEF Finish
      <3> QED
        BY <1>20, <3>1, <3>2, <3>3
    <2>2. visit' \in [Visitor -> Visit]
      BY <2>1
    <2>3. VisitWF'
      BY <2>1 DEF VisitWF
    <2> QED
      BY <1>20, <2>2, <2>3 DEF LoadApp, FindTunnel, Finish
  <1>21. CASE UNCHANGED vars
    BY <1>21 DEF vars
  <1> QED
    BY <1>1, <1>2, <1>3, <1>4, <1>5, <1>6, <1>7, <1>8, <1>9, <1>10, <1>11,
       <1>12, <1>13, <1>14, <1>15, <1>16, <1>17, <1>18, <1>19, <1>20, <1>21
    DEF Next, Handler, Operator, Public

(* Every variable keeps its type in every reachable state. *)
THEOREM TypeCorrect == Spec => []TypeOK
  BY TypeInit, TypeNext, PTL DEF Spec

-----------------------------------------------------------------------------
(* The inductive invariant *)

LEMMA TunnelFields ==
    ASSUME NEW t \in Tunnel
    PROVE  /\ t.type \in {"http", "tcp"}
           /\ t.type = "http" => /\ t.open = FALSE
                                 /\ t.port = 0
                                 /\ t.subdomain \in Name
           /\ t.type = "tcp" => t.port \in Port /\ t.subdomain = None
  BY DEF Tunnel

LEMMA TunnelsTyped ==
    ASSUME TypeOK, NEW s \in Session
    PROVE  /\ tunnels[s] \in Seq(Tunnel)
           /\ DOMAIN tunnels[s] = 1..Len(tunnels[s])
           /\ Len(tunnels[s]) \in Nat
           /\ \A i \in DOMAIN tunnels[s] : tunnels[s][i] \in Tunnel
  BY DEF TypeOK

(* A step that leaves the registry alone, puts no handler between         *)
(* net.Listen and registerTCP and takes none in or out of its loop.       *)
LEMMA QuietStep ==
    ASSUME IInv, TypeOK', UNCHANGED <<registryVars, down>>,
           \A s \in Session : pc[s] \in Registered <=> pc'[s] \in Registered,
           \A s \in Session : pc'[s] \in {"new", "authed"} => pc[s] \in {"new", "authed"},
           \A s \in Session : pc'[s] = "tcpRegister" =>
                                pc[s] = "tcpRegister" /\ port'[s] = port[s]
    PROVE  IInv'
  <1> USE DEF IInv, registryVars
  <1>1. EntryWhileHandled'
    BY DEF EntryWhileHandled
  <1>2. NoDanglingRoute'
    BY DEF NoDanglingRoute
  <1>3. ListenersLive'
    BY DEF ListenersLive
  <1>4. OneListener'
    BY DEF OneListener, OneTunnelPerPort, OneOpeningPerPort, OpeningIsUnbound
  <1>5. PortTableExact'
    BY DEF PortTableExact
  <1>6. FreshIsEmpty'
    BY DEF FreshIsEmpty
  <1> QED
    BY <1>1, <1>2, <1>3, <1>4, <1>5, <1>6

(* Closing listeners and opening none keeps ports apart. *)
LEMMA FewerListeners ==
    ASSUME OneListener,
           \A s \in Session : \A i \in DOMAIN tunnels'[s] :
               tunnels'[s][i].open => /\ i \in DOMAIN tunnels[s]
                                      /\ tunnels'[s][i] = tunnels[s][i],
           \A s \in Session : pc'[s] = "tcpRegister" =>
                                pc[s] = "tcpRegister" /\ port'[s] = port[s]
    PROVE  OneListener'
  <1>1. OneTunnelPerPort'
    BY DEF OneListener, OneTunnelPerPort
  <1>2. OneOpeningPerPort'
    BY DEF OneListener, OneOpeningPerPort
  <1>3. OpeningIsUnbound'
    BY DEF OneListener, OpeningIsUnbound
  <1> QED
    BY <1>1, <1>2, <1>3 DEF OneListener

LEMMA InitIInv == Init => IInv
  <1> SUFFICES ASSUME Init PROVE IInv
    OBVIOUS
  <1>1. TypeOK
    BY TypeInit
  <1>2. EntryWhileHandled
    BY DEF Init, EntryWhileHandled, Registered, Registering
  <1>3. NoDanglingRoute
    BY DEF Init, NoDanglingRoute
  <1>4. ListenersLive /\ OneListener
    BY DEF Init, ListenersLive, OneListener, OneTunnelPerPort, OneOpeningPerPort,
           OpeningIsUnbound
  <1>5. PortTableExact
    BY DEF Init, PortTableExact
  <1>6. FreshIsEmpty
    BY DEF Init, FreshIsEmpty
  <1> QED
    BY <1>1, <1>2, <1>3, <1>4, <1>5, <1>6 DEF IInv

LEMMA AddClientStep ==
    ASSUME IInv, TypeOK', NEW s \in Session, AddClient(s)
    PROVE  IInv'
  <1> USE DEF IInv, AddClient, Goto
  <1>1. EntryWhileHandled'
    BY DEF EntryWhileHandled, Registered, Registering, TypeOK
  <1>2. FreshIsEmpty'
    BY DEF FreshIsEmpty, TypeOK
  <1>3. NoDanglingRoute'
    BY DEF NoDanglingRoute
  <1>4. ListenersLive'
    BY DEF ListenersLive
  <1>5. OneListener'
    BY DEF OneListener, OneTunnelPerPort, OneOpeningPerPort, OpeningIsUnbound, TypeOK
  <1>6. PortTableExact'
    <2>1. tunnels[s] = <<>> /\ tunnels' = tunnels
      BY DEF FreshIsEmpty
    <2>2. \A i \in DOMAIN tunnels[s] : FALSE
      BY <2>1
    <2> QED
      BY <2>1, <2>2 DEF PortTableExact
  <1> QED
    BY <1>1, <1>2, <1>3, <1>4, <1>5, <1>6

(* Afterwards no tunnel of s listens, and no route leads to one. *)
LEMMA RemoveClientStep ==
    ASSUME IInv, TypeOK', NEW s \in Session, RemoveClient(s)
    PROVE  IInv'
  <1> USE DEF IInv, Goto
  <1>1. /\ pc[s] = "exiting" /\ s \in byID
        /\ pc' = [pc EXCEPT ![s] = "done"]
        /\ byID' = byID \ {s}
        /\ UNCHANGED <<port, down>>
    BY DEF RemoveClient, EntryWhileHandled, Registered, Registering
  <1>2. /\ \A t \in Session \ {s} : tunnels'[t] = tunnels[t]
        /\ DOMAIN tunnels'[s] = DOMAIN tunnels[s]
        /\ \A i \in DOMAIN tunnels[s] :
             tunnels'[s][i].open = FALSE
    <2>1. tunnels' = [tunnels EXCEPT ![s] = CloseListeners(tunnels[s])]
      BY DEF RemoveClient
    <2>2. tunnels'[s] = CloseListeners(tunnels[s])
          /\ \A t \in Session \ {s} : tunnels'[t] = tunnels[t]
      BY <2>1 DEF TypeOK
    <2>3. tunnels[s] \in Seq(Tunnel)
      BY DEF TypeOK
    <2>4. /\ DOMAIN CloseListeners(tunnels[s]) = DOMAIN tunnels[s]
          /\ \A i \in DOMAIN tunnels[s] : CloseListeners(tunnels[s])[i].open = FALSE
          /\ \A i \in DOMAIN tunnels[s] :
               CloseListeners(tunnels[s])[i].subdomain = tunnels[s][i].subdomain
      BY <2>3, ClosedTunnels
    <2> QED
      BY <2>2, <2>4
  <1>3. \A n \in Name : bySubdomain'[n] =
            IF n \in Subdomains(s) THEN None ELSE bySubdomain[n]
    BY WithoutSubdomains DEF RemoveClient, TypeOK
  <1>4. \A p \in Port : byPort'[p] =
            IF p \in Ports(s) THEN None ELSE byPort[p]
    BY WithoutPorts DEF RemoveClient, TypeOK
  <1>5. EntryWhileHandled'
    BY <1>1 DEF EntryWhileHandled, Registered, Registering, TypeOK
  <1>6. FreshIsEmpty'
    BY <1>1, <1>2 DEF FreshIsEmpty, TypeOK
  <1>7. NoDanglingRoute'
    <2> SUFFICES ASSUME NEW n \in Name, bySubdomain'[n] # None
                 PROVE  /\ bySubdomain'[n] \in byID'
                        /\ \E i \in DOMAIN tunnels'[bySubdomain'[n]] :
                             tunnels'[bySubdomain'[n]][i].subdomain = n
      BY DEF NoDanglingRoute
    <2>1. bySubdomain'[n] = bySubdomain[n] /\ n \notin Subdomains(s)
      BY <1>3
    <2>2. /\ bySubdomain[n] \in byID
          /\ \E i \in DOMAIN tunnels[bySubdomain[n]] :
               tunnels[bySubdomain[n]][i].subdomain = n
      BY <2>1 DEF NoDanglingRoute
    <2>3. bySubdomain[n] \in Session \ {s}
      BY <2>1, <2>2 DEF Subdomains, TypeOK
    <2> QED
      BY <1>1, <1>2, <2>1, <2>2, <2>3
  <1>8. ListenersLive'
    BY <1>1, <1>2 DEF ListenersLive
  <1>9. OneListener'
    <2>1. \A t \in Session : \A i \in DOMAIN tunnels'[t] :
            tunnels'[t][i].open => /\ i \in DOMAIN tunnels[t]
                                   /\ tunnels'[t][i] = tunnels[t][i]
      BY <1>2
    <2> QED
      BY <1>1, <2>1, FewerListeners DEF OneListener, TypeOK
  <1>10. PortTableExact'
    <2>1. ASSUME ~down, NEW t \in byID', NEW i \in DOMAIN tunnels'[t],
                 tunnels'[t][i].type = "tcp"
          PROVE  tunnels'[t][i].open /\ byPort'[tunnels'[t][i].port] = t
      <3>1. t # s /\ t \in byID /\ t \in Session /\ tunnels'[t] = tunnels[t]
        BY <1>1, <1>2 DEF TypeOK
      <3> DEFINE p == tunnels[t][i].port
      <3>2. tunnels[t][i].open /\ byPort[p] = t /\ p \in Port
        <4>1. i \in DOMAIN tunnels[t] /\ tunnels[t][i].type = "tcp"
          BY <2>1, <3>1
        <4>2. tunnels[t][i] \in Tunnel
          BY <3>1, <4>1, TunnelsTyped
        <4>3. p \in Port
          BY <4>1, <4>2, TunnelFields
        <4> QED
          BY <2>1, <3>1, <4>1, <4>3 DEF PortTableExact
      <3>3. p \notin Ports(s)
        <4> SUFFICES ASSUME NEW j \in DOMAIN tunnels[s], tunnels[s][j].port = p
                     PROVE  FALSE
          BY DEF Ports
        <4>1. tunnels[s][j].type = "tcp"
          BY <3>2, TunnelsTyped, TunnelFields, PortAssumption
        <4> QED
          BY <1>1, <2>1, <3>1, <3>2, <4>1 DEF PortTableExact
      <3> QED
        BY <1>4, <3>1, <3>2, <3>3
    <2>2. ASSUME NEW p \in Port, byPort'[p] # None
          PROVE  /\ byPort'[p] \in byID'
                 /\ \E i \in DOMAIN tunnels'[byPort'[p]] :
                      tunnels'[byPort'[p]][i].port = p
      <3>1. byPort'[p] = byPort[p] /\ p \notin Ports(s)
        BY <1>4, <2>2
      <3>2. /\ byPort[p] \in byID
            /\ \E i \in DOMAIN tunnels[byPort[p]] : tunnels[byPort[p]][i].port = p
        BY <2>2, <3>1 DEF PortTableExact
      <3>3. byPort[p] \in Session \ {s}
        BY <3>1, <3>2 DEF Ports, TypeOK
      <3> QED
        BY <1>1, <1>2, <3>1, <3>2, <3>3
    <2>3. UNCHANGED down
      BY <1>1
    <2> QED
      BY <2>1, <2>2, <2>3 DEF PortTableExact
  <1> QED
    BY <1>5, <1>6, <1>7, <1>8, <1>9, <1>10

LEMMA RegisterHTTPStep ==
    ASSUME IInv, TypeOK', NEW s \in Session, RegisterHTTP(s)
    PROVE  IInv'
  <1> USE DEF IInv, Goto
  <1> DEFINE t == HttpTunnel(reg[s])
             n == SubdomainOf(s)
             k == Len(tunnels[s]) + 1
  <1>1. /\ pc[s] = "httpRegister" /\ s \in byID
        /\ pc' = [pc EXCEPT ![s] = "loop"]
        /\ UNCHANGED <<byID, byPort, port, down>>
    BY DEF RegisterHTTP, EntryWhileHandled, Registered, Registering
  <1>2. t \in Tunnel /\ t.type = "http" /\ t.open = FALSE /\ t.subdomain = n
    BY <1>1, NewTunnels DEF TypeOK, HandlerWF, Registering, HttpTunnel, SubdomainOf
  <1> HIDE DEF t, n
  <1>3. /\ \A r \in Session \ {s} : tunnels'[r] = tunnels[r]
        /\ DOMAIN tunnels'[s] = DOMAIN tunnels[s] \cup {k}
        /\ \A i \in DOMAIN tunnels[s] : tunnels'[s][i] = tunnels[s][i]
        /\ tunnels'[s][k] = t
        /\ k \notin DOMAIN tunnels[s]
    BY <1>2, TunnelsTyped DEF RegisterHTTP, TypeOK, t
  <1>4. bySubdomain' = [bySubdomain EXCEPT ![n] = s]
    BY DEF RegisterHTTP, n
  <1>5. EntryWhileHandled'
    BY <1>1 DEF EntryWhileHandled, Registered, Registering, TypeOK
  <1>6. FreshIsEmpty'
    BY <1>1, <1>3 DEF FreshIsEmpty, TypeOK
  <1>7. NoDanglingRoute'
    <2> SUFFICES ASSUME NEW m \in Name, bySubdomain'[m] # None
                 PROVE  /\ bySubdomain'[m] \in byID
                        /\ \E i \in DOMAIN tunnels'[bySubdomain'[m]] :
                             tunnels'[bySubdomain'[m]][i].subdomain = m
      BY <1>1 DEF NoDanglingRoute
    <2>1. CASE bySubdomain'[m] = s /\ m = n
      BY <1>1, <1>2, <1>3, <2>1
    <2>2. CASE bySubdomain'[m] = bySubdomain[m]
      <3>1. PICK i \in DOMAIN tunnels[bySubdomain[m]] :
              tunnels[bySubdomain[m]][i].subdomain = m
        BY <2>2 DEF NoDanglingRoute
      <3>2. bySubdomain[m] \in byID /\ bySubdomain[m] \in Session
        BY <2>2 DEF NoDanglingRoute, TypeOK
      <3>3. /\ i \in DOMAIN tunnels'[bySubdomain[m]]
            /\ tunnels'[bySubdomain[m]][i].subdomain = m
        BY <1>3, <3>1, <3>2
      <3> QED
        BY <2>2, <3>2, <3>3
    <2> QED
      BY <1>4, <2>1, <2>2 DEF TypeOK
  <1>8. ListenersLive'
    BY <1>1, <1>3 DEF ListenersLive
  <1>9. OneListener'
    <2>1. \A r \in Session : \A i \in DOMAIN tunnels'[r] :
            tunnels'[r][i].open => i \in DOMAIN tunnels[r]
                                   /\ tunnels'[r][i] = tunnels[r][i]
      BY <1>2, <1>3
    <2> QED
      BY <1>1, <2>1, FewerListeners DEF OneListener, TypeOK
  <1>10. PortTableExact'
    <2>1. \A r \in Session : \A i \in DOMAIN tunnels'[r] :
            tunnels'[r][i].type = "tcp" => i \in DOMAIN tunnels[r]
                                           /\ tunnels'[r][i] = tunnels[r][i]
      BY <1>2, <1>3
    <2>2. \A r \in Session : \A i \in DOMAIN tunnels[r] :
            i \in DOMAIN tunnels'[r] /\ tunnels'[r][i] = tunnels[r][i]
      BY <1>3
    <2>3. ASSUME ~down, NEW r \in byID, NEW i \in DOMAIN tunnels'[r],
                 tunnels'[r][i].type = "tcp"
          PROVE  tunnels'[r][i].open /\ byPort[tunnels'[r][i].port] = r
      <3>1. i \in DOMAIN tunnels[r] /\ tunnels'[r][i] = tunnels[r][i]
        BY <2>1, <2>3 DEF TypeOK
      <3> QED
        BY <2>3, <3>1 DEF PortTableExact
    <2>4. ASSUME NEW p \in Port, byPort[p] # None
          PROVE  /\ byPort[p] \in byID
                 /\ \E i \in DOMAIN tunnels'[byPort[p]] :
                      tunnels'[byPort[p]][i].port = p
      <3>1. PICK i \in DOMAIN tunnels[byPort[p]] :
              byPort[p] \in byID /\ tunnels[byPort[p]][i].port = p
        BY <2>4 DEF PortTableExact
      <3>2. byPort[p] \in Session
        BY <3>1 DEF TypeOK
      <3> QED
        BY <2>2, <3>1, <3>2
    <2> QED
      BY <1>1, <2>3, <2>4 DEF PortTableExact
  <1> QED
    BY <1>5, <1>6, <1>7, <1>8, <1>9, <1>10


(* The port is not routed to anybody else: a tunnel that had it would be    *)
(* open, and the handler's listener would not be.                          *)
LEMMA RegisterTCPStep ==
    ASSUME IInv, TypeOK', NEW s \in Session, RegisterTCP(s)
    PROVE  IInv'
  <1> USE DEF IInv, Goto
  <1> DEFINE t == TcpTunnel(reg[s], port[s])
             q == port[s]
             k == Len(tunnels[s]) + 1
  <1>1. /\ pc[s] = "tcpRegister" /\ s \in byID
        /\ pc' = [pc EXCEPT ![s] = "loop"]
        /\ UNCHANGED <<byID, bySubdomain, port, down>>
        /\ q \in Port
    BY DEF RegisterTCP, EntryWhileHandled, Registered, Registering, TypeOK, HandlerWF
  <1>2. t \in Tunnel /\ t.type = "tcp" /\ t.open = TRUE /\ t.port = q
    BY <1>1, NewTunnels DEF TypeOK, HandlerWF, Registering, TcpTunnel
  <1> HIDE DEF t, q
  <1>3. /\ \A r \in Session \ {s} : tunnels'[r] = tunnels[r]
        /\ DOMAIN tunnels'[s] = DOMAIN tunnels[s] \cup {k}
        /\ \A i \in DOMAIN tunnels[s] : tunnels'[s][i] = tunnels[s][i]
        /\ tunnels'[s][k] = t
        /\ k \notin DOMAIN tunnels[s]
    BY <1>2, TunnelsTyped DEF RegisterTCP, TypeOK, t
  <1> HIDE DEF k
  <1>4. byPort' = [byPort EXCEPT ![q] = s]
    BY DEF RegisterTCP, q
  <1>5. \A r \in Session : \A i \in DOMAIN tunnels'[r] :
          \/ r = s /\ i = k /\ tunnels'[r][i] = t
          \/ i \in DOMAIN tunnels[r] /\ tunnels'[r][i] = tunnels[r][i]
    BY <1>3
  <1>6. \A r \in Session : \A i \in DOMAIN tunnels[r] :
          i \in DOMAIN tunnels'[r] /\ tunnels'[r][i] = tunnels[r][i]
    BY <1>3
  <1>7. \A r \in Session : \A i \in DOMAIN tunnels[r] :
          tunnels[r][i].open => tunnels[r][i].port # q
    BY <1>1 DEF OneListener, OpeningIsUnbound, q
  <1>8. \A r \in Session : pc'[r] = "tcpRegister" =>
          r # s /\ pc[r] = "tcpRegister" /\ port'[r] = port[r] /\ port[r] # q
    BY <1>1 DEF OneListener, OneOpeningPerPort, q, TypeOK
  <1>9. EntryWhileHandled'
    BY <1>1 DEF EntryWhileHandled, Registered, Registering, TypeOK
  <1>10. FreshIsEmpty'
    BY <1>1, <1>3 DEF FreshIsEmpty, TypeOK
  <1>11. NoDanglingRoute'
    <2> SUFFICES ASSUME NEW n \in Name, bySubdomain[n] # None
                 PROVE  /\ bySubdomain[n] \in byID
                        /\ \E i \in DOMAIN tunnels'[bySubdomain[n]] :
                             tunnels'[bySubdomain[n]][i].subdomain = n
      BY <1>1 DEF NoDanglingRoute
    <2>1. PICK i \in DOMAIN tunnels[bySubdomain[n]] :
            bySubdomain[n] \in byID /\ tunnels[bySubdomain[n]][i].subdomain = n
      BY DEF NoDanglingRoute
    <2>2. bySubdomain[n] \in Session
      BY <2>1 DEF TypeOK
    <2> QED
      BY <1>6, <2>1, <2>2
  <1>12. ListenersLive'
    BY <1>1, <1>5 DEF ListenersLive
  <1>13. OneListener'
    <2>1. OneTunnelPerPort'
      <3> SUFFICES ASSUME NEW a \in Session, NEW b \in Session,
                          NEW i \in DOMAIN tunnels'[a], NEW j \in DOMAIN tunnels'[b],
                          tunnels'[a][i].open, tunnels'[b][j].open,
                          tunnels'[a][i].port = tunnels'[b][j].port
                   PROVE  a = b /\ i = j
        BY DEF OneTunnelPerPort
      <3>1. CASE a = s /\ i = k /\ b = s /\ j = k
        BY <3>1
      <3>2. CASE a = s /\ i = k /\ ~(b = s /\ j = k)
        <4>1. tunnels'[a][i].port = q
          BY <1>2, <1>3, <3>2
        <4>2. j \in DOMAIN tunnels[b] /\ tunnels'[b][j] = tunnels[b][j]
          BY <1>5, <3>2
        <4> QED
          BY <1>7, <4>1, <4>2
      <3>3. CASE ~(a = s /\ i = k) /\ b = s /\ j = k
        <4>1. tunnels'[b][j].port = q
          BY <1>2, <1>3, <3>3
        <4>2. i \in DOMAIN tunnels[a] /\ tunnels'[a][i] = tunnels[a][i]
          BY <1>5, <3>3
        <4> QED
          BY <1>7, <4>1, <4>2
      <3>4. CASE ~(a = s /\ i = k) /\ ~(b = s /\ j = k)
        BY <1>5, <3>4 DEF OneListener, OneTunnelPerPort
      <3> QED
        BY <3>1, <3>2, <3>3, <3>4
    <2>2. OneOpeningPerPort'
      BY <1>8 DEF OneListener, OneOpeningPerPort
    <2>3. OpeningIsUnbound'
      BY <1>2, <1>5, <1>8 DEF OneListener, OpeningIsUnbound
    <2> QED
      BY <2>1, <2>2, <2>3 DEF OneListener
  <1>14. PortTableExact'
    <2>1. ASSUME ~down, NEW r \in byID, NEW i \in DOMAIN tunnels'[r],
                 tunnels'[r][i].type = "tcp"
          PROVE  tunnels'[r][i].open /\ byPort'[tunnels'[r][i].port] = r
      <3>0. r \in Session
        BY DEF TypeOK
      <3>1. CASE r = s /\ i = k /\ tunnels'[r][i] = t
        BY <1>1, <1>2, <1>4, <3>1 DEF TypeOK
      <3>2. CASE i \in DOMAIN tunnels[r] /\ tunnels'[r][i] = tunnels[r][i]
        <4>1. tunnels[r][i].open /\ byPort[tunnels[r][i].port] = r
          BY <2>1, <3>2 DEF PortTableExact
        <4>2. tunnels[r][i] \in Tunnel
          BY <3>0, <3>2, TunnelsTyped
        <4>3. tunnels[r][i].port \in Port \ {q}
          BY <1>7, <2>1, <3>0, <3>2, <4>1, <4>2, TunnelFields
        <4> QED
          BY <1>4, <3>2, <4>1, <4>3 DEF TypeOK
      <3> QED
        BY <1>5, <3>0, <3>1, <3>2
    <2>2. ASSUME NEW p \in Port, byPort'[p] # None
          PROVE  /\ byPort'[p] \in byID
                 /\ \E i \in DOMAIN tunnels'[byPort'[p]] :
                      tunnels'[byPort'[p]][i].port = p
      <3>1. CASE p = q
        BY <1>1, <1>2, <1>3, <1>4, <3>1 DEF TypeOK
      <3>2. CASE p # q
        <4>1. byPort'[p] = byPort[p]
          BY <1>4, <3>2 DEF TypeOK
        <4>2. PICK i \in DOMAIN tunnels[byPort[p]] :
                byPort[p] \in byID /\ tunnels[byPort[p]][i].port = p
          BY <2>2, <4>1 DEF PortTableExact
        <4>3. byPort[p] \in Session
          BY <4>2 DEF TypeOK
        <4> QED
          BY <1>6, <4>1, <4>2, <4>3
      <3> QED
        BY <3>1, <3>2
    <2> QED
      BY <1>1, <2>1, <2>2 DEF PortTableExact
  <1> QED
    BY <1>9, <1>10, <1>11, <1>12, <1>13, <1>14


(* Where the tunnel at place j was before the one at place i was taken     *)
(* out, and where the one that was at j is afterwards.                     *)
OldPlace(i, j) == IF j < i THEN j ELSE j + 1
NewPlace(i, j) == IF j < i THEN j ELSE j - 1

(* What is left of the tunnels of s after one is taken out.                *)
LEMMA RemovedTunnel ==
    ASSUME TypeOK, NEW s \in Session, NEW i \in DOMAIN tunnels[s],
           tunnels' = [tunnels EXCEPT ![s] = RemoveAt(@, i)]
    PROVE  /\ \A r \in Session : r # s => tunnels'[r] = tunnels[r]
           /\ \A j \in DOMAIN tunnels'[s] :
                /\ OldPlace(i, j) \in DOMAIN tunnels[s]
                /\ OldPlace(i, j) # i
                /\ tunnels'[s][j] = tunnels[s][OldPlace(i, j)]
           /\ \A j \in DOMAIN tunnels[s] :
                j # i => /\ NewPlace(i, j) \in DOMAIN tunnels'[s]
                         /\ tunnels'[s][NewPlace(i, j)] = tunnels[s][j]
           /\ \A j, k \in DOMAIN tunnels'[s] :
                OldPlace(i, j) = OldPlace(i, k) => j = k
  <1>1. /\ tunnels[s] \in Seq(Tunnel)
        /\ tunnels'[s] = RemoveAt(tunnels[s], i)
        /\ \A r \in Session : r # s => tunnels'[r] = tunnels[r]
    BY DEF TypeOK
  <1>2. /\ DOMAIN tunnels[s] = 1..Len(tunnels[s])
        /\ Len(tunnels[s]) \in Nat
        /\ i \in 1..Len(tunnels[s])
    BY <1>1
  <1>3. /\ DOMAIN tunnels'[s] = 1..(Len(tunnels[s]) - 1)
        /\ \A j \in DOMAIN tunnels'[s] :
             tunnels'[s][j] = tunnels[s][OldPlace(i, j)]
    BY <1>1, RemoveAtElements, SMTT(30) DEF OldPlace
  <1>4. ASSUME NEW j \in DOMAIN tunnels[s], j # i
        PROVE  /\ NewPlace(i, j) \in DOMAIN tunnels'[s]
               /\ tunnels'[s][NewPlace(i, j)] = tunnels[s][j]
    <2>1. /\ NewPlace(i, j) \in DOMAIN tunnels'[s]
          /\ OldPlace(i, NewPlace(i, j)) = j
      BY <1>2, <1>3, <1>4 DEF OldPlace, NewPlace
    <2> QED
      BY <1>3, <2>1
  <1>5. ASSUME NEW j \in DOMAIN tunnels'[s]
        PROVE  /\ OldPlace(i, j) \in DOMAIN tunnels[s]
               /\ OldPlace(i, j) # i
    BY <1>2, <1>3 DEF OldPlace
  <1>6. ASSUME NEW j \in DOMAIN tunnels'[s], NEW k \in DOMAIN tunnels'[s],
               OldPlace(i, j) = OldPlace(i, k)
        PROVE  j = k
    BY <1>2, <1>3, <1>6 DEF OldPlace
  <1> QED
    BY <1>1, <1>3, <1>4, <1>5, <1>6

(* Only its own port goes: any other tunnel that had it would be open too. *)
LEMMA RemoveTunnelStep ==
    ASSUME IInv, TypeOK', NEW s \in Session, NEW n \in Name,
           RemoveTunnelByName(s, n)
    PROVE  IInv'
  <1> USE DEF IInv, handlerVars
  <1> PICK i \in DOMAIN tunnels[s] :
        /\ bySubdomain' = Without(bySubdomain, {tunnels[s][i].subdomain})
        /\ byPort' = Without(byPort, {tunnels[s][i].port})
        /\ tunnels' = [tunnels EXCEPT ![s] = RemoveAt(@, i)]
    BY DEF RemoveTunnelByName
  <1> DEFINE t == tunnels[s][i]
             old(r, j) == IF r = s THEN OldPlace(i, j) ELSE j
             new(r, j) == IF r = s THEN NewPlace(i, j) ELSE j
  <1>1. s \in byID /\ UNCHANGED <<byID, pc, port, down>>
    BY DEF RemoveTunnelByName
  <1>0. /\ \A r \in Session : r # s => tunnels'[r] = tunnels[r]
        /\ \A j \in DOMAIN tunnels'[s] :
             /\ OldPlace(i, j) \in DOMAIN tunnels[s]
             /\ OldPlace(i, j) # i
             /\ tunnels'[s][j] = tunnels[s][OldPlace(i, j)]
        /\ \A j \in DOMAIN tunnels[s] :
             j # i => /\ NewPlace(i, j) \in DOMAIN tunnels'[s]
                      /\ tunnels'[s][NewPlace(i, j)] = tunnels[s][j]
        /\ \A j, k \in DOMAIN tunnels'[s] :
             OldPlace(i, j) = OldPlace(i, k) => j = k
    <2>1. TypeOK /\ tunnels' = [tunnels EXCEPT ![s] = RemoveAt(@, i)]
      OBVIOUS
    <2> QED
      BY <2>1, RemovedTunnel
  <1>2. \A r \in Session : \A j \in DOMAIN tunnels'[r] :
          /\ old(r, j) \in DOMAIN tunnels[r]
          /\ tunnels'[r][j] = tunnels[r][old(r, j)]
          /\ r = s => old(r, j) # i
    BY <1>0
  <1>3. \A r \in Session : \A j \in DOMAIN tunnels[r] :
          ~(r = s /\ j = i) => /\ new(r, j) \in DOMAIN tunnels'[r]
                               /\ tunnels'[r][new(r, j)] = tunnels[r][j]
    BY <1>0
  <1>4. \A r \in Session : \A j, m \in DOMAIN tunnels'[r] :
          old(r, j) = old(r, m) => j = m
    BY <1>0
  <1> HIDE DEF old, new
  <1>5. \A m \in Name : bySubdomain'[m] =
            IF m = t.subdomain THEN None ELSE bySubdomain[m]
    BY WithoutSubdomains DEF TypeOK
  <1>6. \A p \in Port : byPort'[p] = IF p = t.port THEN None ELSE byPort[p]
    BY WithoutPorts DEF TypeOK
  <1>7. EntryWhileHandled'
    BY <1>1 DEF EntryWhileHandled
  <1>8. FreshIsEmpty'
    <2> SUFFICES ASSUME NEW r \in Session, pc[r] \in {"new", "authed"}
                 PROVE  tunnels'[r] = <<>>
      BY <1>1 DEF FreshIsEmpty
    <2>1. r # s
      BY <1>1 DEF EntryWhileHandled, Registered, Registering
    <2> QED
      BY <2>1, RemovedTunnel DEF FreshIsEmpty
  <1>9. NoDanglingRoute'
    <2> SUFFICES ASSUME NEW m \in Name, bySubdomain'[m] # None
                 PROVE  /\ bySubdomain'[m] \in byID
                        /\ \E j \in DOMAIN tunnels'[bySubdomain'[m]] :
                             tunnels'[bySubdomain'[m]][j].subdomain = m
      BY <1>1 DEF NoDanglingRoute
    <2> DEFINE r == bySubdomain[m]
    <2>1. bySubdomain'[m] = r /\ m # t.subdomain
      BY <1>5
    <2>2. PICK j \in DOMAIN tunnels[r] : r \in byID /\ tunnels[r][j].subdomain = m
      BY <2>1 DEF NoDanglingRoute
    <2>3. r \in Session /\ ~(r = s /\ j = i)
      BY <2>1, <2>2 DEF TypeOK
    <2> QED
      BY <1>3, <2>1, <2>2, <2>3, SMTT(30)
  <1>10. ListenersLive'
    BY <1>1, <1>2 DEF ListenersLive
  <1>11. OneListener'
    <2>1. OneTunnelPerPort'
      BY <1>2, <1>4 DEF OneListener, OneTunnelPerPort
    <2>2. OneOpeningPerPort'
      BY <1>1 DEF OneListener, OneOpeningPerPort
    <2>3. OpeningIsUnbound'
      BY <1>1, <1>2 DEF OneListener, OpeningIsUnbound
    <2> QED
      BY <2>1, <2>2, <2>3 DEF OneListener
  <1>12. PortTableExact'
    <2>1. ASSUME ~down, NEW r \in byID, NEW j \in DOMAIN tunnels'[r],
                 tunnels'[r][j].type = "tcp"
          PROVE  tunnels'[r][j].open /\ byPort'[tunnels'[r][j].port] = r
      <3> DEFINE u == tunnels[r][old(r, j)]
      <3>1. /\ r \in Session
            /\ old(r, j) \in DOMAIN tunnels[r]
            /\ tunnels'[r][j] = u
            /\ ~(r = s /\ old(r, j) = i)
        BY <1>2 DEF TypeOK
      <3>2. u.open /\ byPort[u.port] = r
        BY <2>1, <3>1 DEF PortTableExact
      <3>3. u.port \in Port
        BY <2>1, <3>1, TunnelsTyped, TunnelFields
      <3>4. u.port # t.port
        <4> SUFFICES ASSUME u.port = t.port PROVE FALSE
          OBVIOUS
        <4>1. t \in Tunnel
          BY TunnelsTyped
        <4>2. t.type = "tcp"
          BY <3>3, <4>1, TunnelFields, PortAssumption
        <4>3. t.open
          BY <1>1, <2>1, <4>2 DEF PortTableExact
        <4> QED
          BY <3>1, <3>2, <4>3 DEF OneListener, OneTunnelPerPort
      <3> QED
        BY <1>6, <3>1, <3>2, <3>3, <3>4
    <2>2. ASSUME NEW p \in Port, byPort'[p] # None
          PROVE  /\ byPort'[p] \in byID
                 /\ \E j \in DOMAIN tunnels'[byPort'[p]] :
                      tunnels'[byPort'[p]][j].port = p
      <3> DEFINE r == byPort[p]
      <3>1. byPort'[p] = r /\ p # t.port
        BY <1>6, <2>2
      <3>2. PICK j \in DOMAIN tunnels[r] : r \in byID /\ tunnels[r][j].port = p
        BY <2>2, <3>1 DEF PortTableExact
      <3>3. r \in Session /\ ~(r = s /\ j = i)
        BY <3>1, <3>2 DEF TypeOK
      <3>4. /\ new(r, j) \in DOMAIN tunnels'[r]
            /\ tunnels'[r][new(r, j)].port = p
        BY <1>3, <3>2, <3>3
      <3> QED
        BY <3>1, <3>2, <3>4
    <2> QED
      BY <1>1, <2>1, <2>2 DEF PortTableExact
  <1> QED
    BY <1>7, <1>8, <1>9, <1>10, <1>11, <1>12

LEMMA CloseAllStep ==
    ASSUME IInv, TypeOK', CloseAll
    PROVE  IInv'
  <1> USE DEF IInv, handlerVars
  <1>1. UNCHANGED <<byID, bySubdomain, byPort, pc, port>> /\ down'
    BY DEF CloseAll
  <1>2. \A s \in Session :
          /\ DOMAIN tunnels'[s] = DOMAIN tunnels[s]
          /\ \A i \in DOMAIN tunnels[s] :
               /\ tunnels'[s][i].open => tunnels'[s][i] = tunnels[s][i]
               /\ tunnels'[s][i].subdomain = tunnels[s][i].subdomain
               /\ tunnels'[s][i].port = tunnels[s][i].port
    <2> SUFFICES ASSUME NEW s \in Session PROVE
          /\ DOMAIN tunnels'[s] = DOMAIN tunnels[s]
          /\ \A i \in DOMAIN tunnels[s] :
               /\ tunnels'[s][i].open => tunnels'[s][i] = tunnels[s][i]
               /\ tunnels'[s][i].subdomain = tunnels[s][i].subdomain
               /\ tunnels'[s][i].port = tunnels[s][i].port
      OBVIOUS
    <2>1. CASE s \in byID
      <3>1. tunnels'[s] = CloseListeners(tunnels[s]) /\ tunnels[s] \in Seq(Tunnel)
        BY <2>1 DEF CloseAll, TypeOK
      <3>2. /\ DOMAIN CloseListeners(tunnels[s]) = DOMAIN tunnels[s]
            /\ \A i \in DOMAIN tunnels[s] :
                 /\ CloseListeners(tunnels[s])[i].open = FALSE
                 /\ CloseListeners(tunnels[s])[i].subdomain = tunnels[s][i].subdomain
                 /\ CloseListeners(tunnels[s])[i].port = tunnels[s][i].port
        BY <3>1, ClosedTunnels
      <3> QED
        BY <3>1, <3>2
    <2>2. CASE s \notin byID
      BY <2>2 DEF CloseAll
    <2> QED
      BY <2>1, <2>2
  <1>3. EntryWhileHandled'
    BY <1>1 DEF EntryWhileHandled
  <1>4. FreshIsEmpty'
    <2> SUFFICES ASSUME NEW s \in Session, pc[s] \in {"new", "authed"}
                 PROVE  tunnels'[s] = <<>>
      BY <1>1 DEF FreshIsEmpty
    <2>1. s \notin byID /\ tunnels[s] = <<>>
      BY DEF EntryWhileHandled, FreshIsEmpty, Registered, Registering
    <2> QED
      BY <2>1 DEF CloseAll
  <1>5. NoDanglingRoute'
    <2> SUFFICES ASSUME NEW n \in Name, bySubdomain[n] # None
                 PROVE  /\ bySubdomain[n] \in byID
                        /\ \E i \in DOMAIN tunnels'[bySubdomain[n]] :
                             tunnels'[bySubdomain[n]][i].subdomain = n
      BY <1>1 DEF NoDanglingRoute
    <2>1. PICK i \in DOMAIN tunnels[bySubdomain[n]] :
            bySubdomain[n] \in byID /\ tunnels[bySubdomain[n]][i].subdomain = n
      BY DEF NoDanglingRoute
    <2>2. bySubdomain[n] \in Session
      BY <2>1 DEF TypeOK
    <2> QED
      BY <1>2, <2>1, <2>2
  <1>6. ListenersLive'
    BY <1>1, <1>2 DEF ListenersLive
  <1>7. OneListener'
    BY <1>1, <1>2, FewerListeners
  <1>8. PortTableExact'
    <2>1. ASSUME NEW p \in Port, byPort[p] # None
          PROVE  /\ byPort[p] \in byID
                 /\ \E i \in DOMAIN tunnels'[byPort[p]] :
                      tunnels'[byPort[p]][i].port = p
      <3>1. PICK i \in DOMAIN tunnels[byPort[p]] :
              byPort[p] \in byID /\ tunnels[byPort[p]][i].port = p
        BY <2>1 DEF PortTableExact
      <3>2. byPort[p] \in Session
        BY <3>1 DEF TypeOK
      <3> QED
        BY <1>2, <3>1, <3>2
    <2> QED
      BY <1>1, <2>1 DEF PortTableExact
  <1> QED
    BY <1>3, <1>4, <1>5, <1>6, <1>7, <1>8

(* The listener is new: nobody was bound to the port. *)
LEMMA TcpListenStep ==
    ASSUME IInv, TypeOK', NEW s \in Session, TcpListen(s)
    PROVE  IInv'
  <1> USE DEF IInv, registryVars, Goto, TcpListen
  <1>1. EntryWhileHandled'
    BY DEF EntryWhileHandled, Registered, Registering, TypeOK
  <1>2. FreshIsEmpty'
    BY DEF FreshIsEmpty, TypeOK
  <1>3. NoDanglingRoute'
    BY DEF NoDanglingRoute
  <1>4. ListenersLive'
    BY DEF ListenersLive
  <1>5. OneListener'
    <2>1. OneTunnelPerPort'
      BY DEF OneListener, OneTunnelPerPort
    <2>2. OneOpeningPerPort'
      BY DEF OneListener, OneOpeningPerPort, Bound, TypeOK
    <2>3. OpeningIsUnbound'
      BY DEF OneListener, OpeningIsUnbound, Bound, TypeOK
    <2> QED
      BY <2>1, <2>2, <2>3 DEF OneListener
  <1>6. PortTableExact'
    BY DEF PortTableExact
  <1> QED
    BY <1>1, <1>2, <1>3, <1>4, <1>5, <1>6

LEMMA NextIInv == IInv /\ [Next]_vars => IInv'
  <1> SUFFICES ASSUME IInv, [Next]_vars PROVE IInv'
    OBVIOUS
  <1>0. TypeOK /\ TypeOK'
    BY TypeNext DEF IInv
  <1>1. ASSUME NEW s \in Session, AddClient(s) PROVE IInv'
    BY <1>0, <1>1, AddClientStep
  <1>2. ASSUME NEW s \in Session, RemoveClient(s) PROVE IInv'
    BY <1>0, <1>2, RemoveClientStep
  <1>3. ASSUME NEW s \in Session, RegisterHTTP(s) PROVE IInv'
    BY <1>0, <1>3, RegisterHTTPStep
  <1>4. ASSUME NEW s \in Session, RegisterTCP(s) PROVE IInv'
    BY <1>0, <1>4, RegisterTCPStep
  <1>5. ASSUME NEW s \in Session, TcpListen(s) PROVE IInv'
    BY <1>0, <1>5, TcpListenStep
  <1>6. ASSUME NEW s \in Session, NEW n \in Name, RemoveTunnelByName(s, n)
        PROVE  IInv'
    BY <1>0, <1>6, RemoveTunnelStep
  <1>7. CASE CloseAll
    BY <1>0, <1>7, CloseAllStep
  <1>8. ASSUME NEW s \in Session,
               \/ AuthOK(s) \/ AuthFail(s) \/ LoopExit(s)
               \/ \E r \in Requests[s] : RecvRegister(s, r)
               \/ HttpCheck(s) \/ HttpCheckApp(s) \/ TcpPick(s)
               \/ TcpCheck(s) \/ TcpListenErr(s)
        PROVE  IInv'
    <2>1. UNCHANGED <<registryVars, down>>
      BY <1>8 DEF AuthOK, AuthFail, LoopExit, RecvRegister, HttpCheck,
                  HttpCheckApp, TcpPick, TcpCheck, TcpListenErr
    <2>2. \A t \in Session : t # s => pc'[t] = pc[t] /\ port'[t] = port[t]
      BY <1>0, <1>8 DEF AuthOK, AuthFail, LoopExit, RecvRegister, HttpCheck,
                  HttpCheckApp, TcpPick, TcpCheck, TcpListenErr, Goto, TypeOK
    <2>3. /\ pc[s] \in Registered <=> pc'[s] \in Registered
          /\ pc'[s] \in {"new", "authed"} => pc[s] \in {"new", "authed"}
          /\ pc'[s] # "tcpRegister"
      BY <1>0, <1>8 DEF AuthOK, AuthFail, LoopExit, RecvRegister, HttpCheck,
                  HttpCheckApp, TcpPick, TcpCheck, TcpListenErr, Goto, TypeOK,
                  Registered, Registering
    <2> QED
      BY <1>0, <2>1, <2>2, <2>3, QuietStep
  <1>9. CASE UNCHANGED <<registryVars, pc, port, down>>
    BY <1>0, <1>9, QuietStep
  <1>10. ASSUME NEW s \in Session, DisconnectClient(s) \/ SessionDies(s)
         PROVE  UNCHANGED <<registryVars, pc, port, down>>
    BY <1>10 DEF DisconnectClient, SessionDies, handlerVars
  <1>11. ASSUME NEW n \in Name, DeployedAppsChange(n)
         PROVE  UNCHANGED <<registryVars, pc, port, down>>
    BY <1>11 DEF DeployedAppsChange, handlerVars
  <1>12. ASSUME Public PROVE UNCHANGED <<registryVars, pc, port, down>>
    BY <1>12 DEF Public, Arrive, LookupHTTP, LoadApp, FindTunnel, Finish, handlerVars
  <1>13. ASSUME UNCHANGED vars PROVE UNCHANGED <<registryVars, pc, port, down>>
    BY <1>13 DEF vars, registryVars
  <1> QED
    BY <1>1, <1>2, <1>3, <1>4, <1>5, <1>6, <1>7, <1>8, <1>9, <1>10, <1>11,
       <1>12, <1>13 DEF Next, Handler, Operator

(* The inductive invariant holds in every reachable state. *)
THEOREM Invariant == Spec => []IInv
  BY InitIInv, NextIInv, PTL DEF Spec

(* The entry a handler registers a tunnel with is never nil: its session   *)
(* is in byID from addClient to removeClient (server.go:296, 306).         *)
THEOREM EntryNeverNil == Spec => []EntryWhileHandled
  BY Invariant, PTL DEF IInv

(* Every routed subdomain leads to a registered client with a tunnel for   *)
(* it, whatever registrations and removals overlap (server.go:268-359).    *)
THEOREM RoutesLeadToTunnels == Spec => []NoDanglingRoute
  BY Invariant, PTL DEF IInv

(* No listener outlives the client it was opened for.                      *)
THEOREM NoListenerLeaks == Spec => []ListenersLive
  BY Invariant, PTL DEF IInv

(* byPort and the open listeners agree until shutdown.                     *)
THEOREM PortTableIsExact == Spec => []PortTableExact
  BY Invariant, PTL DEF IInv

-----------------------------------------------------------------------------
(* The registry implements Lease *)

\* A TCP tunnel a registered client has on a port is the lease of the port.
LEMMA HeldPort ==
    ASSUME IInv, ~down, NEW s \in byID, NEW i \in DOMAIN tunnels[s],
           tunnels[s][i].port \in Port
    PROVE  tunnels[s][i].open /\ byPort[tunnels[s][i].port] = s
  <1>1. s \in Session
    BY DEF IInv, TypeOK
  <1>2. tunnels[s][i] \in Tunnel
    BY <1>1, TunnelsTyped DEF IInv
  <1>3. tunnels[s][i].type = "tcp"
    BY <1>2, TunnelFields, PortAssumption
  <1> QED
    BY <1>3 DEF IInv, PortTableExact

LEMMA LeaseInit == Init => PortLease!Init
  BY DEF Init, PortLease!Init

\* registerTCP takes a lease, removal gives leases back, closeAll ends the
\* promise, and nothing else touches a port.
LEMMA LeaseNext == IInv /\ [Next]_vars => [PortLease!Next]_(PortLease!leaseVars)
  <1> SUFFICES ASSUME IInv, [Next]_vars
               PROVE  PortLease!Next \/ UNCHANGED <<byPort, down>>
    BY DEF PortLease!leaseVars
  <1>1. ASSUME NEW s \in Session, RegisterTCP(s)
        PROVE  PortLease!Next
    <2>1. CASE down
      BY <1>1, <2>1 DEF RegisterTCP, PortLease!Next, PortLease!AfterEnd
    <2>2. CASE ~down
      <3>1. port[s] \in Port
        BY <1>1 DEF RegisterTCP, IInv, TypeOK, HandlerWF
      <3>2. byPort[port[s]] = None
        <4> SUFFICES ASSUME byPort[port[s]] # None PROVE FALSE
          OBVIOUS
        <4> DEFINE r == byPort[port[s]]
        <4>1. PICK i \in DOMAIN tunnels[r] :
                r \in byID /\ tunnels[r][i].port = port[s]
          BY <3>1 DEF IInv, PortTableExact
        <4>2. r \in Session /\ tunnels[r][i].open
          BY <2>2, <3>1, <4>1, HeldPort DEF IInv, TypeOK
        <4> QED
          BY <1>1, <4>1, <4>2 DEF RegisterTCP, IInv, OneListener, OpeningIsUnbound
      <3>3. PortLease!Acquire(s, port[s])
        BY <1>1, <2>2, <3>2 DEF RegisterTCP, PortLease!Acquire
      <3> QED
        BY <3>1, <3>3 DEF PortLease!Next
    <2> QED
      BY <2>1, <2>2
  <1>2. ASSUME NEW s \in Session, RemoveClient(s)
        PROVE  PortLease!Next
    <2>1. CASE down
      BY <1>2, <2>1 DEF RemoveClient, PortLease!Next, PortLease!AfterEnd
    <2>2. CASE ~down
      <3> DEFINE P == Ports(s) \cap Port
      <3>1. s \in byID
        BY <1>2 DEF RemoveClient, IInv, EntryWhileHandled, Registered, Registering
      <3>2. \A p \in P : byPort[p] = s
        BY <2>2, <3>1, HeldPort DEF Ports
      <3>3. byPort' = [p \in Port |-> IF p \in P THEN None ELSE byPort[p]]
        BY <1>2 DEF RemoveClient, Without, IInv, TypeOK
      <3>4. UNCHANGED down
        BY <1>2 DEF RemoveClient
      <3>5. PortLease!Release(s, P)
        BY <2>2, <3>2, <3>3, <3>4 DEF PortLease!Release
      <3> QED
        BY <3>5 DEF PortLease!Next
    <2> QED
      BY <2>1, <2>2
  <1>3. ASSUME NEW s \in Session, NEW n \in Name, RemoveTunnelByName(s, n)
        PROVE  PortLease!Next
    <2>1. CASE down
      BY <1>3, <2>1 DEF RemoveTunnelByName, PortLease!Next, PortLease!AfterEnd
    <2>2. CASE ~down
      <3>1. PICK i \in DOMAIN tunnels[s] :
              byPort' = Without(byPort, {tunnels[s][i].port})
        BY <1>3 DEF RemoveTunnelByName
      <3> DEFINE P == {tunnels[s][i].port} \cap Port
      <3>2. s \in byID /\ UNCHANGED down
        BY <1>3 DEF RemoveTunnelByName
      <3>3. \A p \in P : byPort[p] = s
        BY <2>2, <3>2, HeldPort
      <3>4. byPort' = [p \in Port |-> IF p \in P THEN None ELSE byPort[p]]
        BY <3>1 DEF Without, IInv, TypeOK
      <3>5. PortLease!Release(s, P)
        BY <2>2, <3>2, <3>3, <3>4 DEF PortLease!Release
      <3> QED
        BY <3>5 DEF PortLease!Next
    <2> QED
      BY <2>1, <2>2
  <1>4. CASE CloseAll
    BY <1>4 DEF CloseAll, PortLease!Next, PortLease!End
  <1>5. ASSUME NEW s \in Session,
               \/ AuthOK(s) \/ AuthFail(s) \/ AddClient(s) \/ LoopExit(s)
               \/ \E r \in Requests[s] : RecvRegister(s, r)
               \/ HttpCheck(s) \/ HttpCheckApp(s) \/ RegisterHTTP(s)
               \/ TcpPick(s) \/ TcpCheck(s) \/ TcpListen(s) \/ TcpListenErr(s)
               \/ DisconnectClient(s) \/ SessionDies(s)
        PROVE  UNCHANGED <<byPort, down>>
    BY <1>5 DEF AuthOK, AuthFail, AddClient, LoopExit, RecvRegister, HttpCheck,
                HttpCheckApp, RegisterHTTP, TcpPick, TcpCheck, TcpListen,
                TcpListenErr, DisconnectClient, SessionDies, registryVars
  <1>6. ASSUME NEW n \in Name, DeployedAppsChange(n)
        PROVE  UNCHANGED <<byPort, down>>
    BY <1>6 DEF DeployedAppsChange, registryVars
  <1>7. ASSUME Public PROVE UNCHANGED <<byPort, down>>
    BY <1>7 DEF Public, Arrive, LookupHTTP, LoadApp, FindTunnel, Finish, registryVars
  <1>8. ASSUME UNCHANGED vars PROVE UNCHANGED <<byPort, down>>
    BY <1>8 DEF vars
  <1> QED
    BY <1>1, <1>2, <1>3, <1>4, <1>5, <1>6, <1>7, <1>8
    DEF Next, Handler, Operator

(* The registry keeps the promise of Lease about every TCP port: one        *)
(* holder at a time, given back by the holder only, until shutdown.        *)
THEOREM PortsAreLeased == Spec => LeaseSpec
  BY Invariant, LeaseInit, LeaseNext, PTL
  DEF Spec, LeaseSpec, PortLease!Spec

-----------------------------------------------------------------------------
(* A public request *)

LEMMA MissingStep ==
    ASSUME IInv, [Next]_vars, NEW v \in Visitor,
           visit[v].pc = "find", visit'[v].pc = "missing"
    PROVE  bySubdomain[visit[v].subdomain] # visit[v].entry
  <1>1. FindTunnel(v)
    <2>1. visit'[v] # visit[v]
      OBVIOUS
    <2>2. ASSUME NEW s \in Session, Handler(s) PROVE UNCHANGED visit
      BY <2>2 DEF Handler, AuthOK, AuthFail, AddClient, LoopExit, RecvRegister,
                  HttpCheck, HttpCheckApp, RegisterHTTP, TcpPick, TcpCheck,
                  TcpListen, TcpListenErr, RegisterTCP, RemoveClient
    <2>3. ASSUME Operator \/ \E n \in Name : DeployedAppsChange(n)
          PROVE  UNCHANGED visit
      BY <2>3 DEF Operator, RemoveTunnelByName, DisconnectClient, SessionDies,
                  CloseAll, DeployedAppsChange
    <2>4. PICK w \in Visitor : \/ \E n \in Name : Arrive(w, n)
                               \/ LookupHTTP(w) \/ LoadApp(w)
                               \/ FindTunnel(w) \/ Finish(w)
      BY <2>1, <2>2, <2>3 DEF Next, vars, Public
    <2>5. w = v
      BY <2>1, <2>4 DEF Arrive, LookupHTTP, LoadApp, FindTunnel, Finish, IInv, TypeOK
    <2> QED
      BY <2>4, <2>5 DEF Arrive, LookupHTTP, LoadApp, Finish
  <1>2. visit[v].subdomain \in Name /\ visit[v].entry \in Session
    BY DEF IInv, TypeOK, VisitWF
  <1>3. visit[v].subdomain \notin Subdomains(visit[v].entry)
    BY <1>1 DEF FindTunnel, IInv, TypeOK, Visit
  <1> QED
    BY <1>2, <1>3, NoneAssumption DEF IInv, NoDanglingRoute, Subdomains

(* "tunnel entry missing" is answered only when the route the request had  *)
(* read is gone (http_proxy.go:26-50).                                     *)
THEOREM MissingIsExplained == Spec => MissingOnlyIfRerouted
  <1>1. IInv /\ [Next]_vars =>
          [\A v \in Visitor :
             visit[v].pc = "find" /\ visit'[v].pc = "missing"
               => bySubdomain[visit[v].subdomain] # visit[v].entry]_vars
    BY MissingStep
  <1> QED
    BY <1>1, Invariant, PTL DEF Spec, MissingOnlyIfRerouted

-----------------------------------------------------------------------------
(* A subdomain nobody else asks for *)

(* What one client's part of the invariant says. *)
OwnOf(s) == /\ \A i \in DOMAIN tunnels[s] :
                 tunnels[s][i].type = "http" /\ Sole(s, tunnels[s][i].subdomain)
                     => bySubdomain[tunnels[s][i].subdomain] = s
            /\ \A i, j \in DOMAIN tunnels[s] :
                 /\ tunnels[s][i].type = "http" /\ tunnels[s][j].type = "http"
                 /\ tunnels[s][i].subdomain = tunnels[s][j].subdomain
                 /\ Sole(s, tunnels[s][i].subdomain)
                 => i = j

LEMMA OwnOfAll == (OwnSubdomainKept /\ SoleOnce) <=> \A s \in byID : OwnOf(s)
  BY DEF OwnSubdomainKept, SoleOnce, OwnOf

(* Nobody else asks for it. *)
LEMMA SoleAsks ==
    ASSUME NEW s \in Session, NEW t \in Session \ {s}, NEW n, Sole(s, n)
    PROVE  n \notin Asks(t)
  BY DEF Sole, Asks

(* The steps that touch a route or a tunnel. *)
LEMMA RouteMoves ==
    ASSUME [Next]_vars
    PROVE  \/ UNCHANGED <<byID, bySubdomain, tunnels>>
           \/ \E s \in Session : \/ AddClient(s) \/ RemoveClient(s)
                                 \/ RegisterHTTP(s) \/ RegisterTCP(s)
                                 \/ \E n \in Name : RemoveTunnelByName(s, n)
           \/ CloseAll
  BY ZenonT(30) DEF Next, Handler, Operator, Public, vars, registryVars, handlerVars,
         AuthOK, AuthFail, LoopExit, RecvRegister, HttpCheck, HttpCheckApp, TcpPick,
         TcpCheck, TcpListen, TcpListenErr, DisconnectClient, SessionDies,
         DeployedAppsChange, Arrive, LookupHTTP, LoadApp, FindTunnel, Finish

(* How a handler comes to where it registers an HTTP tunnel. *)
LEMMA HttpMoves ==
    ASSUME TypeOK, [Next]_vars, NEW s \in Session
    PROVE  /\ pc'[s] = "httpCheck" =>
                \/ pc[s] = "httpCheck" /\ reg'[s] = reg[s]
                \/ \E r \in Requests[s] : r.type = "http" /\ reg'[s] = r
           /\ pc'[s] \in {"httpCheckApp", "httpRegister"} =>
                /\ reg'[s] = reg[s]
                /\ \/ pc[s] \in {"httpCheckApp", "httpRegister"} /\ ~RegisterHTTP(s)
                   \/ /\ pc[s] = "httpCheck" /\ bySubdomain[SubdomainOf(s)] = None
                      /\ ~RegisterHTTP(s)
  <1>1. CASE pc'[s] = pc[s] /\ reg'[s] = reg[s] /\ ~RegisterHTTP(s)
    BY <1>1
  <1>2. CASE Handler(s)
    BY <1>2 DEF TypeOK, Handler, Goto, AuthOK, AuthFail, AddClient, LoopExit,
                RecvRegister, RemoveClient, HttpCheck, HttpCheckApp, RegisterHTTP,
                TcpPick, TcpCheck, TcpListen, TcpListenErr, RegisterTCP
  <1>3. ASSUME NEW t \in Session, t # s, Handler(t)
        PROVE  pc'[s] = pc[s] /\ reg'[s] = reg[s] /\ ~RegisterHTTP(s)
    <2>1. pc'[s] = pc[s] /\ reg'[s] = reg[s]
      BY <1>3 DEF TypeOK, Handler, Goto, AuthOK, AuthFail, AddClient, LoopExit,
                  RecvRegister, RemoveClient, HttpCheck, HttpCheckApp, RegisterHTTP,
                  TcpPick, TcpCheck, TcpListen, TcpListenErr, RegisterTCP
    <2>2. RegisterHTTP(s) => pc'[s] # pc[s]
      BY DEF RegisterHTTP, Goto, TypeOK
    <2> QED
      BY <2>1, <2>2
  <1>4. ASSUME \/ Operator \/ Public \/ UNCHANGED vars
               \/ \E n \in Name : DeployedAppsChange(n)
        PROVE  pc'[s] = pc[s] /\ reg'[s] = reg[s] /\ ~RegisterHTTP(s)
    <2>1. pc'[s] = pc[s] /\ reg'[s] = reg[s]
      BY <1>4 DEF Operator, Public, vars, handlerVars, RemoveTunnelByName, CloseAll,
                  DisconnectClient, SessionDies, DeployedAppsChange, Arrive,
                  LookupHTTP, LoadApp, FindTunnel, Finish
    <2>2. RegisterHTTP(s) => pc'[s] # pc[s]
      BY DEF RegisterHTTP, Goto, TypeOK
    <2> QED
      BY <2>1, <2>2
  <1> QED
    BY <1>1, <1>2, <1>3, <1>4 DEF Next

(* It is about to register one after its second check.                     *)
LEMMA RegisterMoves ==
    ASSUME TypeOK, [Next]_vars, NEW s \in Session, pc'[s] = "httpRegister"
    PROVE  /\ reg'[s] = reg[s]
           /\ pc[s] = "httpRegister" \/ SubdomainOf(s) \notin deployedApps
  <1>1. CASE pc'[s] = pc[s] /\ reg'[s] = reg[s]
    BY <1>1
  <1>2. CASE Handler(s)
    BY <1>2 DEF TypeOK, Handler, Goto, AuthOK, AuthFail, AddClient, LoopExit,
                RecvRegister, RemoveClient, HttpCheck, HttpCheckApp, RegisterHTTP,
                TcpPick, TcpCheck, TcpListen, TcpListenErr, RegisterTCP
  <1>3. ASSUME NEW t \in Session, t # s, Handler(t)
        PROVE  pc'[s] = pc[s] /\ reg'[s] = reg[s]
    BY <1>3 DEF TypeOK, Handler, Goto, AuthOK, AuthFail, AddClient, LoopExit,
                RecvRegister, RemoveClient, HttpCheck, HttpCheckApp, RegisterHTTP,
                TcpPick, TcpCheck, TcpListen, TcpListenErr, RegisterTCP
  <1>4. ASSUME \/ Operator \/ Public \/ UNCHANGED vars
               \/ \E n \in Name : DeployedAppsChange(n)
        PROVE  pc'[s] = pc[s] /\ reg'[s] = reg[s]
    BY <1>4 DEF Operator, Public, vars, handlerVars, RemoveTunnelByName, CloseAll,
                DisconnectClient, SessionDies, DeployedAppsChange, Arrive,
                LookupHTTP, LoadApp, FindTunnel, Finish
  <1> QED
    BY <1>1, <1>2, <1>3, <1>4 DEF Next

(* A subdomain's route goes, or is set by the handler that registers it.   *)
LEMMA RouteOf ==
    ASSUME TypeOK, [Next]_vars, NEW n \in Name
    PROVE  \/ bySubdomain'[n] \in {bySubdomain[n], None}
           \/ \E s \in Session : pc[s] = "httpRegister" /\ SubdomainOf(s) = n
  <1>1. ASSUME NEW s \in Session, NEW m \in Name,
               RemoveClient(s) \/ RemoveTunnelByName(s, m)
        PROVE  bySubdomain'[n] \in {bySubdomain[n], None}
    BY <1>1 DEF RemoveClient, RemoveTunnelByName, Without, TypeOK
  <1>2. ASSUME NEW s \in Session, RegisterHTTP(s), SubdomainOf(s) # n
        PROVE  bySubdomain'[n] = bySubdomain[n]
    BY <1>2 DEF RegisterHTTP, TypeOK
  <1>3. ASSUME NEW s \in Session, AddClient(s) \/ RegisterTCP(s)
        PROVE  UNCHANGED bySubdomain
    BY <1>3 DEF AddClient, RegisterTCP
  <1>4. CloseAll => UNCHANGED bySubdomain
    BY DEF CloseAll
  <1>5. ASSUME NEW s \in Session, RegisterHTTP(s) PROVE pc[s] = "httpRegister"
    BY <1>5 DEF RegisterHTTP
  <1> QED
    BY <1>1, <1>2, <1>3, <1>4, <1>5, RouteMoves

(* How a handler comes to work on a request for a TCP tunnel.              *)
LEMMA TcpMoves ==
    ASSUME TypeOK, [Next]_vars, NEW s \in Session,
           pc'[s] \in {"tcpPick", "tcpCheck", "tcpListen", "tcpRegister"}
    PROVE  \/ /\ pc[s] \in {"tcpPick", "tcpCheck", "tcpListen", "tcpRegister"}
              /\ reg'[s] = reg[s]
           \/ \E r \in Requests[s] : r.type = "tcp" /\ reg'[s] = r
  <1>1. CASE pc'[s] = pc[s] /\ reg'[s] = reg[s]
    BY <1>1
  <1>2. CASE Handler(s)
    BY <1>2 DEF TypeOK, Handler, Goto, AuthOK, AuthFail, AddClient, LoopExit,
                RecvRegister, RemoveClient, HttpCheck, HttpCheckApp, RegisterHTTP,
                TcpPick, TcpCheck, TcpListen, TcpListenErr, RegisterTCP
  <1>3. ASSUME NEW t \in Session, t # s, Handler(t)
        PROVE  pc'[s] = pc[s] /\ reg'[s] = reg[s]
    BY <1>3 DEF TypeOK, Handler, Goto, AuthOK, AuthFail, AddClient, LoopExit,
                RecvRegister, RemoveClient, HttpCheck, HttpCheckApp, RegisterHTTP,
                TcpPick, TcpCheck, TcpListen, TcpListenErr, RegisterTCP
  <1>4. ASSUME \/ Operator \/ Public \/ UNCHANGED vars
               \/ \E n \in Name : DeployedAppsChange(n)
        PROVE  pc'[s] = pc[s] /\ reg'[s] = reg[s]
    BY <1>4 DEF Operator, Public, vars, handlerVars, RemoveTunnelByName, CloseAll,
                DisconnectClient, SessionDies, DeployedAppsChange, Arrive,
                LookupHTTP, LoadApp, FindTunnel, Finish
  <1> QED
    BY <1>1, <1>2, <1>3, <1>4 DEF Next

(* Closing listeners leaves the rest of the tunnels alone. *)
LEMMA ClosedHeads ==
    ASSUME TypeOK, NEW s \in Session, tunnels'[s] = CloseListeners(tunnels[s])
    PROVE  /\ DOMAIN tunnels'[s] = DOMAIN tunnels[s]
           /\ \A j \in DOMAIN tunnels'[s] :
                /\ tunnels'[s][j].name = tunnels[s][j].name
                /\ tunnels'[s][j].type = tunnels[s][j].type
                /\ tunnels'[s][j].subdomain = tunnels[s][j].subdomain
  <1>1. tunnels[s] \in Seq(Tunnel)
    BY DEF TypeOK
  <1>2. /\ DOMAIN CloseListeners(tunnels[s]) = DOMAIN tunnels[s]
        /\ \A j \in DOMAIN tunnels[s] :
             /\ CloseListeners(tunnels[s])[j].name = tunnels[s][j].name
             /\ CloseListeners(tunnels[s])[j].type = tunnels[s][j].type
             /\ CloseListeners(tunnels[s])[j].subdomain = tunnels[s][j].subdomain
    BY <1>1, ClosedTunnels
  <1> QED
    BY <1>2

LEMMA Appended ==
    ASSUME TypeOK, NEW s \in Session, NEW t \in Tunnel,
           tunnels' = [tunnels EXCEPT ![s] = Append(@, t)]
    PROVE  LET k == Len(tunnels[s]) + 1
           IN  /\ \A r \in Session \ {s} : tunnels'[r] = tunnels[r]
               /\ DOMAIN tunnels'[s] = DOMAIN tunnels[s] \cup {k}
               /\ \A i \in DOMAIN tunnels[s] : tunnels'[s][i] = tunnels[s][i]
               /\ tunnels'[s][k] = t
               /\ k \notin DOMAIN tunnels[s]
  BY TunnelsTyped DEF TypeOK

(* Every tunnel was there before, or is the one a handler has just         *)
(* registered.                                                             *)
LEMMA TunnelMoves ==
    ASSUME IInv, [Next]_vars, NEW s \in Session, NEW j \in DOMAIN tunnels'[s]
    PROVE  \/ \E i \in DOMAIN tunnels[s] :
                 /\ tunnels'[s][j].name = tunnels[s][i].name
                 /\ tunnels'[s][j].type = tunnels[s][i].type
                 /\ tunnels'[s][j].subdomain = tunnels[s][i].subdomain
           \/ /\ RegisterTCP(s)
              /\ tunnels'[s][j].type = "tcp" /\ tunnels'[s][j].name = reg[s].name
           \/ RegisterHTTP(s) /\ tunnels'[s][j] = HttpTunnel(reg[s])
  <1>0. TypeOK
    BY DEF IInv
  <1>1. CASE tunnels'[s] = tunnels[s]
    BY <1>1
  <1>2. CASE RegisterHTTP(s)
    <2>1. HttpTunnel(reg[s]) \in Tunnel
      BY <1>0, <1>2, NewTunnels DEF RegisterHTTP, TypeOK, HandlerWF, Registering
    <2> QED
      BY <1>0, <1>2, <2>1, Appended DEF RegisterHTTP
  <1>3. CASE RegisterTCP(s)
    <2>1. /\ TcpTunnel(reg[s], port[s]) \in Tunnel
          /\ TcpTunnel(reg[s], port[s]).type = "tcp"
          /\ TcpTunnel(reg[s], port[s]).name = reg[s].name
      BY <1>0, <1>3, NewTunnels
      DEF RegisterTCP, TypeOK, HandlerWF, Registering, TcpTunnel
    <2> QED
      BY <1>0, <1>3, <2>1, Appended DEF RegisterTCP
  <1>4. ASSUME NEW n \in Name, RemoveTunnelByName(s, n)
        PROVE  \E i \in DOMAIN tunnels[s] : tunnels'[s][j] = tunnels[s][i]
    <2>1. PICK i \in DOMAIN tunnels[s] :
            tunnels' = [tunnels EXCEPT ![s] = RemoveAt(@, i)]
      BY <1>4 DEF RemoveTunnelByName
    <2>2. \A k \in DOMAIN tunnels'[s] :
            /\ OldPlace(i, k) \in DOMAIN tunnels[s]
            /\ OldPlace(i, k) # i
            /\ tunnels'[s][k] = tunnels[s][OldPlace(i, k)]
      BY <1>0, <2>1, RemovedTunnel
    <2> QED
      BY <2>2
  <1>5. CASE tunnels'[s] = CloseListeners(tunnels[s])
    BY <1>0, <1>5, ClosedHeads
  <1>6. ASSUME CloseAll PROVE tunnels'[s] \in {tunnels[s], CloseListeners(tunnels[s])}
    BY <1>6 DEF CloseAll
  <1>7. ASSUME RemoveClient(s) PROVE tunnels'[s] = CloseListeners(tunnels[s])
    BY <1>0, <1>7 DEF RemoveClient, TypeOK
  <1>8. ASSUME NEW t \in Session, t # s,
               \/ RemoveClient(t) \/ RegisterHTTP(t) \/ RegisterTCP(t)
               \/ \E n \in Name : RemoveTunnelByName(t, n)
        PROVE  tunnels'[s] = tunnels[s]
    BY <1>0, <1>8 DEF TypeOK, RemoveClient, RegisterHTTP, RegisterTCP,
                      RemoveTunnelByName
  <1>9. ASSUME NEW t \in Session, AddClient(t) PROVE tunnels'[s] = tunnels[s]
    BY <1>9 DEF AddClient
  <1> QED
    BY <1>1, <1>2, <1>3, <1>4, <1>5, <1>6, <1>7, <1>8, <1>9, RouteMoves

LEMMA AskedNext ==
    ASSUME IInv, AskedFor, [Next]_vars
    PROVE  AskedFor'
  <1> SUFFICES ASSUME NEW s \in Session
               PROVE  /\ pc'[s] \in {"httpCheck", "httpCheckApp", "httpRegister"} =>
                             HttpTunnel(reg'[s]).subdomain \in Asks(s)
                      /\ \A j \in DOMAIN tunnels'[s] :
                             tunnels'[s][j].type = "http" =>
                                 tunnels'[s][j].subdomain \in Asks(s)
    BY DEF AskedFor, SubdomainOf, Asks
  <1>0. /\ TypeOK
        /\ pc[s] \in {"httpCheck", "httpCheckApp", "httpRegister"} =>
               HttpTunnel(reg[s]).subdomain \in Asks(s)
        /\ \A i \in DOMAIN tunnels[s] :
               tunnels[s][i].type = "http" => tunnels[s][i].subdomain \in Asks(s)
    BY DEF IInv, AskedFor, SubdomainOf
  <1>1. \A r \in Requests[s] : r.type = "http" => HttpTunnel(r).subdomain \in Asks(s)
    BY DEF Asks
  <1>2. pc'[s] \in {"httpCheck", "httpCheckApp", "httpRegister"} =>
            HttpTunnel(reg'[s]).subdomain \in Asks(s)
    BY <1>0, <1>1, HttpMoves
  <1>3. ASSUME NEW j \in DOMAIN tunnels'[s], tunnels'[s][j].type = "http"
        PROVE  tunnels'[s][j].subdomain \in Asks(s)
    <2>1. CASE RegisterHTTP(s) /\ tunnels'[s][j] = HttpTunnel(reg[s])
      BY <1>0, <2>1 DEF RegisterHTTP
    <2> QED
      BY <1>0, <1>3, <2>1, TunnelMoves
  <1> QED
    BY <1>2, <1>3

(* A route to a subdomain nobody else asks for is not touched by others: a *)
(* client's tunnels have the subdomains it asked for.                      *)
LEMMA SoleRoute ==
    ASSUME IInv, AskedFor, [Next]_vars, NEW s \in Session, NEW n \in Name, Sole(s, n),
           bySubdomain'[n] # bySubdomain[n]
    PROVE  \/ RegisterHTTP(s) /\ bySubdomain'[n] = s /\ n = SubdomainOf(s)
           \/ RemoveClient(s)
           \/ \E m \in Name : RemoveTunnelByName(s, m)
  <1>0. TypeOK
    BY DEF IInv
  <1>1. ASSUME NEW t \in Session, t # s
        PROVE  /\ n \notin Subdomains(t)
               /\ pc[t] = "httpRegister" => n # SubdomainOf(t)
    <2>1. n \notin Asks(t)
      BY <1>1, SoleAsks
    <2>2. ASSUME NEW i \in DOMAIN tunnels[t] PROVE tunnels[t][i].subdomain # n
      <3>1. tunnels[t][i].type = "http" \/ tunnels[t][i].subdomain = None
        BY <1>0, TunnelsTyped, TunnelFields
      <3> QED
        BY <2>1, <3>1, NoneAssumption DEF AskedFor
    <2> QED
      BY <2>1, <2>2 DEF Subdomains, AskedFor
  <1>2. ASSUME NEW t \in Session, RemoveClient(t) PROVE t = s
    <2>1. n \in Subdomains(t)
      BY <1>0, <1>2, WithoutSubdomains DEF RemoveClient, TypeOK
    <2> QED
      BY <1>1, <2>1
  <1>3. ASSUME NEW t \in Session, NEW m \in Name, RemoveTunnelByName(t, m) PROVE t = s
    <2>1. PICK i \in DOMAIN tunnels[t] :
            bySubdomain' = Without(bySubdomain, {tunnels[t][i].subdomain})
      BY <1>3 DEF RemoveTunnelByName
    <2>2. n = tunnels[t][i].subdomain
      BY <1>0, <2>1, WithoutSubdomains DEF TypeOK
    <2> QED
      BY <1>1, <2>2 DEF Subdomains
  <1>4. ASSUME NEW t \in Session, RegisterHTTP(t)
        PROVE  t = s /\ bySubdomain'[n] = s /\ n = SubdomainOf(s)
    <2>1. n = SubdomainOf(t) /\ bySubdomain'[n] = t
      BY <1>0, <1>4 DEF RegisterHTTP, TypeOK
    <2> QED
      BY <1>1, <1>4, <2>1 DEF RegisterHTTP
  <1>5. ASSUME CloseAll \/ \E t \in Session : AddClient(t) \/ RegisterTCP(t)
        PROVE  FALSE
    BY <1>5 DEF CloseAll, AddClient, RegisterTCP
  <1> QED
    BY <1>2, <1>3, <1>4, <1>5, RouteMoves

LEMMA SoleUnroutedNext ==
    ASSUME IInv, AskedFor, SoleUnrouted, [Next]_vars
    PROVE  SoleUnrouted'
  <1> SUFFICES ASSUME NEW s \in Session, pc'[s] \in {"httpCheckApp", "httpRegister"},
                      Sole(s, HttpTunnel(reg'[s]).subdomain)
               PROVE  bySubdomain'[HttpTunnel(reg'[s]).subdomain] = None
    BY DEF SoleUnrouted, SubdomainOf, Sole
  <1> DEFINE n == SubdomainOf(s)
  <1>0. TypeOK
    BY DEF IInv
  <1>1. /\ reg'[s] = reg[s] /\ ~RegisterHTTP(s)
        /\ \/ pc[s] \in {"httpCheckApp", "httpRegister"}
           \/ pc[s] = "httpCheck" /\ bySubdomain[n] = None
    BY <1>0, HttpMoves
  <1>2. HttpTunnel(reg'[s]).subdomain = n /\ Sole(s, n) /\ n \in Name
    BY <1>0, <1>1, NewTunnels DEF SubdomainOf, TypeOK, HandlerWF, Registering
  <1> HIDE DEF n
  <1>3. bySubdomain[n] = None
    BY <1>1, <1>2 DEF SoleUnrouted, n
  <1>4. /\ ~RemoveClient(s)
        /\ \A m \in Name : ~RegisterHTTP(s)
    BY <1>1 DEF RemoveClient
  <1>5. ASSUME NEW m \in Name, RemoveTunnelByName(s, m)
        PROVE  bySubdomain'[n] \in {None, bySubdomain[n]}
    <2>1. PICK i \in DOMAIN tunnels[s] :
            bySubdomain' = Without(bySubdomain, {tunnels[s][i].subdomain})
      BY <1>5 DEF RemoveTunnelByName
    <2> QED
      BY <1>0, <1>2, <2>1, WithoutSubdomains DEF TypeOK
  <1> QED
    BY <1>1, <1>2, <1>3, <1>4, <1>5, SoleRoute

(* A client whose tunnels are among those it had, with routes untouched. *)
LEMMA OwnOfKept ==
    ASSUME NEW s, OwnOf(s), NEW place,
           \A j \in DOMAIN tunnels'[s] :
               /\ place[j] \in DOMAIN tunnels[s]
               /\ tunnels'[s][j].type = tunnels[s][place[j]].type
               /\ tunnels'[s][j].subdomain = tunnels[s][place[j]].subdomain
               /\ tunnels'[s][j].type = "http" /\ Sole(s, tunnels'[s][j].subdomain) =>
                      bySubdomain'[tunnels'[s][j].subdomain] =
                          bySubdomain[tunnels'[s][j].subdomain],
           \A j, k \in DOMAIN tunnels'[s] : place[j] = place[k] => j = k
    PROVE  OwnOf(s)'
  BY DEF OwnOf, Sole

(* The routes it relies on are untouched unless it changes them itself. *)
LEMMA OwnRoutes ==
    ASSUME IInv, AskedFor, [Next]_vars, NEW s \in Session, ~RegisterHTTP(s),
           ~RemoveClient(s), \A m \in Name : ~RemoveTunnelByName(s, m),
           NEW n \in Name, Sole(s, n)
    PROVE  bySubdomain'[n] = bySubdomain[n]
  BY SoleRoute

(* Only one tunnel of a client goes by a removal, and no other one has the *)
(* route that goes with it.                                                *)
LEMMA OwnRemove ==
    ASSUME IInv, TypeOK', AskedFor, [Next]_vars, NEW s \in Session, NEW m \in Name,
           RemoveTunnelByName(s, m), OwnOf(s)
    PROVE  OwnOf(s)'
  <1>0. TypeOK
    BY DEF IInv
  <1>1. PICK i \in DOMAIN tunnels[s] :
          /\ bySubdomain' = Without(bySubdomain, {tunnels[s][i].subdomain})
          /\ tunnels' = [tunnels EXCEPT ![s] = RemoveAt(@, i)]
    BY DEF RemoveTunnelByName
  <1>2. /\ \A j \in DOMAIN tunnels'[s] :
             /\ OldPlace(i, j) \in DOMAIN tunnels[s]
             /\ OldPlace(i, j) # i
             /\ tunnels'[s][j] = tunnels[s][OldPlace(i, j)]
        /\ \A j, k \in DOMAIN tunnels'[s] :
             OldPlace(i, j) = OldPlace(i, k) => j = k
    <2>1. TypeOK /\ tunnels' = [tunnels EXCEPT ![s] = RemoveAt(@, i)]
      BY <1>0, <1>1
    <2>2. \A j \in DOMAIN tunnels'[s] :
            /\ OldPlace(i, j) \in DOMAIN tunnels[s]
            /\ OldPlace(i, j) # i
            /\ tunnels'[s][j] = tunnels[s][OldPlace(i, j)]
      BY <2>1, RemovedTunnel
    <2>3. \A j, k \in DOMAIN tunnels'[s] : OldPlace(i, j) = OldPlace(i, k) => j = k
      BY <2>1, RemovedTunnel, ZenonT(30)
    <2> QED
      BY <2>2, <2>3
  <1> DEFINE place == [j \in DOMAIN tunnels'[s] |-> OldPlace(i, j)]
  <1>3. \A j \in DOMAIN tunnels'[s] : place[j] = OldPlace(i, j)
    OBVIOUS
  <1> HIDE DEF place
  <1>4. ASSUME NEW j \in DOMAIN tunnels'[s], tunnels'[s][j].type = "http",
               Sole(s, tunnels'[s][j].subdomain)
        PROVE  bySubdomain'[tunnels'[s][j].subdomain] =
                   bySubdomain[tunnels'[s][j].subdomain]
    <2> DEFINE o == OldPlace(i, j)
               n == tunnels'[s][j].subdomain
    <2>1. /\ o \in DOMAIN tunnels[s] /\ o # i
          /\ tunnels[s][o].type = "http" /\ tunnels[s][o].subdomain = n
      BY <1>2, <1>4
    <2>2. n \in Name
      BY <1>0, <2>1, TunnelsTyped, TunnelFields
    <2> HIDE DEF o
    <2>3. n # tunnels[s][i].subdomain
      <3> SUFFICES ASSUME n = tunnels[s][i].subdomain PROVE FALSE
        OBVIOUS
      <3>1. tunnels[s][i].type = "http"
        BY <1>0, <2>2, TunnelsTyped, TunnelFields, NoneAssumption
      <3> QED
        BY <1>4, <2>1, <3>1 DEF OwnOf
    <2> HIDE DEF n
    <2>4. bySubdomain'[n] = bySubdomain[n]
      BY <1>0, <1>1, <2>2, <2>3, WithoutSubdomains DEF TypeOK
    <2> QED
      BY <2>4 DEF n
  <1> QED
    BY <1>2, <1>3, <1>4, OwnOfKept

(* The new tunnel has the route, and no earlier one has its subdomain.     *)
LEMMA OwnRegister ==
    ASSUME IInv, TypeOK', SoleUnrouted, NEW s \in Session, RegisterHTTP(s), OwnOf(s)
    PROVE  OwnOf(s)'
  <1> DEFINE t == HttpTunnel(reg[s])
             n == SubdomainOf(s)
             k == Len(tunnels[s]) + 1
  <1>0. TypeOK
    BY DEF IInv
  <1>1. t \in Tunnel /\ t.subdomain = n /\ n \in Name
    BY <1>0, NewTunnels DEF RegisterHTTP, TypeOK, HandlerWF, Registering, SubdomainOf
  <1>2. /\ DOMAIN tunnels'[s] = DOMAIN tunnels[s] \cup {k}
        /\ \A i \in DOMAIN tunnels[s] : tunnels'[s][i] = tunnels[s][i]
        /\ tunnels'[s][k] = t
        /\ k \notin DOMAIN tunnels[s]
    BY <1>0, <1>1, Appended DEF RegisterHTTP
  <1>3. bySubdomain' = [bySubdomain EXCEPT ![n] = s]
    BY DEF RegisterHTTP
  <1>4. Sole(s, n) => bySubdomain[n] # s
    BY NoneAssumption DEF SoleUnrouted, RegisterHTTP
  <1> HIDE DEF t, n, k
  <1>5. Sole(s, n) => \A i \in DOMAIN tunnels[s] :
                          tunnels[s][i].type = "http" => tunnels[s][i].subdomain # n
    BY <1>4 DEF OwnOf
  <1>6. ASSUME NEW i \in DOMAIN tunnels'[s], tunnels'[s][i].type = "http",
               Sole(s, tunnels'[s][i].subdomain)
        PROVE  bySubdomain'[tunnels'[s][i].subdomain] = s
    <2>1. CASE tunnels'[s][i].subdomain = n
      BY <1>0, <1>1, <1>3, <2>1 DEF TypeOK
    <2>2. CASE tunnels'[s][i].subdomain # n
      <3>1. i \in DOMAIN tunnels[s] /\ tunnels'[s][i] = tunnels[s][i]
        BY <1>1, <1>2, <2>2
      <3>2. tunnels[s][i].subdomain \in Name /\ bySubdomain[tunnels[s][i].subdomain] = s
        BY <1>0, <1>6, <3>1, TunnelsTyped, TunnelFields DEF OwnOf
      <3> QED
        BY <1>0, <1>3, <2>2, <3>1, <3>2 DEF TypeOK
    <2> QED
      BY <2>1, <2>2
  <1>7. ASSUME NEW i \in DOMAIN tunnels'[s], NEW j \in DOMAIN tunnels'[s],
               tunnels'[s][i].type = "http", tunnels'[s][j].type = "http",
               tunnels'[s][i].subdomain = tunnels'[s][j].subdomain,
               Sole(s, tunnels'[s][i].subdomain)
        PROVE  i = j
    <2>1. CASE i \in DOMAIN tunnels[s] /\ j \in DOMAIN tunnels[s]
      BY <1>2, <1>7, <2>1 DEF OwnOf
    <2>2. CASE i = k /\ j = k
      BY <2>2
    <2>3. CASE i = k /\ j \in DOMAIN tunnels[s]
      BY <1>1, <1>2, <1>5, <1>7, <2>3
    <2>4. CASE i \in DOMAIN tunnels[s] /\ j = k
      BY <1>1, <1>2, <1>5, <1>7, <2>4
    <2> QED
      BY <1>2, <2>1, <2>2, <2>3, <2>4
  <1> QED
    BY <1>6, <1>7 DEF OwnOf, Sole

(* A TCP tunnel has no subdomain. *)
LEMMA OwnRegisterTCP ==
    ASSUME IInv, TypeOK', NEW s \in Session, RegisterTCP(s), OwnOf(s)
    PROVE  OwnOf(s)'
  <1> DEFINE t == TcpTunnel(reg[s], port[s])
             k == Len(tunnels[s]) + 1
  <1>0. TypeOK
    BY DEF IInv
  <1>1. t \in Tunnel /\ t.type = "tcp"
    BY <1>0, NewTunnels DEF RegisterTCP, TypeOK, HandlerWF, Registering, TcpTunnel
  <1>2. /\ DOMAIN tunnels'[s] = DOMAIN tunnels[s] \cup {k}
        /\ \A i \in DOMAIN tunnels[s] : tunnels'[s][i] = tunnels[s][i]
        /\ tunnels'[s][k] = t
        /\ k \notin DOMAIN tunnels[s]
    BY <1>0, <1>1, Appended DEF RegisterTCP
  <1>3. UNCHANGED bySubdomain
    BY DEF RegisterTCP
  <1> HIDE DEF t, k
  <1>4. \A i \in DOMAIN tunnels'[s] : tunnels'[s][i].type = "http" =>
            i \in DOMAIN tunnels[s] /\ tunnels'[s][i] = tunnels[s][i]
    BY <1>1, <1>2
  <1> QED
    BY <1>3, <1>4 DEF OwnOf, Sole

LEMMA OwnNext ==
    ASSUME IInv, OwnInv, [Next]_vars
    PROVE  OwnInv'
  <1>0. TypeOK /\ TypeOK' /\ AskedFor /\ SoleUnrouted
    BY TypeNext DEF IInv, OwnInv
  <1>1. AskedFor'
    BY <1>0, AskedNext
  <1>2. SoleUnrouted'
    BY <1>0, SoleUnroutedNext
  <1>3. ASSUME NEW s \in byID' PROVE OwnOf(s)'
    <2>0. s \in Session
      BY <1>0 DEF TypeOK
    <2>1. CASE s \notin byID
      <3>1. AddClient(s)
        BY <2>0, <2>1, RouteMoves DEF AddClient, RemoveClient, RegisterHTTP,
            RegisterTCP, RemoveTunnelByName, CloseAll
      <3>2. tunnels'[s] = <<>>
        BY <2>0, <3>1 DEF AddClient, IInv, FreshIsEmpty
      <3>3. \A j \in DOMAIN tunnels'[s] : FALSE
        BY <3>2
      <3> QED
        BY <3>3 DEF OwnOf
    <2>2. CASE s \in byID
      <3>1. OwnOf(s)
        BY <2>2, OwnOfAll DEF OwnInv
      <3>2. ~RemoveClient(s)
        BY DEF RemoveClient
      <3>3. CASE RegisterHTTP(s)
        BY <1>0, <2>0, <3>1, <3>3, OwnRegister
      <3>4. CASE RegisterTCP(s)
        BY <1>0, <2>0, <3>1, <3>4, OwnRegisterTCP
      <3>5. CASE \E m \in Name : RemoveTunnelByName(s, m)
        BY <1>0, <2>0, <3>1, <3>5, OwnRemove
      <3>6. CASE /\ ~RegisterHTTP(s) /\ ~RegisterTCP(s)
                 /\ \A m \in Name : ~RemoveTunnelByName(s, m)
        <4>1. tunnels'[s] = tunnels[s] \/ tunnels'[s] = CloseListeners(tunnels[s])
          <5>1. ASSUME NEW t \in Session, t # s,
                       \/ RemoveClient(t) \/ RegisterHTTP(t) \/ RegisterTCP(t)
                       \/ \E n \in Name : RemoveTunnelByName(t, n)
                PROVE  tunnels'[s] = tunnels[s]
            BY <1>0, <2>0, <5>1 DEF TypeOK, RemoveClient, RegisterHTTP, RegisterTCP,
                                    RemoveTunnelByName
          <5>2. ASSUME NEW t \in Session, AddClient(t) PROVE tunnels'[s] = tunnels[s]
            BY <5>2 DEF AddClient
          <5>3. CASE CloseAll
            BY <2>0, <5>3 DEF CloseAll
          <5> QED
            BY <3>2, <3>6, <5>1, <5>2, <5>3, RouteMoves
        <4>2. /\ DOMAIN tunnels'[s] = DOMAIN tunnels[s]
              /\ \A j \in DOMAIN tunnels'[s] :
                   /\ tunnels'[s][j].type = tunnels[s][j].type
                   /\ tunnels'[s][j].subdomain = tunnels[s][j].subdomain
          BY <1>0, <2>0, <4>1, ClosedHeads
        <4>3. ASSUME NEW n \in Name, Sole(s, n) PROVE bySubdomain'[n] = bySubdomain[n]
          BY <1>0, <2>0, <3>2, <3>6, <4>3, OwnRoutes
        <4>4. \A j \in DOMAIN tunnels'[s] :
                tunnels'[s][j].type = "http" => tunnels'[s][j].subdomain \in Name
          BY <1>0, <2>0, <4>2, TunnelsTyped, TunnelFields
        <4> QED
          BY <3>1, <4>2, <4>3, <4>4 DEF OwnOf, Sole
      <3> QED
        BY <3>3, <3>4, <3>5, <3>6
    <2> QED
      BY <2>1, <2>2
  <1>4. OwnSubdomainKept' /\ SoleOnce'
    BY <1>3 DEF OwnSubdomainKept, SoleOnce, OwnOf, Sole
  <1> QED
    BY <1>1, <1>2, <1>4 DEF OwnInv

LEMMA OwnInit == Init => OwnInv
  BY DEF Init, OwnInv, AskedFor, SoleUnrouted, SoleOnce, OwnSubdomainKept

(* A client keeps the route to a subdomain that no other client ever asks  *)
(* for, although removals delete routes by key (server.go:282, 345).       *)
THEOREM OwnSubdomainStays == Spec => []OwnSubdomainKept
  <1>1. Spec => []OwnInv
    BY Invariant, OwnInit, OwnNext, PTL DEF Spec
  <1>2. OwnInv => OwnSubdomainKept
    BY DEF OwnInv
  <1> QED
    BY <1>1, <1>2, PTL
=============================================================================
