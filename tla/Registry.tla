------------------------------ MODULE Registry ------------------------------
(***************************************************************************)
(* The server's registry of clients, tunnels and routes                    *)
(* (internal/server/server.go), with everything that runs against it       *)
(* concurrently: one control handler per client session (control.go), the  *)
(* public HTTP requests that look a route up (http_proxy.go), the admin    *)
(* operations, promoted apps coming and going, and shutdown.               *)
(*                                                                         *)
(* An action is one critical section of registry.mu, or one step between   *)
(* two of them that others can see (net.Listen, the end of a session).     *)
(***************************************************************************)
EXTENDS Integers, Sequences, SequencesExt

CONSTANTS Session,       \* client sessions; an id is never reused (newID)
          Name,          \* labels, used as tunnel names and as subdomains
          Port,          \* the TCP ports of the model
          TCPPortMin,    \* --tcp-port-range, 0 when there is none
          TCPPortMax,
          AllowedPorts,  \* --allowed-ports, empty when every port is allowed
          Requests,      \* the RegisterTunnel messages each session may send
          MaxMessages,   \* bound: RegisterTunnel messages read per session
          Visitor,       \* public HTTP requests that may be in flight at once
          None

Request == [name : Name, type : {"http", "tcp", "unknown"},
            subdomain : Name \cup {None}, port : Port \cup {0}]

ASSUME PortAssumption ==
    /\ Port \subseteq Nat \ {0}
    /\ TCPPortMin \in Nat /\ TCPPortMax \in Nat
    /\ TCPPortMin # 0 => /\ TCPPortMin <= TCPPortMax
                         /\ TCPPortMin..TCPPortMax \subseteq Port
    /\ AllowedPorts \subseteq Port
ASSUME RequestAssumption == Requests \in [Session -> SUBSET Request]
ASSUME BoundAssumption == MaxMessages \in Nat
ASSUME NoneAssumption == None \notin Session \cup Name

VARIABLES byID,         \* the sessions registry.byID holds
          bySubdomain,  \* the session each subdomain is routed to, or None
          byPort,       \* the session each TCP port is routed to, or None
          tunnels,      \* clientEntry.tunnels of each session
          closed,       \* sessions whose yamux session is closed
          pc,           \* where each control handler is
          reg,          \* the RegisterTunnel message it is working on
          port,         \* its local variable port
          received,     \* how many RegisterTunnel messages it has read
          visit,        \* the public HTTP requests in flight
          deployedApps, \* the subdomains served by a promoted app
          down          \* closeAll has run

registryVars == <<byID, bySubdomain, byPort, tunnels>>
handlerVars == <<pc, reg, port, received>>
vars == <<byID, bySubdomain, byPort, tunnels, closed, pc, reg, port, received,
          visit, deployedApps, down>>

\* The states in which a handler works on a RegisterTunnel message, ...
Registering == {"httpCheck", "httpCheckApp", "httpRegister",
                "tcpPick", "tcpCheck", "tcpListen", "tcpRegister"}
\* ... in which run() is between addClient and removeClient, and all.
Registered == Registering \cup {"loop", "exiting"}
HandlerState == Registered \cup {"new", "authed", "done"}

\* tunnelEntry; open: it has a tcpLn and the listener is not closed.
Tunnel == [name : Name, type : {"http"}, subdomain : Name, port : {0},
           open : {FALSE}]
    \cup  [name : Name, type : {"tcp"}, subdomain : {None}, port : Port,
           open : BOOLEAN]

HttpTunnel(r) == [name |-> r.name, type |-> "http", port |-> 0, open |-> FALSE,
                  subdomain |-> IF r.subdomain = None THEN r.name
                                                      ELSE r.subdomain]
TcpTunnel(r, p) == [name |-> r.name, type |-> "tcp", subdomain |-> None,
                    port |-> p, open |-> TRUE]

Idle == [pc |-> "idle", subdomain |-> None, entry |-> None]
Visit == [pc : {"idle", "lookup", "app", "find", "tunnel", "promoted",
                "none", "missing"},
          subdomain : Name \cup {None}, entry : Session \cup {None}]

Init == /\ byID = {}
        /\ bySubdomain = [n \in Name |-> None]
        /\ byPort = [p \in Port |-> None]
        /\ tunnels = [s \in Session |-> <<>>]
        /\ closed = {}
        /\ pc = [s \in Session |-> "new"]
        /\ reg = [s \in Session |-> None]
        /\ port = [s \in Session |-> 0]
        /\ received = [s \in Session |-> 0]
        /\ visit = [v \in Visitor |-> Idle]
        /\ deployedApps \in SUBSET Name
        /\ down = FALSE

-----------------------------------------------------------------------------
(* Helpers *)

Goto(s, l) == pc' = [pc EXCEPT ![s] = l]

SubdomainOf(s) == HttpTunnel(reg[s]).subdomain

\* Somebody listens on p: a registered tunnel, or a handler between
\* net.Listen and registerTCP.
Bound(p) == \/ \E s \in Session : \E i \in DOMAIN tunnels[s] :
                  tunnels[s][i].open /\ tunnels[s][i].port = p
            \/ \E s \in Session : pc[s] = "tcpRegister" /\ port[s] = p

CloseListeners(q) == [i \in DOMAIN q |-> [q[i] EXCEPT !.open = FALSE]]

Subdomains(s) == {tunnels[s][i].subdomain : i \in DOMAIN tunnels[s]}
Ports(s) == {tunnels[s][i].port : i \in DOMAIN tunnels[s]}

Without(route, keys) == [k \in DOMAIN route |-> IF k \in keys THEN None
                                                              ELSE route[k]]
-----------------------------------------------------------------------------
(* The control handler of a session: run, authenticate, loop *)

\* The first stream is accepted and the token checked; the client is told
\* that it is in before the registry knows it.
AuthOK(s) ==
    /\ pc[s] = "new"
    /\ Goto(s, "authed")
    /\ UNCHANGED <<registryVars, closed, reg, port, received, visit,
                   deployedApps, down>>

\* No stream, no auth message, a wrong token or no way to send the ack.
AuthFail(s) ==
    /\ pc[s] = "new"
    /\ Goto(s, "done")
    /\ closed' = closed \cup {s}
    /\ UNCHANGED <<registryVars, reg, port, received, visit, deployedApps, down>>

AddClient(s) ==
    /\ pc[s] = "authed"
    /\ byID' = byID \cup {s}
    /\ Goto(s, "loop")
    /\ UNCHANGED <<bySubdomain, byPort, tunnels, closed, reg, port, received,
                   visit, deployedApps, down>>

\* Mutant: port 0 is not taken for a request to pick one.
RecvRegisterPortZero(s, r) ==
    /\ pc[s] = "loop"
    /\ received[s] < MaxMessages
    /\ received' = [received EXCEPT ![s] = @ + 1]
    /\ reg' = [reg EXCEPT ![s] = r]
    /\ port' = [port EXCEPT ![s] = r.port]
    /\ Goto(s, CASE r.type = "http" -> "httpCheck"
                 [] r.type = "tcp" -> "tcpCheck"
                 [] OTHER -> "loop")
    /\ UNCHANGED <<registryVars, closed, visit, deployedApps, down>>

\* A message already received is read even when the session is closed.
RecvRegister(s, r) ==
    /\ pc[s] = "loop"
    /\ received[s] < MaxMessages
    /\ received' = [received EXCEPT ![s] = @ + 1]
    /\ reg' = [reg EXCEPT ![s] = r]
    /\ port' = [port EXCEPT ![s] = IF r.port = 0 THEN TCPPortMin ELSE r.port]
    /\ \/ r.type = "http" /\ Goto(s, "httpCheck")
       \/ r.type = "tcp" /\ r.port # 0 /\ Goto(s, "tcpCheck")
       \/ r.type = "tcp" /\ r.port = 0 /\ TCPPortMin # 0 /\ Goto(s, "tcpPick")
       \/ /\ r.type # "http"
          /\ r.type = "tcp" => r.port = 0 /\ TCPPortMin = 0
          /\ Goto(s, "loop")
    /\ UNCHANGED <<registryVars, closed, visit, deployedApps, down>>

\* ctrl.Recv fails once the session is closed (or the stream is).
LoopExit(s) ==
    /\ pc[s] = "loop"
    /\ Goto(s, "exiting")
    /\ closed' = closed \cup {s}
    /\ UNCHANGED <<registryVars, reg, port, received, visit, deployedApps, down>>

\* Mutant: the listeners are left open.
RemoveClientKeepsListeners(s) ==
    /\ pc[s] = "exiting"
    /\ byID' = byID \ {s}
    /\ bySubdomain' = Without(bySubdomain, Subdomains(s))
    /\ byPort' = Without(byPort, Ports(s))
    /\ Goto(s, "done")
    /\ UNCHANGED <<tunnels, closed, reg, port, received, visit, deployedApps, down>>

\* Mutant: the HTTP routes are left behind.
RemoveClientKeepsRoutes(s) ==
    /\ pc[s] = "exiting"
    /\ byID' = byID \ {s}
    /\ byPort' = Without(byPort, Ports(s))
    /\ tunnels' = [tunnels EXCEPT ![s] = CloseListeners(@)]
    /\ Goto(s, "done")
    /\ UNCHANGED <<bySubdomain, closed, reg, port, received, visit, deployedApps,
                   down>>

\* The entry keeps its tunnels: a request that found it still reads them.
RemoveClient(s) ==
    /\ pc[s] = "exiting"
    /\ byID' = byID \ {s}
    /\ bySubdomain' = Without(bySubdomain, Subdomains(s))
    /\ byPort' = Without(byPort, Ports(s))
    /\ tunnels' = [tunnels EXCEPT ![s] = CloseListeners(@)]
    /\ Goto(s, "done")
    /\ UNCHANGED <<closed, reg, port, received, visit, deployedApps, down>>

-----------------------------------------------------------------------------
(* registerHTTP: three looks at shared state, then the write *)

\* Mutant: the subdomain is not looked up.
HttpCheckUnguarded(s) ==
    /\ pc[s] = "httpCheck"
    /\ Goto(s, "httpCheckApp")
    /\ UNCHANGED <<registryVars, closed, reg, port, received, visit,
                   deployedApps, down>>

HttpCheck(s) ==
    /\ pc[s] = "httpCheck"
    /\ Goto(s, IF bySubdomain[SubdomainOf(s)] # None THEN "loop"
                                                     ELSE "httpCheckApp")
    /\ UNCHANGED <<registryVars, closed, reg, port, received, visit,
                   deployedApps, down>>

\* Mutant: the promoted apps are not looked at.
HttpCheckAppUnguarded(s) ==
    /\ pc[s] = "httpCheckApp"
    /\ Goto(s, "httpRegister")
    /\ UNCHANGED <<registryVars, closed, reg, port, received, visit,
                   deployedApps, down>>

HttpCheckApp(s) ==
    /\ pc[s] = "httpCheckApp"
    /\ Goto(s, IF SubdomainOf(s) \in deployedApps THEN "loop"
                                                  ELSE "httpRegister")
    /\ UNCHANGED <<registryVars, closed, reg, port, received, visit,
                   deployedApps, down>>

\* Mutant: the route is set and the tunnel never appended.
RegisterHTTPNoAppend(s) ==
    /\ pc[s] = "httpRegister"
    /\ bySubdomain' = [bySubdomain EXCEPT ![SubdomainOf(s)] = s]
    /\ Goto(s, "loop")
    /\ UNCHANGED <<byID, byPort, tunnels, closed, reg, port, received, visit,
                   deployedApps, down>>

RegisterHTTP(s) ==
    /\ pc[s] = "httpRegister"
    /\ bySubdomain' = [bySubdomain EXCEPT ![SubdomainOf(s)] = s]
    /\ tunnels' = [tunnels EXCEPT ![s] = Append(@, HttpTunnel(reg[s]))]
    /\ Goto(s, "loop")
    /\ UNCHANGED <<byID, byPort, closed, reg, port, received, visit,
                   deployedApps, down>>

-----------------------------------------------------------------------------
(* registerTCP *)

\* One iteration of pickTCPPort, one isPortTaken.
TcpPick(s) ==
    /\ pc[s] = "tcpPick"
    /\ \/ /\ port[s] > TCPPortMax
          /\ Goto(s, "loop")
          /\ UNCHANGED port
       \/ /\ port[s] <= TCPPortMax
          /\ byPort[port[s]] # None
          /\ port' = [port EXCEPT ![s] = @ + 1]
          /\ UNCHANGED pc
       \/ /\ port[s] <= TCPPortMax
          /\ byPort[port[s]] = None
          /\ Goto(s, "tcpCheck")
          /\ UNCHANGED port
    /\ UNCHANGED <<registryVars, closed, reg, received, visit, deployedApps, down>>

Allowed(p) == AllowedPorts = {} \/ p \in AllowedPorts

\* The allow list, then isPortTaken.
TcpCheck(s) ==
    /\ pc[s] = "tcpCheck"
    /\ Goto(s, IF Allowed(port[s]) /\ byPort[port[s]] = None THEN "tcpListen"
                                                             ELSE "loop")
    /\ UNCHANGED <<registryVars, closed, reg, port, received, visit,
                   deployedApps, down>>

\* The operating system gives the port to one listener.
TcpListen(s) ==
    /\ pc[s] = "tcpListen"
    /\ ~Bound(port[s])
    /\ Goto(s, "tcpRegister")
    /\ UNCHANGED <<registryVars, closed, reg, port, received, visit,
                   deployedApps, down>>

\* In use here, in use by another program, or not permitted.
TcpListenErr(s) ==
    /\ pc[s] = "tcpListen"
    /\ Goto(s, "loop")
    /\ UNCHANGED <<registryVars, closed, reg, port, received, visit,
                   deployedApps, down>>

RegisterTCP(s) ==
    /\ pc[s] = "tcpRegister"
    /\ byPort' = [byPort EXCEPT ![port[s]] = s]
    /\ tunnels' = [tunnels EXCEPT ![s] = Append(@, TcpTunnel(reg[s], port[s]))]
    /\ Goto(s, "loop")
    /\ UNCHANGED <<byID, bySubdomain, closed, reg, port, received, visit,
                   deployedApps, down>>

-----------------------------------------------------------------------------
(* The admin's operations, the end of a session, shutdown, promoted apps *)

\* The index of the first tunnel of s called n.
IsFirst(s, n, i) == /\ i \in DOMAIN tunnels[s]
                    /\ tunnels[s][i].name = n
                    /\ \A j \in 1..(i - 1) : tunnels[s][j].name # n

\* Mutant: the tunnel is unlisted and its listener forgotten.
RemoveTunnelByNameLeaks(s, n) ==
    /\ s \in byID
    /\ \E i \in DOMAIN tunnels[s] :
         /\ IsFirst(s, n, i)
         /\ bySubdomain' = Without(bySubdomain, {tunnels[s][i].subdomain})
         /\ tunnels' = [tunnels EXCEPT ![s] = RemoveAt(@, i)]
    /\ UNCHANGED <<byID, byPort, closed, handlerVars, visit, deployedApps, down>>

\* Dropping the tunnel drops its listener too: removeTunnelByName closes it.
RemoveTunnelByName(s, n) ==
    /\ s \in byID
    /\ \E i \in DOMAIN tunnels[s] :
         /\ IsFirst(s, n, i)
         /\ bySubdomain' = Without(bySubdomain, {tunnels[s][i].subdomain})
         /\ byPort' = Without(byPort, {tunnels[s][i].port})
         /\ tunnels' = [tunnels EXCEPT ![s] = RemoveAt(@, i)]
    /\ UNCHANGED <<byID, closed, handlerVars, visit, deployedApps, down>>

\* Mutant: the admin's disconnect takes the client out of the registry.
DisconnectClientForgets(s) ==
    /\ s \in byID
    /\ closed' = closed \cup {s}
    /\ byID' = byID \ {s}
    /\ bySubdomain' = Without(bySubdomain, Subdomains(s))
    /\ byPort' = Without(byPort, Ports(s))
    /\ tunnels' = [tunnels EXCEPT ![s] = CloseListeners(@)]
    /\ UNCHANGED <<handlerVars, visit, deployedApps, down>>

\* Mutant: it closes the listeners at once and leaves the ports to removeClient.
DisconnectClientCloses(s) ==
    /\ s \in byID
    /\ closed' = closed \cup {s}
    /\ tunnels' = [tunnels EXCEPT ![s] = CloseListeners(@)]
    /\ UNCHANGED <<byID, bySubdomain, byPort, handlerVars, visit, deployedApps, down>>

DisconnectClient(s) ==
    /\ s \in byID
    /\ closed' = closed \cup {s}
    /\ UNCHANGED <<registryVars, handlerVars, visit, deployedApps, down>>

\* The connection breaks, the client leaves or the heartbeat gives it up.
SessionDies(s) ==
    /\ pc[s] # "new"
    /\ s \notin closed
    /\ closed' = closed \cup {s}
    /\ UNCHANGED <<registryVars, handlerVars, visit, deployedApps, down>>

CloseAll ==
    /\ ~down
    /\ down' = TRUE
    /\ closed' = closed \cup byID
    /\ tunnels' = [s \in Session |-> IF s \in byID THEN CloseListeners(tunnels[s])
                                                  ELSE tunnels[s]]
    /\ UNCHANGED <<byID, bySubdomain, byPort, handlerVars, visit, deployedApps>>

\* A promotion finishes, or a promoted app is stopped.
DeployedAppsChange(n) ==
    /\ deployedApps' = IF n \in deployedApps THEN deployedApps \ {n}
                                             ELSE deployedApps \cup {n}
    /\ UNCHANGED <<registryVars, closed, handlerVars, visit, down>>

-----------------------------------------------------------------------------
(* handleHTTP: the route and the tunnel are looked up under separate locks *)

Arrive(v, n) ==
    /\ visit[v].pc = "idle"
    /\ visit' = [visit EXCEPT ![v] = [pc |-> "lookup", subdomain |-> n,
                                      entry |-> None]]
    /\ UNCHANGED <<registryVars, closed, handlerVars, deployedApps, down>>

LookupHTTP(v) ==
    /\ visit[v].pc = "lookup"
    /\ LET e == bySubdomain[visit[v].subdomain]
       IN  visit' = [visit EXCEPT ![v].entry = e,
                                  ![v].pc = IF e = None THEN "app" ELSE "find"]
    /\ UNCHANGED <<registryVars, closed, handlerVars, deployedApps, down>>

\* Mutant: the apps are not asked.
LoadAppForgotten(v) ==
    /\ visit[v].pc = "app"
    /\ visit' = [visit EXCEPT ![v].pc = "none"]
    /\ UNCHANGED <<registryVars, closed, handlerVars, deployedApps, down>>

LoadApp(v) ==
    /\ visit[v].pc = "app"
    /\ visit' = [visit EXCEPT ![v].pc =
           IF visit[v].subdomain \in deployedApps THEN "promoted" ELSE "none"]
    /\ UNCHANGED <<registryVars, closed, handlerVars, deployedApps, down>>

FindTunnel(v) ==
    /\ visit[v].pc = "find"
    /\ visit' = [visit EXCEPT ![v].pc =
           IF visit[v].subdomain \in Subdomains(visit[v].entry)
           THEN "tunnel" ELSE "missing"]
    /\ UNCHANGED <<registryVars, closed, handlerVars, deployedApps, down>>

Finish(v) ==
    /\ visit[v].pc \in {"tunnel", "promoted", "none", "missing"}
    /\ visit' = [visit EXCEPT ![v] = Idle]
    /\ UNCHANGED <<registryVars, closed, handlerVars, deployedApps, down>>

-----------------------------------------------------------------------------
(* The specification *)

Handler(s) == \/ AuthOK(s) \/ AuthFail(s) \/ AddClient(s)
              \/ \E r \in Requests[s] : RecvRegister(s, r)
              \/ LoopExit(s) \/ RemoveClient(s)
              \/ HttpCheck(s) \/ HttpCheckApp(s) \/ RegisterHTTP(s)
              \/ TcpPick(s) \/ TcpCheck(s)
              \/ TcpListen(s) \/ TcpListenErr(s) \/ RegisterTCP(s)

Operator == \/ \E s \in Session, n \in Name : RemoveTunnelByName(s, n)
            \/ \E s \in Session : DisconnectClient(s) \/ SessionDies(s)
            \/ CloseAll

Public == \E v \in Visitor : \/ \E n \in Name : Arrive(v, n)
                             \/ LookupHTTP(v) \/ LoadApp(v)
                             \/ FindTunnel(v) \/ Finish(v)

Next == \/ \E s \in Session : Handler(s)
        \/ Operator
        \/ Public
        \/ \E n \in Name : DeployedAppsChange(n)

Spec == Init /\ [][Next]_vars

\* A goroutine that can run does; a read on a closed session returns.
Progress(s) == \/ AddClient(s) \/ RemoveClient(s)
               \/ s \in closed /\ LoopExit(s)
               \/ HttpCheck(s) \/ HttpCheckApp(s) \/ RegisterHTTP(s)
               \/ TcpPick(s) \/ TcpCheck(s)
               \/ TcpListen(s) \/ TcpListenErr(s) \/ RegisterTCP(s)

FairSpec == Spec /\ \A s \in Session : WF_vars(Progress(s))

-----------------------------------------------------------------------------
(* Properties *)

\* A handler that works on a request has one, and a port of the model once
\* it has chosen a port.
HandlerWF ==
    \A s \in Session :
        /\ pc[s] \in Registering => reg[s] \in Request
        /\ pc[s] \in {"tcpCheck", "tcpListen", "tcpRegister"} => port[s] \in Port
        /\ pc[s] = "tcpPick" =>
               TCPPortMin # 0 /\ port[s] \in TCPPortMin..(TCPPortMax + 1)

\* A public request has a subdomain until it is answered, and an entry when
\* it has found a route.
VisitWF ==
    \A v \in Visitor :
        /\ visit[v].pc \in {"lookup", "app", "find"} => visit[v].subdomain \in Name
        /\ visit[v].pc = "find" => visit[v].entry \in Session

\* The variables have their types; the one type invariant of this module.
TypeOK ==
    /\ byID \subseteq Session
    /\ bySubdomain \in [Name -> Session \cup {None}]
    /\ byPort \in [Port -> Session \cup {None}]
    /\ tunnels \in [Session -> Seq(Tunnel)]
    /\ closed \subseteq Session
    /\ pc \in [Session -> HandlerState]
    /\ reg \in [Session -> Request \cup {None}]
    /\ port \in [Session -> Nat]
    /\ received \in [Session -> 0..MaxMessages]
    /\ visit \in [Visitor -> Visit]
    /\ deployedApps \subseteq Name
    /\ down \in BOOLEAN
    /\ HandlerWF
    /\ VisitWF

\* A session is in byID exactly while its handler is between addClient and
\* removeClient, whoever disconnects it meanwhile: the entry registerHTTP and
\* registerTCP take from byID (server.go:296, 306) is never nil.
EntryWhileHandled == \A s \in Session : s \in byID <=> pc[s] \in Registered

\* A subdomain is routed only to a client that is still registered and still
\* has a tunnel for it, although removal deletes routes by key, whoever owns
\* them, and two clients may have passed the same check.
NoDanglingRoute ==
    \A n \in Name : bySubdomain[n] # None =>
        /\ bySubdomain[n] \in byID
        /\ \E i \in DOMAIN tunnels[bySubdomain[n]] :
             tunnels[bySubdomain[n]][i].subdomain = n

\* A listener lives no longer than the registration it belongs to: no port
\* stays bound by a client that is gone.
ListenersLive ==
    \A s \in Session : \A i \in DOMAIN tunnels[s] :
        tunnels[s][i].open => s \in byID

\* Two open tunnels never have one port, ...
OneTunnelPerPort ==
    \A s, t \in Session : \A i \in DOMAIN tunnels[s], j \in DOMAIN tunnels[t] :
        /\ tunnels[s][i].open /\ tunnels[t][j].open
        /\ tunnels[s][i].port = tunnels[t][j].port
        => s = t /\ i = j

\* ... nor do two handlers between net.Listen and registerTCP, ...
OneOpeningPerPort ==
    \A s, t \in Session :
        pc[s] = "tcpRegister" /\ pc[t] = "tcpRegister" /\ port[s] = port[t] => s = t

\* ... nor such a handler and an open tunnel.
OpeningIsUnbound ==
    \A s, t \in Session : \A i \in DOMAIN tunnels[s] :
        pc[t] = "tcpRegister" /\ tunnels[s][i].open => tunnels[s][i].port # port[t]

\* What the operating system's guard gives: nobody listens on a port twice.
\* The port table rests on it, since isPortTaken and registerTCP are two
\* critical sections with net.Listen between them.
OneListener == OneTunnelPerPort /\ OneOpeningPerPort /\ OpeningIsUnbound

\* Until shutdown byPort says exactly who listens where: every TCP tunnel of
\* a registered client is listening and its port is routed to that client,
\* and every routed port belongs to a registered client's tunnel.  So no
\* removal of one client's tunnel can take another client's port away.
PortTableExact ==
    /\ ~down => \A s \in byID : \A i \in DOMAIN tunnels[s] :
                  tunnels[s][i].type = "tcp" =>
                      tunnels[s][i].open /\ byPort[tunnels[s][i].port] = s
    /\ \A p \in Port : byPort[p] # None =>
           /\ byPort[p] \in byID
           /\ \E i \in DOMAIN tunnels[byPort[p]] : tunnels[byPort[p]][i].port = p

\* A session has no tunnels before it is in the registry.
FreshIsEmpty ==
    \A s \in Session : pc[s] \in {"new", "authed"} => tunnels[s] = <<>>

\* The inductive invariant: the parts need each other.
IInv == /\ TypeOK
        /\ EntryWhileHandled
        /\ FreshIsEmpty
        /\ NoDanglingRoute
        /\ ListenersLive
        /\ OneListener
        /\ PortTableExact

\* Ports are leased: byPort implements Lease, one critical section of the
\* registry at a time.
PortLease == INSTANCE Lease WITH owner <- byPort, ended <- down
LeaseSpec == PortLease!Spec

\* handleHTTP reads the route and the tunnel under two locks; it answers
\* "tunnel entry missing" (http_proxy.go:48) only when the route it had read
\* is no longer there.
MissingOnlyIfRerouted ==
    [][\A v \in Visitor :
         visit[v].pc = "find" /\ visit'[v].pc = "missing"
           => bySubdomain[visit[v].subdomain] # visit[v].entry]_vars

\* A session that is closed, by whatever side and in whatever state its
\* handler is, is eventually gone for good, with its routes and listeners.
Purged ==
    \A s \in Session :
        s \in closed ~>
            [](/\ s \notin byID
               /\ \A n \in Name : bySubdomain[n] # s
               /\ \A p \in Port : byPort[p] # s
               /\ \A i \in DOMAIN tunnels[s] : ~tunnels[s][i].open)

\* A client that was told its HTTP tunnel is registered keeps the subdomain
\* as long as the tunnel is registered (README.md:33, multi-client).
HttpTableExact ==
    \A s \in byID : \A i \in DOMAIN tunnels[s] :
        tunnels[s][i].type = "http" => bySubdomain[tunnels[s][i].subdomain] = s

\* ... which it does when no other client ever asks for it, whatever is done
\* to the tunnels of the others.
Sole(s, n) == \A t \in Session \ {s} : \A r \in Requests[t] :
                  r.type = "http" => HttpTunnel(r).subdomain # n
OwnSubdomainKept ==
    \A s \in byID : \A i \in DOMAIN tunnels[s] :
        tunnels[s][i].type = "http" /\ Sole(s, tunnels[s][i].subdomain)
            => bySubdomain[tunnels[s][i].subdomain] = s

\* Why: whatever a session registers is a subdomain it asked for, ...
Asks(s) == {HttpTunnel(r).subdomain : r \in {q \in Requests[s] : q.type = "http"}}
AskedFor ==
    \A s \in Session :
        /\ pc[s] \in {"httpCheck", "httpCheckApp", "httpRegister"} =>
               SubdomainOf(s) \in Asks(s)
        /\ \A i \in DOMAIN tunnels[s] :
               tunnels[s][i].type = "http" => tunnels[s][i].subdomain \in Asks(s)

\* ... so what httpCheck saw of a subdomain nobody else asks for is still
\* true when the tunnel is registered, ...
SoleUnrouted ==
    \A s \in Session :
        /\ pc[s] \in {"httpCheckApp", "httpRegister"}
        /\ Sole(s, SubdomainOf(s))
        => bySubdomain[SubdomainOf(s)] = None

\* ... and no client has such a subdomain twice: the removal of one of its
\* tunnels takes no other one's route.
SoleOnce ==
    \A s \in byID : \A i, j \in DOMAIN tunnels[s] :
        /\ tunnels[s][i].type = "http" /\ tunnels[s][j].type = "http"
        /\ tunnels[s][i].subdomain = tunnels[s][j].subdomain
        /\ Sole(s, tunnels[s][i].subdomain)
        => i = j

\* The inductive invariant that OwnSubdomainKept needs, beside IInv.
OwnInv == AskedFor /\ SoleUnrouted /\ SoleOnce /\ OwnSubdomainKept
=============================================================================
