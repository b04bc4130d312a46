------------------------------ MODULE Session ------------------------------
(***************************************************************************)
(* One client and its sessions: connecting, registering its tunnels,       *)
(* reconnecting after a break (internal/client/client.go, control.go), the *)
(* server's handlers at the other end (internal/server/control.go), and    *)
(* the dashboard adding and removing tunnels and setting their project     *)
(* directories (dashboard.go).                                             *)
(*                                                                         *)
(* A break is noticed at the two ends at different times: until the        *)
(* server's heartbeat gives a session up, its tunnels stay registered.     *)
(* A registration checks the subdomain in one critical section and stores  *)
(* the route in another, so the handlers of an old and a new session can   *)
(* both be past the check.                                                 *)
(***************************************************************************)
EXTENDS Naturals, Sequences, FiniteSets, SequencesExt

CONSTANTS Name,        \* HTTP tunnels, each with its name as its subdomain
          Configured,  \* the configuration the client starts with
          Dir,         \* project directories; the client resolves "~"
          StartDir,    \* those the client starts with
          MaxSession,  \* bound: sessions the client opens
          MaxOps,      \* bound: operations from the dashboard
          None

ASSUME ConfiguredAssumption == Configured \in Seq(Name)
ASSUME DirAssumption == /\ StartDir \in [Name -> Dir \cup {None}] /\ None \notin Dir
                        /\ \A n \in Name \ ToSet(Configured) : StartDir[n] = None
ASSUME BoundAssumption == MaxSession \in Nat \ {0} /\ MaxOps \in Nat
ASSUME NoneAssumption == None \notin Name \cup [session : 1..MaxSession, name : Name]

VARIABLES config,    \* the client's cfg.Tunnels
          dir,       \* the directory of the first of them with each name
          client,    \* where the client is: dial, ack, replies or running
          awaiting,  \* replies that connect has still to read
          cur,       \* the client's session: the last one it opened
          toServer,  \* control messages under way on each session
          toClient,
          down,      \* sessions whose connection is gone
          handler,   \* where the server's handler of each session is; in
                     \* "register" it is past the check, and the request it
                     \* works on is still the first of toServer
          tunnels,   \* the tunnels registered by each session
          entryDir,  \* the server's copy of their directories
          route,     \* the session each subdomain is routed to, 0 for none
          removing,  \* handleRemoveTunnel, between its message and its removal
          setting,   \* handlers of set-dir, between their update and their message
          ops        \* operations the dashboard has begun

clientVars == <<config, dir, client, awaiting, cur>>
serverVars == <<handler, tunnels, entryDir, route>>
dashVars == <<removing, setting, ops>>
vars == <<clientVars, toServer, toClient, down, serverVars, dashVars>>

Sessions == 1..MaxSession
Message == [type : {"ack", "registered", "error"}, name : Name \cup {None}]
      \cup [type : {"add", "remove"}, name : Name]
      \cup [type : {"register", "setDir"}, name : Name, dir : Dir \cup {None}]
Msg(t, n) == [type |-> t, name |-> n]
DirMsg(t, n, d) == [type |-> t, name |-> n, dir |-> d]

NoDirs == [n \in Name |-> None]

Init == /\ config = Configured
        /\ dir = StartDir
        /\ client = "dial"
        /\ awaiting = 0
        /\ cur = 0
        /\ toServer = [k \in Sessions |-> <<>>]
        /\ toClient = [k \in Sessions |-> <<>>]
        /\ down = {}
        /\ handler = [k \in Sessions |-> "none"]
        /\ tunnels = [k \in Sessions |-> <<>>]
        /\ entryDir = [k \in Sessions |-> NoDirs]
        /\ route = [n \in Name |-> 0]
        /\ removing = None
        /\ setting = {}
        /\ ops = 0

\* A message sent into a connection that is gone is lost.
Sent(queue, k, ms) == IF k \in down THEN queue
                                    ELSE [queue EXCEPT ![k] = @ \o ms]

Received(queue, k) == [queue EXCEPT ![k] = Tail(@)]

-----------------------------------------------------------------------------
(* The client: Run, connect, controlLoop *)

\* The server is reached and a session set up; a failure is tried again.
Dial ==
    /\ client = "dial"
    /\ cur < MaxSession
    /\ cur' = cur + 1
    /\ client' = "ack"
    /\ handler' = [handler EXCEPT ![cur + 1] = "auth"]
    /\ UNCHANGED <<config, dir, awaiting, toServer, toClient, down, tunnels,
                   entryDir, route, dashVars>>

\* The directory of the i-th tunnel.
DirAt(i) == IF \E j \in 1..(i - 1) : config[j] = config[i] THEN None
                                                        ELSE dir[config[i]]

\* Mutant: the directories are left out of the requests.
RegisterAllNoDirs ==
    /\ client = "ack"
    /\ toClient[cur] # <<>>
    /\ toClient' = Received(toClient, cur)
    /\ toServer' = Sent(toServer, cur,
                        [i \in DOMAIN config |-> DirMsg("register", config[i], None)])
    /\ awaiting' = Len(config)
    /\ client' = IF config = <<>> THEN "running" ELSE "replies"
    /\ UNCHANGED <<config, dir, cur, down, serverVars, dashVars>>

\* The token is accepted: all configured tunnels are asked for at once.
RegisterAll ==
    /\ client = "ack"
    /\ toClient[cur] # <<>>
    /\ toClient' = Received(toClient, cur)
    /\ toServer' = Sent(toServer, cur,
                        [i \in DOMAIN config |->
                            DirMsg("register", config[i], DirAt(i))])
    /\ awaiting' = Len(config)
    /\ client' = IF config = <<>> THEN "running" ELSE "replies"
    /\ UNCHANGED <<config, dir, cur, down, serverVars, dashVars>>

\* Mutant: one message too many is waited for.
ReadReplyOneMore ==
    /\ client = "replies"
    /\ toClient[cur] # <<>>
    /\ toClient' = Received(toClient, cur)
    /\ awaiting' = awaiting - 1
    /\ client' = IF awaiting = 0 THEN "running" ELSE "replies"
    /\ UNCHANGED <<config, dir, cur, toServer, down, serverVars, dashVars>>

\* As many messages are read as tunnels were asked for, whatever they are.
ReadReply ==
    /\ client = "replies"
    /\ toClient[cur] # <<>>
    /\ toClient' = Received(toClient, cur)
    /\ awaiting' = awaiting - 1
    /\ client' = IF awaiting = 1 THEN "running" ELSE "replies"
    /\ UNCHANGED <<config, dir, cur, toServer, down, serverVars, dashVars>>

\* Mutant: the tunnel is asked for and not kept.
DynamicAddForgets ==
    /\ client = "running"
    /\ toClient[cur] # <<>>
    /\ LET m == Head(toClient[cur])
       IN  /\ m.type = "add"
           /\ toServer' = Sent(toServer, cur, <<DirMsg("register", m.name, None)>>)
    /\ toClient' = Received(toClient, cur)
    /\ UNCHANGED <<config, dir, client, awaiting, cur, down, serverVars, dashVars>>

\* dynamicAdd: the tunnel is asked for and kept, whatever the answer; only if
\* the connection is seen to be gone it is not kept.
DynamicAdd ==
    /\ client = "running"
    /\ toClient[cur] # <<>>
    /\ LET m == Head(toClient[cur])
       IN  /\ m.type = "add"
           /\ toServer' = Sent(toServer, cur, <<DirMsg("register", m.name, None)>>)
           /\ \/ config' = Append(config, m.name)
              \/ cur \in down /\ config' = config
    /\ toClient' = Received(toClient, cur)
    /\ UNCHANGED <<dir, client, awaiting, cur, down, serverVars, dashVars>>

\* The loop over the configured tunnels: SelectSeq, in a form that can be
\* proved about.
Without(q, n) ==
    LET kept[i \in 0..Len(q)] ==
            IF i = 0 THEN <<>>
            ELSE IF q[i] # n THEN Append(kept[i - 1], q[i]) ELSE kept[i - 1]
    IN  kept[Len(q)]

DynamicRemove ==
    /\ client = "running"
    /\ toClient[cur] # <<>>
    /\ LET m == Head(toClient[cur])
       IN  /\ m.type = "remove"
           /\ config' = Without(config, m.name)
           /\ dir' = [dir EXCEPT ![m.name] = None]
    /\ toClient' = Received(toClient, cur)
    /\ UNCHANGED <<client, awaiting, cur, toServer, down, serverVars, dashVars>>

\* setTunnelDir, if the tunnel is listed.
SetTunnelDir ==
    /\ client = "running"
    /\ toClient[cur] # <<>>
    /\ LET m == Head(toClient[cur])
       IN  /\ m.type = "setDir"
           /\ dir' = IF m.name \in ToSet(config) THEN [dir EXCEPT ![m.name] = m.dir]
                                                 ELSE dir
    /\ toClient' = Received(toClient, cur)
    /\ UNCHANGED <<config, client, awaiting, cur, toServer, down, serverVars,
                   dashVars>>

\* A reply to a dynamic registration is logged, an error not tried again.
LogReply ==
    /\ client = "running"
    /\ toClient[cur] # <<>>
    /\ Head(toClient[cur]).type \in {"registered", "error"}
    /\ toClient' = Received(toClient, cur)
    /\ UNCHANGED <<config, dir, client, awaiting, cur, toServer, down, serverVars,
                   dashVars>>

\* The client notices that the connection is gone, and connects again.
SessionEnds ==
    /\ client # "dial"
    /\ cur \in down
    /\ client' = "dial"
    /\ UNCHANGED <<config, dir, awaiting, cur, toServer, toClient, down, serverVars,
                   dashVars>>

-----------------------------------------------------------------------------
(* The server's handler of a session *)

Authenticate(k) ==
    /\ handler[k] = "auth"
    /\ handler' = [handler EXCEPT ![k] = "loop"]
    /\ toClient' = Sent(toClient, k, <<Msg("ack", None)>>)
    /\ UNCHANGED <<clientVars, toServer, down, tunnels, entryDir, route, dashVars>>

\* Mutant: the subdomain of another session is taken over.
CheckTakesOver(k) ==
    /\ handler[k] = "loop"
    /\ toServer[k] # <<>>
    /\ handler' = [handler EXCEPT ![k] = "register"]
    /\ UNCHANGED <<clientVars, toServer, toClient, down, tunnels, entryDir, route,
                   dashVars>>

\* Mutant: a refusal is not answered.
CheckSilent(k) ==
    /\ handler[k] = "loop"
    /\ toServer[k] # <<>>
    /\ IF route[Head(toServer[k]).name] # 0
       THEN toServer' = Received(toServer, k) /\ UNCHANGED handler
       ELSE handler' = [handler EXCEPT ![k] = "register"] /\ UNCHANGED toServer
    /\ UNCHANGED <<clientVars, toClient, down, tunnels, entryDir, route, dashVars>>

\* isSubdomainTaken: a request for a subdomain that is routed is refused.
CheckSubdomain(k) ==
    /\ handler[k] = "loop"
    /\ toServer[k] # <<>>
    /\ LET n == Head(toServer[k]).name
       IN  IF route[n] # 0
           THEN /\ toClient' = Sent(toClient, k, <<Msg("error", n)>>)
                /\ toServer' = Received(toServer, k)
                /\ UNCHANGED handler
           ELSE /\ handler' = [handler EXCEPT ![k] = "register"]
                /\ UNCHANGED <<toServer, toClient>>
    /\ UNCHANGED <<clientVars, down, tunnels, entryDir, route, dashVars>>

\* registerHTTP: the tunnel is added and the route stored, whatever is there by
\* now.  Of two tunnels of one name the dashboard finds the first.
RegisterHTTP(k) ==
    /\ handler[k] = "register"
    /\ LET m == Head(toServer[k])
           n == m.name
       IN  /\ tunnels' = [tunnels EXCEPT ![k] = Append(@, n)]
           /\ entryDir' = IF n \in ToSet(tunnels[k]) THEN entryDir
                          ELSE [entryDir EXCEPT ![k][n] = m.dir]
           /\ route' = [route EXCEPT ![n] = k]
           /\ toClient' = Sent(toClient, k, <<Msg("registered", n)>>)
    /\ toServer' = Received(toServer, k)
    /\ handler' = [handler EXCEPT ![k] = "loop"]
    /\ UNCHANGED <<clientVars, down, dashVars>>

\* The session's tunnels go, and with them the routes of their subdomains,
\* whoever has them.
RemoveClient(k) ==
    /\ route' = [n \in Name |-> IF n \in ToSet(tunnels[k]) THEN 0 ELSE route[n]]
    /\ tunnels' = [tunnels EXCEPT ![k] = <<>>]
    /\ entryDir' = [entryDir EXCEPT ![k] = NoDirs]

\* Mutant: the session's subdomains stay routed.
GiveUpKeepsRoutes(k) ==
    /\ handler[k] \in {"auth", "loop"}
    /\ k \in down
    /\ handler' = [handler EXCEPT ![k] = "done"]
    /\ tunnels' = [tunnels EXCEPT ![k] = <<>>]
    /\ UNCHANGED <<clientVars, toServer, toClient, down, entryDir, route, dashVars>>

\* The end of the connection is seen, or the heartbeat misses the client for
\* 90 seconds: the loop returns.
GiveUp(k) ==
    /\ handler[k] \in {"auth", "loop"}
    /\ k \in down
    /\ handler' = [handler EXCEPT ![k] = "done"]
    /\ RemoveClient(k)
    /\ UNCHANGED <<clientVars, toServer, toClient, down, dashVars>>

-----------------------------------------------------------------------------
(* The dashboard and the network *)

\* The registry has the session's client.
HasClient(k) == handler[k] \in {"loop", "register"}

AddTunnel(k, n) ==
    /\ ops < MaxOps
    /\ ops' = ops + 1
    /\ HasClient(k)
    /\ toClient' = Sent(toClient, k, <<Msg("add", n)>>)
    /\ UNCHANGED <<clientVars, toServer, down, serverVars, removing, setting>>

\* handleRemoveTunnel tells the client ...
RemoveTunnel(k, n) ==
    /\ ops < MaxOps
    /\ ops' = ops + 1
    /\ removing = None
    /\ HasClient(k)
    /\ toClient' = Sent(toClient, k, <<Msg("remove", n)>>)
    /\ removing' = [session |-> k, name |-> n]
    /\ UNCHANGED <<clientVars, toServer, down, serverVars, setting>>

\* ... and then removes the tunnel, if it is there: the first of the name.  If
\* there is a second one, its directory may be any.
RemoveTunnelByName ==
    /\ removing # None
    /\ removing' = None
    /\ LET k == removing.session
           n == removing.name
       IN  IF n \in ToSet(tunnels[k])
           THEN /\ tunnels' = [tunnels EXCEPT ![k] = RemoveFirst(@, n)]
                /\ \E d \in IF n \in ToSet(tunnels'[k]) THEN Dir \cup {None} ELSE {None} :
                       entryDir' = [entryDir EXCEPT ![k][n] = d]
                /\ route' = [route EXCEPT ![n] = 0]
           ELSE UNCHANGED <<tunnels, entryDir, route>>
    /\ UNCHANGED <<clientVars, toServer, toClient, down, handler, setting, ops>>

\* handleSetTunnelDir updates the server's tunnel ...
SetEntryDir(k, n, d) ==
    /\ ops < MaxOps
    /\ ops' = ops + 1
    /\ n \in ToSet(tunnels[k])
    /\ entryDir' = [entryDir EXCEPT ![k][n] = d]
    /\ setting' = setting \cup
           {[op |-> ops', session |-> k, message |-> DirMsg("setDir", n, d)]}
    /\ UNCHANGED <<clientVars, toServer, toClient, down, handler, tunnels, route,
                   removing>>

\* ... and then tells the client.
SendDir ==
    /\ \E s \in setting :
           /\ setting' = setting \ {s}
           /\ toClient' = Sent(toClient, s.session, <<s.message>>)
    /\ UNCHANGED <<clientVars, toServer, down, serverVars, removing, ops>>

\* The network, the dashboard's disconnect or the client's machine.
Break(k) ==
    /\ k <= cur
    /\ k \notin down
    /\ down' = down \cup {k}
    /\ UNCHANGED <<clientVars, toServer, toClient, serverVars, dashVars>>

-----------------------------------------------------------------------------
(* The specification *)

Client == \/ Dial \/ RegisterAll \/ ReadReply \/ DynamicAdd \/ DynamicRemove
          \/ SetTunnelDir \/ LogReply \/ SessionEnds
Server(k) == Authenticate(k) \/ CheckSubdomain(k) \/ RegisterHTTP(k) \/ GiveUp(k)
Dashboard == \/ \E k \in Sessions, n \in Name : AddTunnel(k, n) \/ RemoveTunnel(k, n)
             \/ RemoveTunnelByName
             \/ \E k \in Sessions, n \in Name, d \in Dir \cup {None} : SetEntryDir(k, n, d)
             \/ SendDir

Next == \/ Client
        \/ \E k \in Sessions : Server(k)
        \/ Dashboard
        \/ \E k \in Sessions : Break(k)

Spec == Init /\ [][Next]_vars

\* The client goes on, a dial succeeds in the end, the server reads what
\* arrives and its heartbeat runs.
FairSpec == /\ Spec
            /\ WF_vars(Client)
            /\ \A k \in Sessions : WF_vars(Server(k))

-----------------------------------------------------------------------------
(* Properties *)

\* The variables have their types; the one type invariant of this module.
TypeOK ==
    /\ config \in Seq(Name)
    /\ dir \in [Name -> Dir \cup {None}]
    /\ client \in {"dial", "ack", "replies", "running"}
    /\ awaiting \in Nat
    /\ cur \in 0..MaxSession
    /\ toServer \in [Sessions -> Seq(Message)]
    /\ toClient \in [Sessions -> Seq(Message)]
    /\ down \subseteq Sessions
    /\ handler \in [Sessions -> {"none", "auth", "loop", "register", "done"}]
    /\ tunnels \in [Sessions -> Seq(Name)]
    /\ entryDir \in [Sessions -> [Name -> Dir \cup {None}]]
    /\ route \in [Name -> 0..MaxSession]
    /\ removing \in [session : Sessions, name : Name] \cup {None}
    /\ setting \subseteq [op : 1..MaxOps, session : Sessions, message : Message]
    /\ ops \in 0..MaxOps

\* connect counts the messages it reads, not the replies among them: on a
\* connection that is up there are always at least as many on their way as it
\* waits for, so it cannot wait for one that never comes, whatever the
\* dashboard sends in between.
ConnectNeverStarves ==
    client = "replies" /\ cur \notin down =>
        awaiting <= Len(toServer[cur]) + Len(toClient[cur])

\* The server is asked for nothing but registrations,
RequestsWF == toServer \in [Sessions -> Seq([type : {"register"}, name : Name,
                                            dir : Dir \cup {None}])]

\* the client has a session unless it dials, and waits for an answer while it
\* waits,
ClientWF == /\ client # "dial" => cur \in Sessions
            /\ client = "replies" => awaiting > 0

\* and a handler past the check has its request.
HandlerWF == \A k \in Sessions : handler[k] = "register" => toServer[k] # <<>>

\* The inductive invariant.
IInv == TypeOK /\ RequestsWF /\ ClientWF /\ HandlerWF /\ ConnectNeverStarves

\* Nothing is under way, and only the client's session is left.
Quiet == /\ client = "running" /\ cur \notin down
         /\ toServer[cur] = <<>> /\ toClient[cur] = <<>>
         /\ removing = None /\ setting = {}
         /\ \A k \in 1..(cur - 1) : handler[k] = "done"

Restored == \A i \in DOMAIN config : route[config[i]] = cur

\* Tunnels restore on reconnect (README.md:32).
TunnelsRestored == Quiet /\ ops = 0 => Restored

\* The client connects, and again after a break, as long as the model's
\* sessions last.
Reconnects == client # "running" ~> \/ client = "running"
                                    \/ client = "dial" /\ cur = MaxSession
=============================================================================
