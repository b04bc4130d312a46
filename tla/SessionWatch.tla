---------------------------- MODULE SessionWatch ----------------------------
(***************************************************************************)
(* Session, with a record of what its sessions and the dashboard's         *)
(* operations have got in each other's way, and what comes through if they *)
(* have not.                                                               *)
(***************************************************************************)
EXTENDS Session

\* overlap: the client's session was opened while the server still had an
\* earlier one.  swallowed: connect took a new directory for a reply.
\* crossed: an operation on a tunnel was begun while an earlier one, or a
\* registration of it, was still under way.  raced: the handlers of two
\* sessions were past the check of one subdomain at the same time.
VARIABLES overlap, swallowed, crossed, raced

Overlaps == \E k \in 1..cur : handler[k] # "done"

Swallows == ReadReply /\ Head(toClient[cur]).type = "setDir"

\* On session k something is under way that concerns the tunnel n; a session
\* whose client has not asked for its tunnels yet concerns all of them.
UnderWay(k, n) ==
    \/ removing = [session |-> k, name |-> n]
    \/ \E s \in setting : s.session = k /\ s.message.name = n
    \/ \E m \in ToSet(toServer[k]) \cup ToSet(toClient[k]) : m.name \in {n, None}

Crosses == \E k \in Sessions, n \in Name :
               /\ UnderWay(k, n)
               /\ \/ AddTunnel(k, n) \/ RemoveTunnel(k, n)
                  \/ \E d \in Dir \cup {None} : SetEntryDir(k, n, d)

\* The handler of session k is past the check of n.
Registering(k, n) == handler[k] = "register" /\ Head(toServer[k]).name = n

Races == \E n \in Name, k, l \in Sessions :
             k # l /\ Registering(k, n) /\ Registering(l, n)

watchVars == <<vars, overlap, swallowed, crossed, raced>>

WatchInit == /\ Init
             /\ overlap = FALSE /\ swallowed = FALSE
             /\ crossed = FALSE /\ raced = FALSE
WatchNext == /\ Next
             /\ overlap' = IF cur' = cur THEN overlap ELSE Overlaps
             /\ swallowed' = (swallowed \/ Swallows)
             /\ crossed' = (crossed \/ Crosses)
             /\ raced' = (raced \/ Races')
WatchSpec == WatchInit /\ [][WatchNext]_watchVars

-----------------------------------------------------------------------------
(* Properties *)

\* Although removeClient deletes routes by subdomain, the late end of an old
\* session takes no subdomain away from the new one, unless their handlers
\* have been past the check together: a route is lost only when its own
\* session ends or its tunnel is removed (control.go:165, 188, server.go:282).
RouteLostByOwnerOnly ==
    [][~raced' => \A n \in Name : route[n] # 0 /\ route'[n] # route[n] =>
         \/ handler'[route[n]] = "done"
         \/ removing = [session |-> route[n], name |-> n]]_watchVars

\* The tunnels are restored when the server had given the old sessions up
\* before the client came back (control.go:165, 268-291).
RestoredUnlessOverlap == Quiet /\ ops = 0 /\ ~overlap => Restored

\* n is at most once in the list q.
Once(q, n) == \A i, j \in DOMAIN q : q[i] = n /\ q[j] = n => i = j

\* The server and the client agree on the directory that a promotion of the
\* tunnel packs (dashboard.go:375-392, client/control.go:92-101, 243-252),
\* through breaks and reconnects; unless connect has taken the message for a
\* reply or two operations have crossed, and if the client lists the tunnel
\* once, as the dashboard may make it list one twice.
DirsAgree ==
    Quiet /\ ~swallowed /\ ~crossed /\ ~raced =>
        \A n \in ToSet(config) \cap ToSet(tunnels[cur]) :
            Once(config, n) => entryDir[cur][n] = dir[n]

\* Nor has the server a tunnel that the client does not list, and so would not
\* ask for again: what the dashboard adds or removes at the one end comes to
\* the other too, even if connect takes the message for a reply
\* (dashboard.go:293-339, client/control.go:109-126, 211-241).
NoStrayTunnel ==
    Quiet /\ ~crossed /\ ~raced => ToSet(tunnels[cur]) \subseteq ToSet(config)

-----------------------------------------------------------------------------
(* Their invariants *)

\* Nothing happens on a session before its client has proved itself,
SessionsWF ==
    \A k \in Sessions :
        /\ k > cur => handler[k] = "none" /\ k \notin down
        /\ handler[k] \in {"none", "auth"} =>
               /\ toServer[k] = <<>> /\ toClient[k] = <<>>
               /\ removing # None => removing.session # k
               /\ \A s \in setting : s.session # k
        /\ ~HasClient(k) => tunnels[k] = <<>>

\* if no two handlers have been past the check together, a session has each of
\* its tunnels once, and the route to it,
TunnelsWF ==
    ~raced =>
        /\ ~Races
        /\ \A k \in Sessions : /\ IsInjective(tunnels[k])
                               /\ \A n \in ToSet(tunnels[k]) : route[n] = k
                               /\ \A n \in Name : Registering(k, n) => route[n] = 0

\* nor does the client ask for tunnels before that,
ClientAsks ==
    /\ client \in {"replies", "running"} => handler[cur] \notin {"none", "auth"}
    /\ client = "ack" /\ cur \notin down =>
           /\ toServer[cur] = <<>> /\ tunnels[cur] = <<>>
           /\ handler[cur] \in {"auth", "loop"}
           /\ ~crossed /\ handler[cur] = "loop" =>
                  /\ toClient[cur] = <<Msg("ack", None)>>
                  /\ removing # None => removing.session # cur
                  /\ \A s \in setting : s.session # cur

\* a route leads to a tunnel, a handler of set-dir has a set-dir to send, and
\* only listed tunnels have a directory.
RecordsWF ==
    /\ \A n \in Name : route[n] # 0 => n \in ToSet(tunnels[route[n]])
    /\ \A s \in setting : s.message.type = "setDir"
    /\ \A n \in Name : n \notin ToSet(config) => dir[n] = None

WatchInv == SessionsWF /\ TunnelsWF /\ ClientAsks /\ RecordsWF

\* The client has asked for its tunnels, and is connected.
Up == client \in {"replies", "running"} /\ cur \notin down

\* As long as the dashboard does nothing, each tunnel of the client's list is
\* registered or still to be.
RestoreInv ==
    /\ ~overlap => \A k \in 1..(cur - 1) : handler[k] = "done"
    /\ ops = 0 =>
           /\ removing = None /\ setting = {}
           /\ \A k \in Sessions : \A m \in ToSet(toClient[k]) :
                  m.type \in {"ack", "registered", "error"}
           /\ Up /\ ~overlap =>
                  /\ \A n \in ToSet(tunnels[cur]) : route[n] = cur
                  /\ \A n \in ToSet(config) :
                         \/ n \in ToSet(tunnels[cur])
                         \/ \E m \in ToSet(toServer[cur]) : m.name = n

\* What is under way for the tunnel n: operations to be read by the client or
\* by its connect, directories to be sent, requests to be read by the server.
IsOp(m, n) == m.type \in {"add", "remove", "setDir"} /\ m.name = n
OneOp(q, n) == \A i, j \in DOMAIN q : IsOp(q[i], n) /\ IsOp(q[j], n) => i = j
Ops(q, n) == {m \in ToSet(q) : IsOp(m, n)}
Setting(n) == {s \in setting : s.session = cur /\ s.message.name = n}
Requests(n) == {m \in ToSet(toServer[cur]) : m.name = n}
Removing(n) == removing = [session |-> cur, name |-> n]

Registered(n) == n \in ToSet(tunnels[cur])

OneAtATime(n) ==
    /\ OneOp(toClient[cur], n)
    /\ \A s, t \in Setting(n) : s = t
    /\ Ops(toClient[cur], n) # {} \/ Setting(n) # {} \/ Removing(n) => Requests(n) = {}
    /\ Setting(n) # {} => Ops(toClient[cur], n) = {} /\ ~Removing(n)
    /\ \A m \in Ops(toClient[cur], n) : /\ Removing(n) => m.type = "remove"
                                        /\ m.type = "remove" /\ Registered(n) => Removing(n)

\* The server has no tunnel that the client does not list, nor will get it.
Listed(n) == \/ n \in ToSet(config)
             \/ Requests(n) = {} /\ (Registered(n) => Removing(n))

\* The server's directory is the last that was set, and the client's is once
\* nothing is under way.
Agreed(n) ==
    n \in ToSet(config) /\ Once(config, n) =>
        /\ \A m \in Requests(n) : m.dir = dir[n]
        /\ Registered(n) =>
               /\ \A s \in Setting(n) : entryDir[cur][n] = s.message.dir
               /\ \A m \in Ops(toClient[cur], n) : m.type = "setDir" => entryDir[cur][n] = m.dir
               /\ \/ entryDir[cur][n] = dir[n]
                  \/ Setting(n) # {}
                  \/ \E m \in Ops(toClient[cur], n) : m.type = "setDir"

AgreeInv ==
    Up /\ ~crossed /\ ~raced => \A n \in Name :
        OneAtATime(n) /\ Listed(n) /\ (~swallowed => Agreed(n))
=============================================================================
