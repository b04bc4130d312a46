---------------------------- MODULE ServerWatch ----------------------------
(***************************************************************************)
(* Server, with a record of what each public request in flight has lived   *)
(* through, and of the promotions that met a registration half done.       *)
(***************************************************************************)
EXTENDS Server

VARIABLES
    unserved,  \* unserved[v]: at some moment since the request v came in
               \* nobody served its subdomain
    late       \* uploads that stored their app while a registration of its
               \* subdomain had passed both checks and not written its route

watchVars == <<vars, unserved, late>>

Unserved(v) == visit[v].pc # "idle" /\ ~Served(visit[v].subdomain)

\* A handler is about to route the subdomain n to its client.
Registering(n) == \E s \in Session : handler[s] = "httpRegister" /\ R!SubdomainOf(s) = n

Stores(u) == job[u] = "storeApp" /\ job'[u] = "deleteBuild"

WatchInit == /\ Init
             /\ unserved = [v \in Visitor |-> FALSE]
             /\ late = {}
WatchNext == /\ Next
             /\ unserved' = [v \in Visitor |->
                    visit'[v].pc # "idle" /\ (unserved[v] \/ Unserved(v)')]
             /\ late' = late \cup {u \in Upload : Stores(u) /\ Registering(AppName[u])}
WatchSpec == WatchInit /\ [][WatchNext]_watchVars

\* A promotion takes a subdomain over without a gap: a request is answered
\* that nobody serves its subdomain (http_proxy.go:33) only if that was so at
\* some moment since it came in, though handleHTTP asks the registry and the
\* promoted apps one after the other.
NoGap ==
    \A v \in Visitor :
        visit[v].pc = "none" /\ Unstopped(visit[v].subdomain) => unserved[v]

\* Why: between the two questions nothing takes an app away.
NoGapInv ==
    \A v \in Visitor :
        /\ visit[v].pc \in {"app", "none"}
        /\ Unstopped(visit[v].subdomain)
        => \/ unserved[v]
           \/ visit[v].pc = "app" /\ deployedApps[visit[v].subdomain] # None

\* No client has a TCP and an HTTP tunnel under one name.
NamesApart ==
    \A s \in Session : \A r, q \in Requests[s] :
        r.type = "http" /\ q.type = "tcp" => r.name # q.name

\* Once a promotion is over nobody but the app is routed its subdomain, and
\* that lasts: a client tunnel shadows a promoted app, which handleHTTP asks
\* second (http_proxy.go:26-35), only if its registration had passed the check
\* of the apps (control.go:172) when the app was stored (deploy.go:321) and
\* wrote its route later.
AppNotShadowed ==
    \A u \in Upload : job[u] = "done" /\ D!ServedApp(u) /\ u \notin late =>
        bySubdomain[AppName[u]] = None

\* Why: no handler is about to take the route of an app that is served, so
\* that from its lookup on an eviction knows who has the route, ...
KeptOff ==
    \A u \in Upload :
        job[u] \in D!Stored /\ D!ServedApp(u) /\ u \notin late =>
            /\ ~Registering(AppName[u])
            /\ evicting[u] # "unread" =>
                   bySubdomain[AppName[u]] \in {None, evicting[u]}

\* ... and removes it with the tunnel, for the tunnels of a client are what it
\* asked for.
FromRequests ==
    \A s \in Session :
        /\ handler[s] \in {"httpCheck", "httpCheckApp", "httpRegister"} =>
               reg[s] \in Requests[s] /\ reg[s].type = "http"
        /\ handler[s] \in {"tcpPick", "tcpCheck", "tcpListen", "tcpRegister"} =>
               reg[s] \in Requests[s] /\ reg[s].type = "tcp"
        /\ \A i \in DOMAIN tunnels[s] : \E r \in Requests[s] :
               r.type = tunnels[s][i].type /\ r.name = tunnels[s][i].name

EvictsLast ==
    \A u \in Upload : evicting[u] # "unread" => job[u] \in {"evict", "done"}

ShadowInv == FromRequests /\ EvictsLast /\ KeptOff /\ AppNotShadowed
=============================================================================
