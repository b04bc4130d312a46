------------------------------- MODULE Server -------------------------------
(***************************************************************************)
(* The registry and the promoted apps together.  They meet in three        *)
(* places: registerHTTP refuses a subdomain that a promoted app serves     *)
(* (control.go:172), handleHTTP asks deployedApps after the registry       *)
(* (http_proxy.go:26-35), and a promotion ends by evicting the client      *)
(* tunnel that used the subdomain (deploy.go:325-333).  The first two are  *)
(* actions of Registry, on the deployedApps of Deploy; the third is here.  *)
(* One life of the process: its end is modelled in Deploy.                 *)
(***************************************************************************)
EXTENDS Naturals

CONSTANTS Session, Name, Port, TCPPortMin, TCPPortMax, AllowedPorts, Requests,
          MaxMessages, Visitor, None,
          Upload, Stop, AppName, AppPort, StopName, HostPort, OtherPorts,
          Torn

VARIABLES byID, bySubdomain, byPort, tunnels, closed, handler, reg, port,
          received, visit, down,
          deployedApps, pendingBuilds, finished, job, known, found, target,
          marshalled, dirs, container, others, disk, phase, toStop, restarts,
          evicting  \* evictEntry of each upload, "unread" before the lookup

registryState == <<byID, bySubdomain, byPort, tunnels, closed, handler, reg,
                   port, received, visit, down>>
deployState == <<deployedApps, pendingBuilds, finished, job, known, found,
                 target, marshalled, dirs, container, others, disk, phase,
                 toStop, restarts>>
vars == <<registryState, deployState, evicting>>

R == INSTANCE Registry
       WITH pc <- handler,
            deployedApps <- {n \in Name : deployedApps[n] # None}
D == INSTANCE Deploy
       WITH pc <- job, Port <- HostPort, DockerMayFail <- FALSE,
            StateMayFail <- TRUE, LongLines <- FALSE, MaxRestarts <- 0

ASSUME RegistryAssumption == /\ R!PortAssumption /\ R!RequestAssumption
                             /\ R!BoundAssumption /\ R!NoneAssumption
ASSUME DeployAssumption == /\ D!AppAssumption /\ D!DisjointAssumption
                           /\ D!MarkAssumption

Init == /\ D!Init
        /\ R!Init
        /\ evicting = [u \in Upload |-> "unread"]

RegistryStep == /\ UNCHANGED deployState
                /\ (\E s \in Session : R!Handler(s)) \/ R!Operator \/ R!Public
                /\ UNCHANGED evicting

DeployStep == D!Inside /\ UNCHANGED <<registryState, evicting>>

\* Mutant: the tunnel is evicted before the app is there to take over.
EvictLookupEarly(u) ==
    /\ job[u] = "storeApp"
    /\ evicting[u] = "unread"
    /\ UNCHANGED deployState
    /\ LET e == bySubdomain[AppName[u]]
       IN  /\ evicting' = [evicting EXCEPT ![u] = e]
           /\ e # None /\ R!RemoveTunnelByName(e, AppName[u])

\* bySubdomain is read under the lock, ...
EvictLookup(u) ==
    /\ job[u] = "evict"
    /\ evicting[u] = "unread"
    /\ evicting' = [evicting EXCEPT ![u] = bySubdomain[AppName[u]]]
    /\ UNCHANGED <<registryState, deployState>>

HasTunnel(e, n) == e \in byID /\ \E i \in DOMAIN tunnels[e] : tunnels[e][i].name = n

\* ... and the tunnel with the app's name is removed under it later, if the
\* client is still there and has one.
EvictRemove(u) ==
    /\ evicting[u] # "unread"
    /\ D!Evict(u)
    /\ IF HasTunnel(evicting[u], AppName[u])
       THEN R!RemoveTunnelByName(evicting[u], AppName[u])
       ELSE UNCHANGED registryState
    /\ UNCHANGED evicting

Next == \/ RegistryStep
        \/ DeployStep
        \/ \E u \in Upload : EvictLookup(u) \/ EvictRemove(u)

Spec == Init /\ [][Next]_vars

-----------------------------------------------------------------------------
(* Properties *)

\* A promotion evicts the client tunnel that used the subdomain: the route
\* it found is gone when it has run (README.md:270).
EvictedRoute ==
    [][\A u \in Upload : job[u] = "evict" /\ job'[u] = "done" /\ evicting[u] # None
         => bySubdomain'[AppName[u]] # evicting[u]]_vars

\* Somebody serves the subdomain.
Served(n) == bySubdomain[n] # None \/ deployedApps[n] # None

\* Nobody asks the dashboard to stop the app of that name.
Unstopped(n) == \A x \in Stop : StopName[x] # n

\* No step of a promotion takes a subdomain from its client and leaves it to
\* nobody: the app is stored before the client is evicted (deploy.go:321-333).
PromotionKeepsServing ==
    [][job' # job \/ evicting' # evicting
         => \A n \in Name : Unstopped(n) /\ Served(n) => Served(n)']_vars

\* Why: from storeApp to the eviction, and from then on, the app is there, ...
AppStands ==
    \A u \in Upload : job[u] \in D!Stored /\ Unstopped(AppName[u]) =>
        deployedApps[AppName[u]] # None

\* ... and the tunnel that goes is the one of the app's subdomain, where the
\* clients name their tunnels after the subdomains.
NamedBySubdomain ==
    \A s \in Session : \A r \in Requests[s] :
        r.type = "http" => R!HttpTunnel(r).subdomain = r.name
TunnelsNamed ==
    \A s \in Session :
        /\ handler[s] \in {"httpCheck", "httpCheckApp", "httpRegister"} =>
               R!SubdomainOf(s) = reg[s].name
        /\ \A i \in DOMAIN tunnels[s] : tunnels[s][i].type = "http" =>
               tunnels[s][i].subdomain = tunnels[s][i].name
HandoverInv == AppStands /\ TunnelsNamed
=============================================================================
