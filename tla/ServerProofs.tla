---------------------------- MODULE ServerProofs ----------------------------
(***************************************************************************)
(* Proofs about Server and ServerWatch, for any number of sessions,        *)
(* requests, visitors, uploads and names.                                  *)
(***************************************************************************)
EXTENDS ServerWatch, TLAPS

RP == INSTANCE RegistryProofs
        WITH pc <- handler,
             deployedApps <- {n \in Name : deployedApps[n] # None}
DP == INSTANCE DeployProofs
        WITH pc <- job, Port <- HostPort, DockerMayFail <- FALSE,
             StateMayFail <- TRUE, LongLines <- FALSE, MaxRestarts <- 0,
             overlapped <- {}, stale <- {}

LEMMA SameRegistryInit == R!Init <=> RP!Init
  BY DEF R!Init, RP!Init, R!Idle, RP!Idle

LEMMA SameRegistryNext == R!Next <=> RP!Next
  <1>1. \A s : R!AuthOK(s) <=> RP!AuthOK(s)
    BY DEF R!AuthOK, RP!AuthOK, R!Goto, RP!Goto, R!registryVars, RP!registryVars
  <1>2. \A s : R!AuthFail(s) <=> RP!AuthFail(s)
    BY DEF R!AuthFail, RP!AuthFail, R!Goto, RP!Goto, R!registryVars, RP!registryVars
  <1>3. \A s : R!AddClient(s) <=> RP!AddClient(s)
    BY DEF R!AddClient, RP!AddClient, R!Goto, RP!Goto
  <1>4. \A s, r : R!RecvRegister(s, r) <=> RP!RecvRegister(s, r)
    BY DEF R!RecvRegister, RP!RecvRegister, R!Goto, RP!Goto, R!registryVars,
       RP!registryVars
  <1>5. \A s : R!LoopExit(s) <=> RP!LoopExit(s)
    BY DEF R!LoopExit, RP!LoopExit, R!Goto, RP!Goto, R!registryVars, RP!registryVars
  <1>6. \A s : R!RemoveClient(s) <=> RP!RemoveClient(s)
    BY DEF R!RemoveClient, RP!RemoveClient, R!Goto, RP!Goto, R!CloseListeners,
       RP!CloseListeners, R!Subdomains, RP!Subdomains, R!Ports, RP!Ports, R!Without,
       RP!Without
  <1>7. \A s : R!HttpCheck(s) <=> RP!HttpCheck(s)
    BY DEF R!HttpCheck, RP!HttpCheck, R!Goto, RP!Goto, R!registryVars,
       RP!registryVars, R!SubdomainOf, RP!SubdomainOf, R!HttpTunnel, RP!HttpTunnel
  <1>8. \A s : R!HttpCheckApp(s) <=> RP!HttpCheckApp(s)
    BY DEF R!HttpCheckApp, RP!HttpCheckApp, R!Goto, RP!Goto, R!registryVars,
       RP!registryVars, R!SubdomainOf, RP!SubdomainOf, R!HttpTunnel, RP!HttpTunnel
  <1>9. \A s : R!RegisterHTTP(s) <=> RP!RegisterHTTP(s)
    BY DEF R!RegisterHTTP, RP!RegisterHTTP, R!Goto, RP!Goto, R!SubdomainOf,
       RP!SubdomainOf, R!HttpTunnel, RP!HttpTunnel
  <1>10. \A s : R!TcpPick(s) <=> RP!TcpPick(s)
    BY DEF R!TcpPick, RP!TcpPick, R!Goto, RP!Goto, R!registryVars, RP!registryVars
  <1>11. \A s : R!TcpCheck(s) <=> RP!TcpCheck(s)
    BY DEF R!TcpCheck, RP!TcpCheck, R!Goto, RP!Goto, R!registryVars,
       RP!registryVars, R!Allowed, RP!Allowed
  <1>12. \A s : R!TcpListen(s) <=> RP!TcpListen(s)
    BY DEF R!TcpListen, RP!TcpListen, R!Goto, RP!Goto, R!registryVars,
       RP!registryVars, R!Bound, RP!Bound
  <1>13. \A s : R!TcpListenErr(s) <=> RP!TcpListenErr(s)
    BY DEF R!TcpListenErr, RP!TcpListenErr, R!Goto, RP!Goto, R!registryVars,
       RP!registryVars
  <1>14. \A s : R!RegisterTCP(s) <=> RP!RegisterTCP(s)
    BY DEF R!RegisterTCP, RP!RegisterTCP, R!Goto, RP!Goto, R!TcpTunnel, RP!TcpTunnel
  <1>15. \A s, n : R!RemoveTunnelByName(s, n) <=> RP!RemoveTunnelByName(s, n)
    BY DEF R!RemoveTunnelByName, RP!RemoveTunnelByName, R!handlerVars,
       RP!handlerVars, R!Without, RP!Without, R!IsFirst, RP!IsFirst, R!RemoveAt,
       RP!RemoveAt
  <1>16. \A s : R!DisconnectClient(s) <=> RP!DisconnectClient(s)
    BY DEF R!DisconnectClient, RP!DisconnectClient, R!registryVars, RP!registryVars,
       R!handlerVars, RP!handlerVars
  <1>17. \A s : R!SessionDies(s) <=> RP!SessionDies(s)
    BY DEF R!SessionDies, RP!SessionDies, R!registryVars, RP!registryVars,
       R!handlerVars, RP!handlerVars
  <1>18. R!CloseAll <=> RP!CloseAll
    BY DEF R!CloseAll, RP!CloseAll, R!handlerVars, RP!handlerVars, R!CloseListeners,
       RP!CloseListeners
  <1>19. \A n : R!DeployedAppsChange(n) <=> RP!DeployedAppsChange(n)
    BY DEF R!DeployedAppsChange, RP!DeployedAppsChange, R!registryVars,
       RP!registryVars, R!handlerVars, RP!handlerVars
  <1>20. \A v, n : R!Arrive(v, n) <=> RP!Arrive(v, n)
    BY DEF R!Arrive, RP!Arrive, R!registryVars, RP!registryVars, R!handlerVars,
       RP!handlerVars
  <1>21. \A v : R!LookupHTTP(v) <=> RP!LookupHTTP(v)
    BY DEF R!LookupHTTP, RP!LookupHTTP, R!registryVars, RP!registryVars,
       R!handlerVars, RP!handlerVars
  <1>22. \A v : R!LoadApp(v) <=> RP!LoadApp(v)
    BY DEF R!LoadApp, RP!LoadApp, R!registryVars, RP!registryVars, R!handlerVars,
       RP!handlerVars
  <1>23. \A v : R!FindTunnel(v) <=> RP!FindTunnel(v)
    BY DEF R!FindTunnel, RP!FindTunnel, R!registryVars, RP!registryVars,
       R!handlerVars, RP!handlerVars, R!Subdomains, RP!Subdomains
  <1>24. \A v : R!Finish(v) <=> RP!Finish(v)
    BY DEF R!Finish, RP!Finish, R!registryVars, RP!registryVars, R!handlerVars,
       RP!handlerVars, R!Idle, RP!Idle
  <1> QED
    BY <1>1, <1>2, <1>3, <1>4, <1>5, <1>6, <1>7, <1>8, <1>9, <1>10, <1>11,
       <1>12, <1>13, <1>14, <1>15, <1>16, <1>17, <1>18, <1>19, <1>20, <1>21,
       <1>22, <1>23, <1>24
    DEF R!Next, RP!Next, R!Handler, RP!Handler, R!Operator, RP!Operator,
        R!Public, RP!Public

LEMMA SameDeployInit == D!Init <=> DP!Init
  BY DEF D!Init, DP!Init, D!NoApps, DP!NoApps, D!Request, DP!Request

LEMMA SameDeployNext ==
    /\ D!Inside <=> DP!Inside
    /\ D!Next <=> DP!Next
  <1>1. \A u : D!CheckApp(u) <=> DP!CheckApp(u)
    BY DEF D!CheckApp, DP!CheckApp, D!Go, DP!Go, D!memory, DP!memory, D!locals,
       DP!locals, D!host, DP!host, D!process, DP!process
  <1>2. \A u : D!CheckBuild(u) <=> DP!CheckBuild(u)
    BY DEF D!CheckBuild, DP!CheckBuild, D!Go, DP!Go, D!memory, DP!memory, D!locals,
       DP!locals, D!host, DP!host, D!process, DP!process
  <1>3. \A u : D!Unpack(u) <=> DP!Unpack(u)
    BY DEF D!Unpack, DP!Unpack, D!Go, DP!Go, D!memory, DP!memory, D!locals,
       DP!locals, D!host, DP!host, D!process, DP!process
  <1>4. \A u : D!StoreBuild(u) <=> DP!StoreBuild(u)
    BY DEF D!StoreBuild, DP!StoreBuild, D!Go, DP!Go, D!locals, DP!locals, D!host,
       DP!host, D!process, DP!process
  <1>5. \A u : D!SnapshotPorts(u) <=> DP!SnapshotPorts(u)
    BY DEF D!SnapshotPorts, DP!SnapshotPorts, D!Go, DP!Go, D!memory, DP!memory,
       D!host, DP!host, D!process, DP!process, D!ListeningPorts, DP!ListeningPorts,
       D!Listens, DP!Listens
  <1>6. \A u : D!SnapshotFails(u) <=> DP!SnapshotFails(u)
    BY DEF D!SnapshotFails, DP!SnapshotFails, D!Go, DP!Go, D!locals, DP!locals,
       D!host, DP!host, D!process, DP!process
  <1>7. \A u : D!Build(u) <=> DP!Build(u)
    BY DEF D!Build, DP!Build, D!Go, DP!Go, D!memory, DP!memory, D!locals, DP!locals,
       D!host, DP!host, D!process, DP!process
  <1>8. \A u : D!BuildHangs(u) <=> DP!BuildHangs(u)
    BY DEF D!BuildHangs, DP!BuildHangs, D!Go, DP!Go, D!memory, DP!memory, D!locals,
       DP!locals, D!host, DP!host, D!process, DP!process
  <1>9. \A u : D!BuildFails(u) <=> DP!BuildFails(u)
    BY DEF D!BuildFails, DP!BuildFails, D!Go, DP!Go, D!locals, DP!locals, D!host,
       DP!host, D!process, DP!process
  <1>10. \A u : D!RemoveStale(u) <=> DP!RemoveStale(u)
    BY DEF D!RemoveStale, DP!RemoveStale, D!Go, DP!Go, D!memory, DP!memory,
       D!locals, DP!locals, D!process, DP!process
  <1>11. \A u : D!Run(u) <=> DP!Run(u)
    BY DEF D!Run, DP!Run, D!Go, DP!Go, D!memory, DP!memory, D!locals, DP!locals,
       D!process, DP!process, D!Started, DP!Started
  <1>12. \A u : D!RunFails(u) <=> DP!RunFails(u)
    BY DEF D!RunFails, DP!RunFails, D!Go, DP!Go, D!locals, DP!locals, D!process,
       DP!process, D!Started, DP!Started
  <1>13. \A u : D!Detect(u) <=> DP!Detect(u)
    BY DEF D!Detect, DP!Detect, D!Go, DP!Go, D!memory, DP!memory, D!host, DP!host,
       D!process, DP!process, D!ListeningPorts, DP!ListeningPorts, D!Listens,
       DP!Listens
  <1>14. \A u : D!DetectTimeout(u) <=> DP!DetectTimeout(u)
    BY DEF D!DetectTimeout, DP!DetectTimeout, D!Go, DP!Go, D!locals, DP!locals,
       D!host, DP!host, D!process, DP!process
  <1>15. \A u : D!CleanStop(u) <=> DP!CleanStop(u)
    BY DEF D!CleanStop, DP!CleanStop, D!Go, DP!Go, D!memory, DP!memory, D!locals,
       DP!locals, D!process, DP!process, D!DockerStop, DP!DockerStop, D!Stopped,
       DP!Stopped
  <1>16. \A u : D!CleanRm(u) <=> DP!CleanRm(u)
    BY DEF D!CleanRm, DP!CleanRm, D!Go, DP!Go, D!memory, DP!memory, D!locals,
       DP!locals, D!process, DP!process, D!DockerRm, DP!DockerRm
  <1>17. \A u : D!RemoveDir(u) <=> DP!RemoveDir(u)
    BY DEF D!RemoveDir, DP!RemoveDir, D!Go, DP!Go, D!memory, DP!memory, D!locals,
       DP!locals, D!host, DP!host, D!process, DP!process
  <1>18. \A u : D!StoreApp(u) <=> DP!StoreApp(u)
    BY DEF D!StoreApp, DP!StoreApp, D!Go, DP!Go, D!locals, DP!locals, D!host,
       DP!host, D!process, DP!process
  <1>19. \A u : D!DeleteBuild(u) <=> DP!DeleteBuild(u)
    BY DEF D!DeleteBuild, DP!DeleteBuild, D!Go, DP!Go, D!locals, DP!locals, D!host,
       DP!host, D!process, DP!process
  <1>20. \A u : D!Evict(u) <=> DP!Evict(u)
    BY DEF D!Evict, DP!Evict, D!Go, DP!Go, D!memory, DP!memory, D!locals, DP!locals,
       D!host, DP!host, D!process, DP!process
  <1>21. \A w : D!SaveRange(w) <=> DP!SaveRange(w)
    BY DEF D!SaveRange, DP!SaveRange, D!Go, DP!Go, D!memory, DP!memory, D!host,
       DP!host, D!process, DP!process
  <1>22. \A w : D!SaveTruncate(w) <=> DP!SaveTruncate(w)
    BY DEF D!SaveTruncate, DP!SaveTruncate, D!AfterSave, DP!AfterSave, D!Go, DP!Go, D!memory, DP!memory,
       D!locals, DP!locals, D!host, DP!host, D!process, DP!process
  <1>23. \A w : D!SaveWrite(w) <=> DP!SaveWrite(w)
    BY DEF D!SaveWrite, DP!SaveWrite, D!AfterSave, DP!AfterSave, D!Go, DP!Go, D!memory, DP!memory, D!locals,
       DP!locals, D!host, DP!host, D!process, DP!process
  <1>24. \A x : D!StopLoad(x) <=> DP!StopLoad(x)
    BY DEF D!StopLoad, DP!StopLoad, D!Go, DP!Go, D!memory, DP!memory, D!host,
       DP!host, D!process, DP!process
  <1>25. \A x : D!StopContainer(x) <=> DP!StopContainer(x)
    BY DEF D!StopContainer, DP!StopContainer, D!Go, DP!Go, D!memory, DP!memory,
       D!locals, DP!locals, D!process, DP!process, D!DockerStop, DP!DockerStop,
       D!Stopped, DP!Stopped
  <1>26. \A x : D!StopRm(x) <=> DP!StopRm(x)
    BY DEF D!StopRm, DP!StopRm, D!Go, DP!Go, D!memory, DP!memory, D!locals,
       DP!locals, D!process, DP!process, D!DockerRm, DP!DockerRm
  <1>27. \A x : D!StopRemoveDir(x) <=> DP!StopRemoveDir(x)
    BY DEF D!StopRemoveDir, DP!StopRemoveDir, D!Go, DP!Go, D!memory, DP!memory,
       D!locals, DP!locals, D!host, DP!host, D!process, DP!process
  <1>28. \A x : D!StopDelete(x) <=> DP!StopDelete(x)
    BY DEF D!StopDelete, DP!StopDelete, D!Go, DP!Go, D!locals, DP!locals, D!host,
       DP!host, D!process, DP!process
  <1>29. \A n : D!DismissBuild(n) <=> DP!DismissBuild(n)
    BY DEF D!DismissBuild, DP!DismissBuild, D!locals, DP!locals, D!host, DP!host,
       D!process, DP!process
  <1>30. \A n : D!PromoteError(n) <=> DP!PromoteError(n)
    BY DEF D!PromoteError, DP!PromoteError, D!locals, DP!locals, D!host, DP!host,
       D!process, DP!process
  <1>31. \A n : D!AppListens(n) <=> DP!AppListens(n)
    BY DEF D!AppListens, DP!AppListens, D!memory, DP!memory, D!locals, DP!locals,
       D!process, DP!process, D!ListeningPorts, DP!ListeningPorts, D!Listens,
       DP!Listens, D!Opened, DP!Opened
  <1>32. \A p : D!OthersChange(p) <=> DP!OthersChange(p)
    BY DEF D!OthersChange, DP!OthersChange, D!memory, DP!memory, D!locals,
       DP!locals, D!process, DP!process, D!ListeningPorts, DP!ListeningPorts,
       D!Listens, DP!Listens
  <1>33. D!Crash <=> DP!Crash
    BY DEF D!Crash, DP!Crash, D!memory, DP!memory, D!locals, DP!locals, D!host,
       DP!host
  <1>34. D!Shutdown <=> DP!Shutdown
    BY DEF D!Shutdown, DP!Shutdown, D!memory, DP!memory, D!locals, DP!locals,
       D!host, DP!host
  <1>35. D!Exit <=> DP!Exit
    BY DEF D!Exit, DP!Exit, D!memory, DP!memory, D!locals, DP!locals, D!host,
       DP!host
  <1>36. D!Restart <=> DP!Restart
    BY DEF D!Restart, DP!Restart, D!RestartMissing, DP!RestartMissing, D!locals,
       DP!locals, D!host, DP!host, D!Restored, DP!Restored, D!Ended, DP!Ended,
       D!Request, DP!Request, D!NoApps, DP!NoApps
  <1>37. \A n : D!ShutdownStops(n) <=> DP!ShutdownStops(n)
    BY DEF D!ShutdownStops, DP!ShutdownStops, D!memory, DP!memory, D!locals,
       DP!locals, D!DockerStop, DP!DockerStop, D!Stopped, DP!Stopped
  <1>38. D!Inside <=> DP!Inside
    BY <1>1, <1>2, <1>3, <1>4, <1>5, <1>6, <1>7, <1>8, <1>9, <1>10, <1>11,
       <1>12, <1>13, <1>14, <1>15, <1>16, <1>17, <1>18, <1>19, <1>21,
       <1>22, <1>23, <1>24, <1>25, <1>26, <1>27, <1>28, <1>29, <1>30, <1>31,
       <1>32, <1>33, <1>34, <1>35, <1>36, <1>37
    DEF D!Inside, DP!Inside, D!UploadStep, DP!UploadStep,
        D!SaveStep, DP!SaveStep, D!StopStep, DP!StopStep, D!Dashboard,
        DP!Dashboard, D!Host, DP!Host, D!Process, DP!Process, D!Request,
        DP!Request
  <1> QED
    BY <1>20, <1>38 DEF D!Next, DP!Next

-----------------------------------------------------------------------------
(* The promoted apps behave as Deploy says *)

LEMMA DeployFacts == DP!AppAssumption /\ DP!DisjointAssumption /\ DP!MarkAssumption
  BY DeployAssumption DEF D!App, DP!App, D!Container, DP!Container, D!Apps, DP!Apps

LEMMA DeployNext == [Next]_vars => [DP!Next]_(DP!vars)
  <1> SUFFICES ASSUME [Next]_vars PROVE D!Next \/ UNCHANGED deployState
    BY SameDeployNext DEF deployState, DP!vars, DP!memory, DP!locals, DP!host, DP!process
  <1> QED
    BY DEF Next, vars, RegistryStep, DeployStep, EvictLookup, EvictRemove, D!Next

LEMMA ServerDeploys == Spec => DP!Spec
  <1>1. Init => DP!Init
    BY SameDeployInit DEF Init
  <1> QED
    BY <1>1, DeployNext, PTL DEF Spec, DP!Spec

LEMMA DeployInvariant == Spec => []DP!IInv
  <1>1. DP!Spec => []DP!IInv
    BY DeployFacts, DP!Invariant
  <1> QED
    BY <1>1, ServerDeploys, PTL

(* The process stays up, ... *)
LEMMA NotRestarting ==
    ASSUME DP!IInv PROVE ~DP!Restart
  BY DEF DP!Restart, DP!RestartMissing, DP!IInv, DP!StepsWF, DP!TypeOK

(* ... and an upload's app is stored by its own step. *)
LEMMA StoredStep ==
    ASSUME DP!IInv, [Next]_vars, NEW u \in Upload, job'[u] \in D!Stored
    PROVE  job[u] \in D!Stored \/ D!StoreApp(u)
  <1>1. D!Stored = DP!Stored
    BY DEF D!Stored, DP!Stored, D!Saving, DP!Saving
  <1>2. DP!StoreApp(u) <=> D!StoreApp(u)
    BY DEF DP!StoreApp, D!StoreApp, DP!Go, D!Go, DP!locals, D!locals, DP!host, D!host,
           DP!process, D!process
  <1>3. DP!TypeOK /\ DP!StepsWF
    BY DEF DP!IInv
  <1> QED
    BY <1>1, <1>2, <1>3, NotRestarting, DeployNext, DeployFacts, DP!StoredByStoreApp

(* An app comes or goes in a step of its own.                              *)
LEMMA AppsStep ==
    ASSUME DP!IInv, DP!IInv', [Next]_vars
    PROVE  \/ UNCHANGED deployedApps
           \/ \E u \in Upload : D!StoreApp(u)
           \/ \E x \in Stop : D!StopDelete(x)
  <1>1. [DP!Next]_(DP!vars)
    BY DeployNext
  <1>2. \/ UNCHANGED deployedApps
        \/ \E u \in Upload : DP!StoreApp(u)
        \/ \E x \in Stop : DP!StopDelete(x)
        \/ DP!Restart
    BY <1>1, DeployFacts, DP!Moves
  <1>4. ~DP!Restart
    BY NotRestarting
  <1>5. /\ \A u : DP!StoreApp(u) <=> D!StoreApp(u)
        /\ \A x : DP!StopDelete(x) <=> D!StopDelete(x)
    BY DEF DP!StoreApp, D!StoreApp, DP!StopDelete, D!StopDelete, DP!Go, D!Go, DP!locals,
           D!locals, DP!host, D!host, DP!process, D!process
  <1> QED
    BY <1>2, <1>4, <1>5

-----------------------------------------------------------------------------
(* The registry behaves as Registry says *)

\* What the registry sees of the promoted apps.
AppNames == {n \in Name : deployedApps[n] # None}

LEMMA AppNamesStep ==
    ASSUME DP!IInv, DP!IInv', [Next]_vars
    PROVE  \/ AppNames' = AppNames
           \/ \E n \in Name : AppNames' = IF n \in AppNames THEN AppNames \ {n}
                                                            ELSE AppNames \cup {n}
  <1>1. ASSUME NEW n \in Name, NEW app,
               deployedApps' = [deployedApps EXCEPT ![n] = app]
        PROVE  \A m \in Name : m # n => deployedApps'[m] = deployedApps[m]
    BY <1>1 DEF DP!IInv, DP!TypeOK, DP!Apps
  <1>2. \/ UNCHANGED deployedApps
        \/ \E n \in Name : \A m \in Name : m # n => deployedApps'[m] = deployedApps[m]
    <2>1. /\ \A u \in Upload : AppName[u] \in Name
          /\ \A x \in Stop : StopName[x] \in Name
      BY DeployAssumption DEF D!AppAssumption
    <2>2. ASSUME NEW u \in Upload, D!StoreApp(u)
          PROVE  \A m \in Name : m # AppName[u] => deployedApps'[m] = deployedApps[m]
      BY <1>1, <2>1, <2>2 DEF D!StoreApp
    <2>3. ASSUME NEW x \in Stop, D!StopDelete(x)
          PROVE  \A m \in Name : m # StopName[x] => deployedApps'[m] = deployedApps[m]
      BY <1>1, <2>1, <2>3 DEF D!StopDelete
    <2> QED
      BY <2>1, <2>2, <2>3, AppsStep
  <1> QED
    BY <1>2 DEF AppNames

LEMMA RegistryNext ==
    ASSUME DP!IInv, DP!IInv', byID \subseteq Session, [Next]_vars
    PROVE  [R!Next]_(R!vars)
  <1>1. CASE RegistryStep
    BY <1>1 DEF RegistryStep, R!Next
  <1>2. CASE UNCHANGED registryState
    <2>1. CASE AppNames' = AppNames
      BY <1>2, <2>1 DEF registryState, AppNames, R!vars
    <2>2. CASE \E n \in Name : AppNames' = IF n \in AppNames THEN AppNames \ {n}
                                                            ELSE AppNames \cup {n}
      BY <1>2, <2>2 DEF registryState, AppNames, R!Next, R!DeployedAppsChange,
                        R!registryVars, R!handlerVars
    <2> QED
      BY <2>1, <2>2, AppNamesStep
  <1>3. ASSUME NEW u \in Upload, EvictRemove(u), HasTunnel(evicting[u], AppName[u])
        PROVE  R!Next
    <2>1. evicting[u] \in Session /\ AppName[u] \in Name
      BY <1>3, DeployAssumption DEF HasTunnel, D!AppAssumption
    <2>2. R!RemoveTunnelByName(evicting[u], AppName[u])
      BY <1>3 DEF EvictRemove
    <2> QED
      BY <2>1, <2>2 DEF R!Next, R!Operator
  <1>4. \/ RegistryStep
        \/ UNCHANGED registryState
        \/ \E u \in Upload : EvictRemove(u) /\ HasTunnel(evicting[u], AppName[u])
    BY DEF Next, DeployStep, EvictLookup, EvictRemove, vars
  <1> QED
    BY <1>1, <1>2, <1>3, <1>4

LEMMA RegistryFacts == /\ RP!PortAssumption /\ RP!RequestAssumption
                       /\ RP!BoundAssumption /\ RP!NoneAssumption
  BY RegistryAssumption DEF R!Request, RP!Request

LEMMA RegistryInvariant == Spec => []RP!IInv
  <1>2. Init => RP!IInv
    BY RegistryFacts, RP!InitIInv, SameRegistryInit DEF Init
  <1>3. DP!IInv /\ DP!IInv' /\ RP!IInv /\ [Next]_vars => RP!IInv'
    <2> SUFFICES ASSUME DP!IInv, DP!IInv', RP!IInv, [Next]_vars PROVE RP!IInv'
      OBVIOUS
    <2>1. byID \subseteq Session
      BY DEF RP!IInv, RP!TypeOK
    <2>2. [R!Next]_(R!vars)
      BY <2>1, RegistryNext
    <2>3. [RP!Next]_(RP!vars)
      BY <2>2, SameRegistryNext DEF R!vars, RP!vars
    <2> QED
      BY RegistryFacts, <2>3, RP!NextIInv
  <1> QED
    BY <1>2, <1>3, DeployInvariant, PTL DEF Spec

-----------------------------------------------------------------------------
(* A promotion takes over without a gap *)

LEMMA RegistryMoves ==
    ASSUME DP!IInv, DP!IInv', RP!IInv, [Next]_vars
    PROVE  [RP!Next]_(RP!vars)
  <1>1. byID \subseteq Session
    BY DEF RP!IInv, RP!TypeOK
  <1> QED
    BY <1>1, RegistryNext, SameRegistryNext DEF R!vars, RP!vars

(* An app that is stored is one, ... *)
LEMMA StoreAppStores ==
    ASSUME DP!IInv, NEW u \in Upload, D!StoreApp(u)
    PROVE  /\ deployedApps'[AppName[u]] # None
           /\ \A n \in Name : n # AppName[u] => deployedApps'[n] = deployedApps[n]
  <1>1. AppName[u] \in Name
    BY DeployAssumption DEF D!AppAssumption
  <1>2. deployedApps \in [Name -> DP!App \cup {None}]
    BY DEF DP!IInv, DP!TypeOK, DP!Apps
  <1>3. [id |-> u, port |-> found[u]] \in DP!App
    BY DEF DP!App, DP!IInv, DP!StepsWF, D!StoreApp, D!Go
  <1>4. deployedApps' = [deployedApps EXCEPT ![AppName[u]] =
                            [id |-> u, port |-> found[u]]]
    BY DEF D!StoreApp
  <1>5. None \notin DP!App
    BY DeployFacts DEF DP!MarkAssumption
  <1> QED
    BY <1>1, <1>2, <1>3, <1>4, <1>5

(* ... and stays until it is stopped. *)
LEMMA AppsStay ==
    ASSUME DP!IInv, DP!IInv', [Next]_vars,
           NEW n \in Name, Unstopped(n), deployedApps[n] # None
    PROVE  deployedApps'[n] # None
  <1>1. ASSUME NEW u \in Upload, D!StoreApp(u) PROVE deployedApps'[n] # None
    BY <1>1, StoreAppStores
  <1>2. ASSUME NEW x \in Stop, D!StopDelete(x) PROVE deployedApps'[n] # None
    <2>1. deployedApps \in [Name -> DP!App \cup {None}]
      BY DEF DP!IInv, DP!TypeOK, DP!Apps
    <2> QED
      BY <1>2, <2>1 DEF D!StopDelete, Unstopped
  <1> QED
    BY <1>1, <1>2, AppsStep

LEMMA AppStandsNext ==
    ASSUME DP!IInv, DP!IInv', AppStands, [Next]_vars
    PROVE  AppStands'
  <1> SUFFICES ASSUME NEW u \in Upload, job'[u] \in D!Stored, Unstopped(AppName[u])
               PROVE  deployedApps'[AppName[u]] # None
    BY DEF AppStands, Unstopped
  <1>1. AppName[u] \in Name
    BY DeployAssumption DEF D!AppAssumption
  <1>2. job[u] \in D!Stored \/ D!StoreApp(u)
    BY StoredStep
  <1>3. CASE job[u] \in D!Stored
    BY <1>1, <1>3, AppsStay DEF AppStands
  <1>4. CASE D!StoreApp(u)
    BY <1>4, StoreAppStores
  <1> QED
    BY <1>2, <1>3, <1>4

(* A client's tunnels are named like its requests. *)
LEMMA TunnelsNamedNext ==
    ASSUME NamedBySubdomain, RP!IInv, TunnelsNamed, [RP!Next]_(RP!vars)
    PROVE  TunnelsNamed'
  <1> DEFINE Steps == {"httpCheck", "httpCheckApp", "httpRegister"}
  <1> SUFFICES ASSUME NEW s \in Session
               PROVE  /\ handler'[s] \in Steps =>
                             R!HttpTunnel(reg'[s]).subdomain = reg'[s].name
                      /\ \A j \in DOMAIN tunnels'[s] :
                             tunnels'[s][j].type = "http" =>
                                 tunnels'[s][j].subdomain = tunnels'[s][j].name
    BY DEF TunnelsNamed, R!SubdomainOf
  <1>1. /\ handler[s] \in Steps => R!HttpTunnel(reg[s]).subdomain = reg[s].name
        /\ \A i \in DOMAIN tunnels[s] : tunnels[s][i].type = "http" =>
               tunnels[s][i].subdomain = tunnels[s][i].name
    BY DEF TunnelsNamed, R!SubdomainOf
  <1>2. handler'[s] \in Steps =>
            \/ handler[s] \in Steps /\ reg'[s] = reg[s]
            \/ \E r \in Requests[s] : r.type = "http" /\ reg'[s] = r
    <2>1. RP!TypeOK
      BY DEF RP!IInv
    <2> QED
      BY <2>1, RegistryFacts, RP!HttpMoves
  <1>3. handler'[s] \in Steps => R!HttpTunnel(reg'[s]).subdomain = reg'[s].name
    BY <1>1, <1>2 DEF NamedBySubdomain
  <1>4. ASSUME NEW j \in DOMAIN tunnels'[s], tunnels'[s][j].type = "http"
        PROVE  tunnels'[s][j].subdomain = tunnels'[s][j].name
    <2>1. \/ \E i \in DOMAIN tunnels[s] :
                /\ tunnels'[s][j].name = tunnels[s][i].name
                /\ tunnels'[s][j].type = tunnels[s][i].type
                /\ tunnels'[s][j].subdomain = tunnels[s][i].subdomain
          \/ RP!RegisterHTTP(s) /\ tunnels'[s][j] = RP!HttpTunnel(reg[s])
      BY <1>4, RegistryFacts, RP!TunnelMoves
    <2>2. CASE RP!RegisterHTTP(s) /\ tunnels'[s][j] = RP!HttpTunnel(reg[s])
      BY <1>1, <2>2 DEF RP!RegisterHTTP, RP!HttpTunnel, R!HttpTunnel
    <2> QED
      BY <1>1, <1>4, <2>1, <2>2
  <1> QED
    BY <1>3, <1>4

LEMMA HandoverInit == Init => HandoverInv
  BY DEF Init, D!Init, R!Init, HandoverInv, AppStands, TunnelsNamed, D!Stored, D!Saving,
         D!Request

LEMMA Handover ==
    ASSUME NamedBySubdomain
    PROVE  Spec => []HandoverInv
  <1>1. DP!IInv /\ DP!IInv' /\ RP!IInv /\ HandoverInv /\ [Next]_vars => HandoverInv'
    BY RegistryMoves, AppStandsNext, TunnelsNamedNext DEF HandoverInv
  <1> QED
    BY <1>1, HandoverInit, DeployInvariant, RegistryInvariant, PTL DEF Spec

(* The route that an eviction takes is the app's, and the app is there.    *)
LEMMA EvictionServed ==
    ASSUME DP!IInv, DP!IInv', RP!IInv, HandoverInv, [Next]_vars,
           NEW u \in Upload, EvictRemove(u), HasTunnel(evicting[u], AppName[u]),
           NEW n \in Name, Unstopped(n), bySubdomain[n] # None
    PROVE  Served(n)'
  <1> DEFINE s == evicting[u]
  <1>1. RP!TypeOK
    BY DEF RP!IInv
  <1>2. s \in byID /\ s \in Session
    BY <1>1 DEF HasTunnel, RP!TypeOK
  <1>3. PICK i \in DOMAIN tunnels[s] :
          /\ tunnels[s][i].name = AppName[u]
          /\ bySubdomain' = R!Without(bySubdomain, {tunnels[s][i].subdomain})
    BY DEF EvictRemove, R!RemoveTunnelByName, R!IsFirst
  <1>4. bySubdomain'[n] = bySubdomain[n] \/ n = tunnels[s][i].subdomain
    BY <1>1, <1>3 DEF RP!TypeOK, R!Without
  <1>5. ASSUME n = tunnels[s][i].subdomain PROVE n = AppName[u]
    <2>1. tunnels[s][i] \in RP!Tunnel
      BY <1>1, <1>2, RegistryFacts, RP!TunnelsTyped
    <2>2. tunnels[s][i].type = "http"
      BY <1>5, <2>1, RegistryFacts DEF RP!Tunnel, RP!NoneAssumption
    <2> QED
      BY <1>2, <1>3, <1>5, <2>2 DEF HandoverInv, TunnelsNamed
  <1>6. job[u] \in D!Stored
    BY DEF EvictRemove, D!Evict, D!Go, D!Stored
  <1>7. n = AppName[u] => deployedApps'[n] # None
    BY <1>6, AppsStay DEF HandoverInv, AppStands
  <1> QED
    BY <1>4, <1>5, <1>7 DEF Served

(* Where clients name their tunnels after the subdomains, no step of a     *)
(* promotion leaves the subdomain to nobody (deploy.go:321-333), whatever  *)
(* the clients and the other promotions do meanwhile.                      *)
THEOREM PromotionsKeepServing ==
    ASSUME NamedBySubdomain
    PROVE  Spec => PromotionKeepsServing
  <1>1. ASSUME DP!IInv, DP!IInv', RP!IInv, HandoverInv, [Next]_vars,
               job' # job \/ evicting' # evicting,
               NEW n \in Name, Unstopped(n), Served(n)
        PROVE  Served(n)'
    <2>1. CASE deployedApps[n] # None
      BY <1>1, <2>1, AppsStay DEF Served
    <2>2. CASE bySubdomain[n] # None
      <3>1. ASSUME UNCHANGED registryState PROVE Served(n)'
        BY <2>2, <3>1 DEF registryState, Served
      <3>2. ASSUME NEW u \in Upload, EvictRemove(u), HasTunnel(evicting[u], AppName[u])
            PROVE  Served(n)'
        BY <1>1, <2>2, <3>2, EvictionServed
      <3>3. \/ UNCHANGED registryState
            \/ \E u \in Upload : EvictRemove(u) /\ HasTunnel(evicting[u], AppName[u])
        BY <1>1 DEF Next, RegistryStep, DeployStep, EvictLookup, EvictRemove, vars,
                    deployState
      <3> QED
        BY <3>1, <3>2, <3>3
    <2> QED
      BY <1>1, <2>1, <2>2 DEF Served
  <1>2. DP!IInv /\ DP!IInv' /\ RP!IInv /\ HandoverInv /\ [Next]_vars
        => [job' # job \/ evicting' # evicting
              => \A n \in Name : Unstopped(n) /\ Served(n) => Served(n)']_vars
    BY <1>1
  <1> QED
    BY <1>2, Handover, DeployInvariant, RegistryInvariant, PTL
    DEF Spec, PromotionKeepsServing

-----------------------------------------------------------------------------
(* No gap for a request under way *)

(* How a request comes to be at "app" or answered "none". *)
LEMMA VisitMoves ==
    ASSUME RP!TypeOK, [Next]_vars, NEW v \in Visitor
    PROVE  \/ visit'[v] = visit[v]
           \/ visit'[v].pc \notin {"app", "none"}
           \/ R!LookupHTTP(v) /\ UNCHANGED deployState
           \/ R!LoadApp(v) /\ UNCHANGED deployState
  <1>1. CASE UNCHANGED visit
    BY <1>1
  <1>2. ASSUME NEW w \in Visitor, w # v,
               \/ \E n \in Name : R!Arrive(w, n)
               \/ R!LookupHTTP(w) \/ R!LoadApp(w) \/ R!FindTunnel(w) \/ R!Finish(w)
        PROVE  visit'[v] = visit[v]
    BY <1>2 DEF RP!TypeOK, R!Arrive, R!LookupHTTP, R!LoadApp, R!FindTunnel, R!Finish
  <1>3. ASSUME \/ \E n \in Name : R!Arrive(v, n)
               \/ R!FindTunnel(v) \/ R!Finish(v)
        PROVE  visit'[v].pc \notin {"app", "none"}
    BY <1>3 DEF RP!TypeOK, RP!Visit, R!Arrive, R!FindTunnel, R!Finish, R!Idle
  <1>4. ASSUME (\E s \in Session : R!Handler(s)) \/ R!Operator
        PROVE  UNCHANGED visit
    BY <1>4 DEF R!Handler, R!Operator, R!handlerVars,
                R!AuthOK, R!AuthFail, R!AddClient, R!RecvRegister, R!LoopExit,
                R!RemoveClient, R!HttpCheck, R!HttpCheckApp, R!RegisterHTTP, R!TcpPick,
                R!TcpCheck, R!TcpListen, R!TcpListenErr, R!RegisterTCP,
                R!RemoveTunnelByName, R!DisconnectClient, R!SessionDies, R!CloseAll
  <1>5. \/ UNCHANGED visit
        \/ RegistryStep
        \/ \E s \in Session, n \in Name : R!RemoveTunnelByName(s, n)
    BY DeployAssumption DEF Next, DeployStep, EvictLookup, EvictRemove, vars,
       registryState, HasTunnel, D!AppAssumption, R!RemoveTunnelByName
  <1>6. ASSUME NEW s \in Session, NEW n \in Name, R!RemoveTunnelByName(s, n)
        PROVE  UNCHANGED visit
    BY <1>6 DEF R!RemoveTunnelByName
  <1> QED
    BY <1>1, <1>2, <1>3, <1>4, <1>5, <1>6 DEF RegistryStep, R!Public

LEMMA NoGapNext ==
    ASSUME DP!IInv, DP!IInv', RP!IInv, NoGapInv, [WatchNext]_watchVars
    PROVE  NoGapInv'
  <1> SUFFICES ASSUME NEW v \in Visitor, visit'[v].pc \in {"app", "none"},
                      Unstopped(visit'[v].subdomain)
               PROVE  \/ unserved'[v]
                      \/ /\ visit'[v].pc = "app"
                         /\ deployedApps'[visit'[v].subdomain] # None
    BY DEF NoGapInv, Unstopped
  <1>0. RP!TypeOK
    BY DEF RP!IInv
  <1>1. [Next]_vars
    BY DEF WatchNext, watchVars
  <1>2. unserved[v] => unserved'[v]
    BY DEF WatchNext, watchVars
  <1>3. CASE visit'[v] = visit[v]
    <2>1. \/ unserved[v]
          \/ visit[v].pc = "app" /\ deployedApps[visit[v].subdomain] # None
      BY <1>3 DEF NoGapInv
    <2>2. visit[v].pc = "app" => visit[v].subdomain \in Name
      BY <1>0 DEF RP!TypeOK, RP!VisitWF
    <2> QED
      BY <1>1, <1>2, <1>3, <2>1, <2>2, AppsStay
  <1>4. CASE R!LookupHTTP(v) /\ UNCHANGED deployState
    <2>1. /\ visit[v].subdomain \in Name
          /\ visit'[v].subdomain = visit[v].subdomain
          /\ visit'[v].pc = "app"
          /\ bySubdomain'[visit[v].subdomain] = None
      BY <1>0, <1>4 DEF R!LookupHTTP, R!registryVars, RP!TypeOK, RP!VisitWF, RP!Visit
    <2>2. deployedApps'[visit[v].subdomain] = None => Unserved(v)'
      BY <2>1 DEF Unserved, Served
    <2>3. Unserved(v)' => unserved'[v]
      BY <2>1, <1>4 DEF WatchNext, watchVars, R!LookupHTTP, vars, registryState
    <2> QED
      BY <2>1, <2>2, <2>3
  <1>5. CASE R!LoadApp(v) /\ UNCHANGED deployState
    <2>1. /\ visit[v].pc = "app"
          /\ visit[v].subdomain \in Name
          /\ visit'[v].subdomain = visit[v].subdomain
          /\ visit'[v].pc = "none"
          /\ deployedApps[visit[v].subdomain] = None
      BY <1>0, <1>5 DEF R!LoadApp, RP!TypeOK, RP!VisitWF, RP!Visit
    <2> QED
      BY <1>2, <2>1 DEF NoGapInv
  <1> QED
    BY <1>0, <1>1, <1>3, <1>4, <1>5, VisitMoves

(* A request that is answered by nobody has, since it came in, lived       *)
(* through a moment without one, whatever promotions and clients did:      *)
(* handleHTTP asks the registry first (http_proxy.go:26-35) and a          *)
(* promotion stores the app before it evicts (deploy.go:321-333).          *)
THEOREM NoGapForVisitors == WatchSpec => []NoGap
  <1>1. WatchSpec => Spec
    <2>1. [WatchNext]_watchVars => [Next]_vars
      BY DEF WatchNext, watchVars
    <2> QED
      BY <2>1, PTL DEF WatchSpec, WatchInit, Spec
  <1>2. WatchInit => NoGapInv
    BY DEF WatchInit, Init, R!Init, R!Idle, NoGapInv
  <1>3. DP!IInv /\ DP!IInv' /\ RP!IInv /\ NoGapInv /\ [WatchNext]_watchVars
        => NoGapInv'
    BY NoGapNext
  <1>4. NoGapInv => NoGap
    BY DEF NoGapInv, NoGap
  <1> QED
    BY <1>1, <1>2, <1>3, <1>4, DeployInvariant, RegistryInvariant, PTL DEF WatchSpec

-----------------------------------------------------------------------------
(* A promoted app is not shadowed *)

(* What of a promotion the registry sees, and when. *)
LEMMA RegistrySees ==
    ASSUME DP!IInv, NEW u \in Upload, [Next]_vars
    PROVE  /\ D!StoreApp(u) => UNCHANGED <<registryState, evicting>>
           /\ job[u] = "evict" /\ job'[u] = "done" => EvictRemove(u)
  <1>1. job \in [Upload \cup Stop -> DP!Steps]
    BY DEF DP!IInv, DP!TypeOK, DP!Request
  <1>2. D!StoreApp(u) => job[u] = "storeApp" /\ job'[u] = "deleteBuild"
    BY <1>1 DEF D!StoreApp, D!Go
  <1>3. ASSUME UNCHANGED deployState
        PROVE  ~D!StoreApp(u) /\ ~(job[u] = "evict" /\ job'[u] = "done")
    BY <1>2, <1>3 DEF deployState
  <1>4. ASSUME NEW w \in Upload, EvictRemove(w), w # u
        PROVE  job'[u] = job[u]
    BY <1>1, <1>4 DEF EvictRemove, D!Evict, D!Go
  <1>5. ASSUME EvictRemove(u) PROVE ~D!StoreApp(u)
    BY <1>2, <1>5 DEF EvictRemove, D!Evict, D!Go
  <1>6. ASSUME DeployStep, job[u] = "evict" PROVE job'[u] = "evict"
    BY <1>6, DeployFacts, NotRestarting, SameDeployNext, DP!InsideWaits
    DEF DeployStep, DP!IInv
  <1>7. ASSUME DeployStep PROVE UNCHANGED <<registryState, evicting>>
    BY <1>7 DEF DeployStep
  <1>8. \/ DeployStep
        \/ UNCHANGED deployState
        \/ \E w \in Upload : EvictRemove(w)
    BY DEF Next, RegistryStep, EvictLookup, vars
  <1> QED
    BY <1>2, <1>3, <1>4, <1>5, <1>6, <1>7, <1>8

(* A lookup is recorded once, by an upload that has come to its eviction.  *)
LEMMA EvictingMoves ==
    ASSUME NEW u \in Upload, [Next]_vars
    PROVE  evicting'[u] = evicting[u] \/ EvictLookup(u)
  <1>1. ASSUME NEW w \in Upload, w # u, EvictLookup(w) PROVE evicting'[u] = evicting[u]
    BY <1>1 DEF EvictLookup
  <1>2. UNCHANGED evicting \/ \E w \in Upload : EvictLookup(w)
    BY DEF Next, RegistryStep, DeployStep, EvictRemove, vars
  <1> QED
    BY <1>1, <1>2

LEMMA EvictsLastNext ==
    ASSUME DP!IInv, EvictsLast, [Next]_vars
    PROVE  EvictsLast'
  <1> SUFFICES ASSUME NEW u \in Upload, evicting'[u] # "unread"
               PROVE  job'[u] \in {"evict", "done"}
    BY DEF EvictsLast
  <1>1. job[u] \in {"evict", "done"}
    BY EvictingMoves DEF EvictsLast, EvictLookup
  <1> QED
    BY <1>1, DeployNext, DeployFacts, NotRestarting, DP!EvictLast DEF DP!IInv

(* The registry's tunnels are what the clients asked for. *)
LEMMA FromRequestsNext ==
    ASSUME RP!IInv, FromRequests, [RP!Next]_(RP!vars)
    PROVE  FromRequests'
  <1> DEFINE Http == {"httpCheck", "httpCheckApp", "httpRegister"}
             Tcp == {"tcpPick", "tcpCheck", "tcpListen", "tcpRegister"}
  <1> SUFFICES ASSUME NEW s \in Session
               PROVE  /\ handler'[s] \in Http =>
                             reg'[s] \in Requests[s] /\ reg'[s].type = "http"
                      /\ handler'[s] \in Tcp =>
                             reg'[s] \in Requests[s] /\ reg'[s].type = "tcp"
                      /\ \A j \in DOMAIN tunnels'[s] : \E r \in Requests[s] :
                             /\ r.type = tunnels'[s][j].type
                             /\ r.name = tunnels'[s][j].name
    BY DEF FromRequests
  <1>0. RP!TypeOK
    BY DEF RP!IInv
  <1>1. handler[s] \in Http => reg[s] \in Requests[s] /\ reg[s].type = "http"
    BY DEF FromRequests
  <1>2. handler[s] \in Tcp => reg[s] \in Requests[s] /\ reg[s].type = "tcp"
    BY DEF FromRequests
  <1>3. handler'[s] \in Http => reg'[s] \in Requests[s] /\ reg'[s].type = "http"
    BY <1>0, <1>1, RegistryFacts, RP!HttpMoves
  <1>4. handler'[s] \in Tcp => reg'[s] \in Requests[s] /\ reg'[s].type = "tcp"
    BY <1>0, <1>2, RegistryFacts, RP!TcpMoves
  <1>5. ASSUME NEW j \in DOMAIN tunnels'[s]
        PROVE  \E r \in Requests[s] : /\ r.type = tunnels'[s][j].type
                                      /\ r.name = tunnels'[s][j].name
    <2>1. CASE \E i \in DOMAIN tunnels[s] : /\ tunnels'[s][j].name = tunnels[s][i].name
                                            /\ tunnels'[s][j].type = tunnels[s][i].type
      BY <2>1 DEF FromRequests
    <2>2. CASE /\ RP!RegisterTCP(s)
               /\ tunnels'[s][j].type = "tcp" /\ tunnels'[s][j].name = reg[s].name
      BY <1>2, <2>2 DEF RP!RegisterTCP
    <2>3. CASE RP!RegisterHTTP(s) /\ tunnels'[s][j] = RP!HttpTunnel(reg[s])
      BY <1>1, <2>3 DEF RP!RegisterHTTP, RP!HttpTunnel
    <2> QED
      BY <2>1, <2>2, <2>3, RegistryFacts, RP!TunnelMoves
  <1> QED
    BY <1>3, <1>4, <1>5

(* An app that is served was stored by this step or was served before.     *)
LEMMA ServedBefore ==
    ASSUME DP!IInv, DP!IInv', [Next]_vars, NEW u \in Upload,
           job'[u] \in D!Stored, D!ServedApp(u)'
    PROVE  D!StoreApp(u) \/ (job[u] \in D!Stored /\ D!ServedApp(u))
  <1>1. job[u] \in D!Stored \/ D!StoreApp(u)
    BY StoredStep
  <1>2. \A w \in Upload : AppName[w] \in Name
    BY DeployAssumption DEF D!AppAssumption
  <1>3. deployedApps \in [Name -> DP!App \cup {None}]
    BY DEF DP!IInv, DP!TypeOK, DP!Apps
  <1>4. ASSUME NEW w \in Upload, D!StoreApp(w), ~D!ServedApp(u) PROVE w = u
    BY <1>2, <1>3, <1>4 DEF D!StoreApp, D!ServedApp
  <1>5. ASSUME NEW x \in Stop, D!StopDelete(x) PROVE D!ServedApp(u)
    BY <1>2, <1>3, <1>5 DEF D!StopDelete, D!ServedApp
  <1>6. UNCHANGED deployedApps => D!ServedApp(u)
    BY DEF D!ServedApp
  <1> QED
    BY <1>1, <1>4, <1>5, <1>6, AppsStep

(* Nobody gets to take the route of an app that is served.                 *)
LEMMA StillKeptOff ==
    ASSUME RP!IInv, [RP!Next]_(RP!vars), NEW n \in Name, deployedApps[n] # None,
           ~Registering(n)
    PROVE  /\ ~Registering(n)'
           /\ bySubdomain'[n] \in {bySubdomain[n], None}
  <1>0. RP!TypeOK
    BY DEF RP!IInv
  <1>1. \A s \in Session : ~(handler[s] = "httpRegister" /\ RP!SubdomainOf(s) = n)
    BY DEF Registering, R!SubdomainOf, RP!SubdomainOf, R!HttpTunnel, RP!HttpTunnel
  <1>2. ASSUME NEW s \in Session, handler'[s] = "httpRegister",
               RP!HttpTunnel(reg'[s]).subdomain = n
        PROVE  FALSE
    <2>1. /\ reg'[s] = reg[s]
          /\ \/ handler[s] = "httpRegister"
             \/ RP!SubdomainOf(s) \notin {m \in Name : deployedApps[m] # None}
      BY <1>0, <1>2, RegistryFacts, RP!RegisterMoves
    <2> QED
      BY <1>1, <1>2, <2>1 DEF RP!SubdomainOf
  <1>3. ~Registering(n)'
    BY <1>2 DEF Registering, R!SubdomainOf, R!HttpTunnel, RP!HttpTunnel
  <1>4. bySubdomain'[n] \in {bySubdomain[n], None}
    BY <1>0, <1>1, RegistryFacts, RP!RouteOf
  <1> QED
    BY <1>3, <1>4

LEMMA KeptOffNext ==
    ASSUME DP!IInv, DP!IInv', RP!IInv, EvictsLast, KeptOff, [WatchNext]_watchVars
    PROVE  KeptOff'
  <1> SUFFICES ASSUME NEW u \in Upload, job'[u] \in D!Stored, D!ServedApp(u)',
                      u \notin late'
               PROVE  /\ ~Registering(AppName[u])'
                      /\ evicting'[u] # "unread" =>
                             bySubdomain'[AppName[u]] \in {None, evicting'[u]}
    BY DEF KeptOff
  <1>1. [Next]_vars /\ u \notin late
    BY DEF WatchNext, watchVars
  <1>2. AppName[u] \in Name
    BY DeployAssumption DEF D!AppAssumption
  <1>3. CASE D!StoreApp(u)
    <2>1. job[u] = "storeApp" /\ job'[u] = "deleteBuild"
      BY <1>3 DEF D!StoreApp, D!Go, DP!IInv, DP!TypeOK, DP!Request
    <2>2. ~Registering(AppName[u])
      BY <2>1 DEF WatchNext, watchVars, vars, deployState, Stores
    <2>3. UNCHANGED <<registryState, evicting>>
      BY <1>1, <1>3, RegistrySees
    <2>4. ~Registering(AppName[u])'
      BY <2>2, <2>3 DEF Registering, registryState, R!SubdomainOf
    <2>5. evicting'[u] = "unread"
      BY <2>1, <2>3 DEF EvictsLast
    <2> QED
      BY <2>4, <2>5
  <1>4. CASE job[u] \in D!Stored /\ D!ServedApp(u)
    <2>1. /\ ~Registering(AppName[u])
          /\ evicting[u] # "unread" => bySubdomain[AppName[u]] \in {None, evicting[u]}
      BY <1>1, <1>4 DEF KeptOff
    <2>2. /\ ~Registering(AppName[u])'
          /\ bySubdomain'[AppName[u]] \in {bySubdomain[AppName[u]], None}
      BY <1>1, <1>2, <1>4, <2>1, RegistryMoves, StillKeptOff DEF D!ServedApp
    <2>3. CASE evicting'[u] = evicting[u]
      BY <2>1, <2>2, <2>3
    <2>4. CASE EvictLookup(u)
      <3>1. UNCHANGED bySubdomain
        BY <2>4 DEF EvictLookup, registryState
      <3>2. evicting'[u] \in {evicting[u], bySubdomain[AppName[u]]}
        BY <2>4 DEF EvictLookup
      <3> QED
        BY <2>1, <2>2, <3>1, <3>2
    <2> QED
      BY <1>1, <2>2, <2>3, <2>4, EvictingMoves
  <1> QED
    BY <1>1, <1>3, <1>4, ServedBefore

(* An eviction takes the route that it has found. *)
LEMMA EvictionTakes ==
    ASSUME NamesApart, RP!IInv, TunnelsNamed, FromRequests,
           NEW u \in Upload, EvictRemove(u), AppName[u] \in Name,
           bySubdomain[AppName[u]] = evicting[u]
    PROVE  bySubdomain'[AppName[u]] = None
  <1> DEFINE n == AppName[u]
             e == evicting[u]
  <1>0. RP!TypeOK
    BY DEF RP!IInv
  <1>1. CASE e = None
    <2>1. ~HasTunnel(e, n)
      BY <1>0, <1>1, RegistryFacts DEF HasTunnel, RP!TypeOK, RP!NoneAssumption
    <2> QED
      BY <1>1, <2>1 DEF EvictRemove, registryState
  <1>2. CASE e # None
    <2>1. PICK i \in DOMAIN tunnels[e] : e \in byID /\ tunnels[e][i].subdomain = n
      BY <1>2 DEF RP!IInv, RP!NoDanglingRoute
    <2>2. e \in Session
      BY <1>0, <2>1 DEF RP!TypeOK
    <2>3. \A j \in DOMAIN tunnels[e] : tunnels[e][j] \in RP!Tunnel
      BY <1>0, <2>2, RegistryFacts, RP!TunnelsTyped
    <2>4. tunnels[e][i].type = "http"
      BY <2>1, <2>3, RegistryFacts DEF RP!Tunnel, RP!NoneAssumption
    <2>5. tunnels[e][i].name = n
      BY <2>1, <2>2, <2>4 DEF TunnelsNamed
    <2>6. HasTunnel(e, n)
      BY <2>1, <2>5 DEF HasTunnel
    <2>7. PICK j \in DOMAIN tunnels[e] :
            /\ tunnels[e][j].name = n
            /\ bySubdomain' = R!Without(bySubdomain, {tunnels[e][j].subdomain})
      BY <2>6 DEF EvictRemove, R!RemoveTunnelByName, R!IsFirst
    <2>8. tunnels[e][j].type # "tcp"
      <3>1. PICK r \in Requests[e] : r.type = "http" /\ r.name = n
        BY <2>2, <2>4, <2>5 DEF FromRequests
      <3>2. PICK q \in Requests[e] : q.type = tunnels[e][j].type /\ q.name = n
        BY <2>2, <2>7 DEF FromRequests
      <3> QED
        BY <2>2, <3>1, <3>2 DEF NamesApart
    <2>9. tunnels[e][j].subdomain = n
      BY <2>2, <2>3, <2>7, <2>8 DEF RP!Tunnel, TunnelsNamed
    <2> QED
      BY <1>0, <2>7, <2>9 DEF R!Without, RP!TypeOK
  <1> QED
    BY <1>1, <1>2

LEMMA ShadowNext ==
    ASSUME NamesApart, DP!IInv, DP!IInv', RP!IInv, TunnelsNamed, FromRequests,
           EvictsLast, KeptOff, AppNotShadowed, [WatchNext]_watchVars
    PROVE  AppNotShadowed'
  <1> SUFFICES ASSUME NEW u \in Upload, job'[u] = "done", D!ServedApp(u)',
                      u \notin late'
               PROVE  bySubdomain'[AppName[u]] = None
    BY DEF AppNotShadowed
  <1>1. [Next]_vars /\ u \notin late
    BY DEF WatchNext, watchVars
  <1>2. AppName[u] \in Name
    BY DeployAssumption DEF D!AppAssumption
  <1>3. job[u] \in D!Stored /\ D!ServedApp(u)
    <2>1. job'[u] \in D!Stored
      BY DEF D!Stored
    <2>2. ~D!StoreApp(u)
      BY DEF D!StoreApp, D!Go, DP!IInv, DP!TypeOK, DP!Request
    <2> QED
      BY <1>1, <2>1, <2>2, ServedBefore
  <1>4. /\ ~Registering(AppName[u])
        /\ evicting[u] # "unread" => bySubdomain[AppName[u]] \in {None, evicting[u]}
    BY <1>1, <1>3 DEF KeptOff
  <1>5. bySubdomain'[AppName[u]] \in {bySubdomain[AppName[u]], None}
    BY <1>1, <1>2, <1>3, <1>4, RegistryMoves, StillKeptOff DEF D!ServedApp
  <1>6. CASE job[u] = "done"
    BY <1>1, <1>3, <1>5, <1>6 DEF AppNotShadowed
  <1>7. CASE job[u] # "done"
    <2>1. D!Evict(u)
      <3>1. DP!Evict(u)
        BY <1>1, <1>7, DeployNext, DeployFacts, NotRestarting, DP!EvictLast DEF DP!IInv
      <3> QED
        BY <3>1 DEF D!Evict, DP!Evict, D!Go, DP!Go, D!memory, DP!memory, D!locals,
                    DP!locals, D!host, DP!host, D!process, DP!process
    <2>2. EvictRemove(u)
      BY <1>1, <2>1, RegistrySees DEF D!Evict, D!Go
    <2>3. bySubdomain[AppName[u]] \in {None, evicting[u]}
      BY <1>4, <2>2 DEF EvictRemove
    <2> QED
      BY <1>2, <1>5, <2>2, <2>3, EvictionTakes
  <1> QED
    BY <1>6, <1>7

(* Where clients name their HTTP tunnels after the subdomains, and none    *)
(* has a TCP tunnel under the name of an HTTP one, an app is not shadowed, *)
(* and stays so, unless a registration had passed its checks when the app  *)
(* was stored (control.go:165-188, deploy.go:321-333): for any number of   *)
(* sessions, promotions and stops.                                         *)
THEOREM NotShadowed ==
    ASSUME NamedBySubdomain, NamesApart
    PROVE  WatchSpec => []AppNotShadowed
  <1>1. WatchSpec => Spec
    <2>1. [WatchNext]_watchVars => [Next]_vars
      BY DEF WatchNext, watchVars
    <2> QED
      BY <2>1, PTL DEF WatchSpec, WatchInit, Spec
  <1>2. WatchInit => ShadowInv
    BY DEF WatchInit, Init, D!Init, R!Init, D!Request, D!Stored, D!Saving, ShadowInv,
           FromRequests, EvictsLast, KeptOff, AppNotShadowed
  <1>3. /\ DP!IInv /\ DP!IInv' /\ RP!IInv /\ HandoverInv
        /\ ShadowInv /\ [WatchNext]_watchVars
        => ShadowInv'
    <2> SUFFICES ASSUME DP!IInv, DP!IInv', RP!IInv, HandoverInv, ShadowInv,
                        [WatchNext]_watchVars
                 PROVE  ShadowInv'
      OBVIOUS
    <2>1. [Next]_vars
      BY DEF WatchNext, watchVars
    <2>2. /\ TunnelsNamed /\ FromRequests /\ EvictsLast /\ KeptOff /\ AppNotShadowed
      BY DEF HandoverInv, ShadowInv
    <2>3. FromRequests'
      BY <2>1, <2>2, RegistryMoves, FromRequestsNext
    <2>4. EvictsLast'
      BY <2>1, <2>2, EvictsLastNext
    <2>5. KeptOff'
      BY <2>2, KeptOffNext
    <2>6. AppNotShadowed'
      BY <2>2, ShadowNext
    <2> QED
      BY <2>3, <2>4, <2>5, <2>6 DEF ShadowInv
  <1>4. ShadowInv => AppNotShadowed
    BY DEF ShadowInv
  <1> QED
    BY <1>1, <1>2, <1>3, <1>4, DeployInvariant, RegistryInvariant, Handover, PTL
    DEF WatchSpec
=============================================================================
